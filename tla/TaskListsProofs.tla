-------------------------- MODULE TaskListsProofs --------------------------
(***************************************************************************)
(* Proofs about the task list walkers for any tasks, priorities and        *)
(* limits, wherever and however often interrupts strike.  IndInv says that *)
(* a walker stands on a live node, and where it is, and what it has, in a  *)
(* walk that no interrupt has disturbed.                                   *)
(***************************************************************************)
EXTENDS TaskLists, SequenceTheorems, FiniteSetTheorems, WellFoundedInduction, TLAPS

Walking == pc \in {"ready", "wait"}

\* The samples that are left, and those that saw the task.
SamplesOK ==
  /\ pc # "done" => samples > 0 /\ rc = Running
  /\ seen + samples <= MaxSamples

\* Whoever is found exists.
FoundOK ==
  /\ pc = "permit" /\ found => tool \in Finders /\ target \in Live \cup {Self}
  /\ Walking \/ pc = "libraries" => ~found
  /\ pc = "libraries" => tool \in Counters
  /\ Walking /\ tool = "Tasks" => Len(rows) < MaxRows
  /\ tool # "Tasks" => rows = <<>>

\* Where an undisturbed walker is in its list.
Place(k) ==
  /\ cursor = IF k = 0 THEN Start ELSE ListHere[k]
  /\ tool # "Tasks" => visits = k
  /\ tool \in Finders => \A i \in 1..k : ListHere[i] # target
  /\ tool = "Tasks" => Len(rows) = 1 + k + (IF pc = "wait" THEN Len(ready) ELSE 0)

PlaceOK == Walking => \E k \in 0..Len(ListHere) : Place(k)

\* What an undisturbed walk of Tasks, of a finder, of a counter has so far.
RowsOK ==
  tool = "Tasks" /\ pc \in {"ready", "wait", "permit"} =>
    /\ Len(rows) <= Len(AllRows)
    /\ \A i \in 1..Len(rows) : rows[i] = AllRows[i]
    /\ pc = "permit" => Len(rows) = MaxRows \/ Len(rows) = Len(AllRows)

FinderOK ==
  tool \in Finders =>
    /\ pc = "ready" => ~truncated /\ target # Self
    /\ pc = "wait" => target # Self /\ (~truncated => target \notin ToSet(ready))
    /\ pc = "permit" /\ ~found /\ ~truncated => target \notin Live \cup {Self}

CounterOK ==
  tool \in Counters =>
    /\ pc = "ready" => ~truncated
    /\ pc = "wait" => (truncated <=> Len(ready) > MaxVisits)
    /\ pc = "libraries" => (truncated <=> Len(ready) > MaxVisits \/ Len(wait) > MaxVisits)
    /\ pc \in {"wait", "libraries"} => count["ready"] = Min({Len(ready), MaxVisits})
    /\ pc = "libraries" => count["wait"] = Min({Len(wait), MaxVisits})
    /\ pc = "permit" => CountsExact

SoFarOK == PlaceOK /\ RowsOK /\ FinderOK /\ CounterOK

\* A full table of Tasks has been warned of when it returns.
WarnedOK == pc = "done" /\ tool = "Tasks" => warned \/ Len(rows) < MaxRows

IndInv ==
  TypeOK /\ SamplesOK /\ WarnedOK /\ WalksLiveNodes /\ FoundOK /\ (woken = {} => SoFarOK)

-----------------------------------------------------------------------------
\* The limits are numbers, and no task is called like a list end.
LEMMA Constants ==
  /\ MaxVisits \in Nat /\ MaxRows \in Nat /\ MaxSamples \in Nat
  /\ MaxVisits >= 1 /\ MaxRows >= 1 /\ MaxSamples >= 1
  /\ Self \notin Tasks /\ End \notin Tasks /\ Start \notin Tasks
BY TaskAssumption DEF TaskAssumption

\* A set of naturals that is not empty has a smallest element, which Min is.
LEMMA MinIsLeast ==
  ASSUME NEW S, S \subseteq Nat, S # {}
  PROVE  Min(S) \in S /\ \A n \in S : Min(S) <= n
<1>1. PICK m \in S : \A n \in S : ~(<<n, m>> \in OpToRel(<, Nat))
  BY NatLessThanWellFounded, WFMin
<1>2. \A n \in S : ~(n < m)
  BY <1>1 DEF OpToRel
<1>3. \A n \in S : m <= n
  BY <1>2
<1>4. QED BY <1>3 DEF Min

\* The smaller of two numbers.
LEMMA MinOfTwo ==
  ASSUME NEW a \in Nat, NEW b \in Nat
  PROVE  Min({a, b}) = IF a <= b THEN a ELSE b
<1>1. Min({a, b}) \in {a, b} /\ \A n \in {a, b} : Min({a, b}) <= n
  BY MinIsLeast
<1>2. QED BY <1>1

\* Where a task is in a list that has it once.
LEMMA IndexIs ==
  ASSUME NEW S, NEW s \in Seq(S), IsInjective(s), NEW k \in DOMAIN s
  PROVE  LET I == {i \in 1..Len(s) : s[i] = s[k]} IN I # {} /\ Min(I) = k
<1> DEFINE I == {i \in 1..Len(s) : s[i] = s[k]}
<1>1. I = {k} /\ k \in Nat
  BY DEF IsInjective
<1>2. Min(I) = k
  BY <1>1, MinIsLeast
<1>3. QED BY <1>1, <1>2

\* What RemoveAt leaves: the nodes before the place, and those behind it.
LEMMA RemoveAtIs ==
  ASSUME NEW S, NEW s \in Seq(S), NEW i \in DOMAIN s
  PROVE  /\ RemoveAt(s, i) \in Seq(S)
         /\ Len(RemoveAt(s, i)) = Len(s) - 1
         /\ \A j \in 1..(Len(s) - 1) :
              RemoveAt(s, i)[j] = s[IF j < i THEN j ELSE j + 1]
<1> DEFINE front == SubSeq(s, 1, i - 1)
           back == SubSeq(s, i + 1, Len(s))
<1>0. Len(s) \in Nat /\ i \in 1..Len(s)
  OBVIOUS
<1>1. /\ front \in Seq(S) /\ Len(front) = i - 1
      /\ \A j \in 1..(i - 1) : front[j] = s[j]
  BY SubSeqProperties
<1>2. /\ back \in Seq(S) /\ Len(back) = Len(s) - i
      /\ \A j \in 1..(Len(s) - i) : back[j] = s[i + j]
  BY SubSeqProperties
<1>3. RemoveAt(s, i) = front \o back
  BY DEF RemoveAt
<1> HIDE DEF front, back
<1>4. /\ front \o back \in Seq(S) /\ Len(front \o back) = Len(front) + Len(back)
      /\ \A j \in 1..(Len(front) + Len(back)) : (front \o back)[j] =
           IF j <= Len(front) THEN front[j] ELSE back[j - Len(front)]
  BY ONLY <1>1, <1>2, ConcatProperties
<1>5. Len(front) + Len(back) = Len(s) - 1
  BY <1>0, <1>1, <1>2
<1>6. ASSUME NEW j \in 1..(Len(s) - 1)
      PROVE  (front \o back)[j] = s[IF j < i THEN j ELSE j + 1]
  <2>1. (front \o back)[j] = IF j <= i - 1 THEN front[j] ELSE back[j - (i - 1)]
    BY <1>1, <1>4, <1>5
  <2>2. CASE j < i
    BY <1>0, <1>1, <2>1, <2>2
  <2>3. CASE ~(j < i)
    <3>1. /\ j - (i - 1) \in 1..(Len(s) - i) /\ ~(j <= i - 1)
          /\ i + (j - (i - 1)) = j + 1
      BY <1>0, <2>3
    <3>2. back[j - (i - 1)] = s[i + (j - (i - 1))]
      BY <1>2, <3>1
    <3>3. QED BY <2>1, <2>3, <3>1, <3>2
  <2>4. QED BY <2>2, <2>3
<1>7. QED BY <1>3, <1>4, <1>5, <1>6

\* Exec's Remove takes one node out of a list.
LEMMA RemoveFirstIs ==
  ASSUME NEW S, NEW s \in Seq(S), IsInjective(s), NEW t
  PROVE  /\ RemoveFirst(s, t) \in Seq(S) /\ IsInjective(RemoveFirst(s, t))
         /\ ToSet(RemoveFirst(s, t)) = ToSet(s) \ {t}
<1>1. CASE ~\E i \in 1..Len(s) : s[i] = t
  BY <1>1 DEF RemoveFirst, ToSet
<1>2. CASE \E i \in 1..Len(s) : s[i] = t
  <2>1. PICK k \in DOMAIN s : s[k] = t
    BY <1>2
  <2>2. RemoveFirst(s, t) = RemoveAt(s, k)
    <3> DEFINE I == {i \in 1..Len(s) : s[i] = t}
    <3>1. I # {} /\ Min(I) = k
      BY <2>1, IndexIs
    <3>2. QED BY <1>2, <3>1 DEF RemoveFirst, SelectInSeq
  <2> DEFINE r == RemoveAt(s, k)
             at(j) == IF j < k THEN j ELSE j + 1
  <2>3. /\ r \in Seq(S) /\ Len(r) = Len(s) - 1
        /\ \A j \in 1..(Len(s) - 1) : r[j] = s[at(j)]
    BY RemoveAtIs
  <2>4. Len(s) \in Nat /\ k \in 1..Len(s) /\ DOMAIN r = 1..(Len(s) - 1)
    BY <2>3
  <2> HIDE DEF r
  <2>5. /\ \A j \in 1..(Len(s) - 1) : at(j) \in 1..Len(s) /\ at(j) # k
        /\ \A i, j \in 1..(Len(s) - 1) : at(i) = at(j) => i = j
        /\ \A i \in 1..Len(s) : i # k => \E j \in 1..(Len(s) - 1) : at(j) = i
    <3>1. ASSUME NEW i \in 1..Len(s), i # k PROVE \E j \in 1..(Len(s) - 1) : at(j) = i
      <4>1. CASE i < k
        <5>1. i \in 1..(Len(s) - 1) /\ at(i) = i
          BY <2>4, <4>1
        <5>2. QED BY <5>1
      <4>2. CASE ~(i < k)
        <5>1. i - 1 \in 1..(Len(s) - 1) /\ at(i - 1) = i
          BY <2>4, <3>1, <4>2
        <5>2. QED BY <5>1
      <4>3. QED BY <4>1, <4>2
    <3>2. QED BY <2>4, <3>1
  <2> HIDE DEF at
  <2>6. IsInjective(r)
    <3>1. ASSUME NEW i \in 1..(Len(s) - 1), NEW j \in 1..(Len(s) - 1), r[i] = r[j]
          PROVE  i = j
      <4>1. s[at(i)] = s[at(j)] /\ at(i) \in DOMAIN s /\ at(j) \in DOMAIN s
        BY <2>3, <2>5, <3>1
      <4>2. at(i) = at(j)
        BY <4>1 DEF IsInjective
      <4>3. QED BY <2>5, <4>2
    <3>2. QED BY <2>4, <3>1 DEF IsInjective
  <2>7. ToSet(r) = ToSet(s) \ {t}
    <3>1. ASSUME NEW x \in ToSet(r) PROVE x \in ToSet(s) /\ x # t
      <4>1. PICK j \in 1..(Len(s) - 1) : r[j] = x
        BY <2>4 DEF ToSet
      <4>2. x = s[at(j)] /\ at(j) \in DOMAIN s /\ at(j) # k
        BY <2>3, <2>5, <4>1
      <4>3. QED BY <2>1, <4>2 DEF ToSet, IsInjective
    <3>2. ASSUME NEW x \in ToSet(s) \ {t} PROVE x \in ToSet(r)
      <4>1. PICK i \in 1..Len(s) : s[i] = x /\ i # k
        BY <2>1 DEF ToSet
      <4>2. PICK j \in 1..(Len(s) - 1) : at(j) = i
        BY <2>5, <4>1
      <4>3. r[j] = x /\ j \in DOMAIN r
        BY <2>3, <2>4, <4>1, <4>2
      <4>4. QED BY <4>3 DEF ToSet
    <3>3. QED BY <3>1, <3>2
  <2>8. QED BY <2>2, <2>3, <2>6, <2>7 DEF r
<1>3. QED BY <1>1, <1>2

\* Enqueue adds one node to a list.
LEMMA EnqueueIs ==
  ASSUME NEW s \in Seq(Tasks), IsInjective(s), NEW t \in Tasks, t \notin ToSet(s)
  PROVE  /\ Enqueue(s, t) \in Seq(Tasks) /\ IsInjective(Enqueue(s, t))
         /\ ToSet(Enqueue(s, t)) = ToSet(s) \cup {t}
<1> DEFINE lower == {i \in DOMAIN s : Priority[s[i]] < Priority[t]}
           p == IF lower = {} THEN Len(s) + 1 ELSE Min(lower)
           front == SubSeq(s, 1, p - 1)
           back == SubSeq(s, p, Len(s))
           r == front \o <<t>> \o back
<1>1. Len(s) \in Nat /\ p \in 1..(Len(s) + 1)
  <2>1. lower \subseteq DOMAIN s /\ lower \subseteq Nat /\ DOMAIN s = 1..Len(s) /\ Len(s) \in Nat
    OBVIOUS
  <2> HIDE DEF lower
  <2>2. lower # {} => Min(lower) \in lower
    BY <2>1, MinIsLeast
  <2>3. QED BY <2>1, <2>2
<1>2. Enqueue(s, t) = r
  BY DEF Enqueue, InsertAt
<1> HIDE DEF p
<1>3. /\ front \in Seq(Tasks) /\ Len(front) = p - 1
      /\ \A j \in 1..(p - 1) : front[j] = s[j]
  BY <1>1, SubSeqProperties
<1>4. /\ back \in Seq(Tasks) /\ Len(back) = Len(s) + 1 - p
      /\ \A j \in 1..(Len(s) + 1 - p) : back[j] = s[p + j - 1]
  BY <1>1, SubSeqProperties
<1> HIDE DEF front, back
<1> DEFINE f == front \o <<t>>
<1>5. /\ f \in Seq(Tasks) /\ Len(f) = p
      /\ \A j \in 1..(p - 1) : f[j] = s[j]
      /\ f[p] = t
  <2> DEFINE one == <<t>>
  <2>1. one \in Seq(Tasks) /\ Len(one) = 1 /\ one[1] = t
    OBVIOUS
  <2>2. f = front \o one
    OBVIOUS
  <2> HIDE DEF one, f
  <2>3. /\ front \o one \in Seq(Tasks) /\ Len(front \o one) = Len(front) + Len(one)
        /\ \A j \in 1..(Len(front) + Len(one)) : (front \o one)[j] =
             IF j <= Len(front) THEN front[j] ELSE one[j - Len(front)]
    BY ONLY <1>3, <2>1, ConcatProperties
  <2>4. Len(front) + Len(one) = p /\ p \in 1..p /\ ~(p <= p - 1) /\ p - (p - 1) = 1
    <3>1. p \in Nat /\ p >= 1
      BY ONLY <1>1
    <3>2. Len(front) = p - 1 /\ Len(one) = 1
      BY <1>3, <2>1
    <3> QED BY ONLY <3>1, <3>2
  <2>5. \A j \in 1..(p - 1) : j \in 1..p /\ j <= p - 1
    BY <1>1
  <2>6. f[p] = t
    <3>1. f[p] = one[p - (p - 1)]
      BY <1>3, <2>2, <2>3, <2>4
    <3>2. QED BY <2>1, <2>4, <3>1
  <2>7. \A j \in 1..(p - 1) : f[j] = front[j]
    BY <1>3, <2>2, <2>3, <2>4, <2>5
  <2>8. QED BY <1>3, <2>2, <2>3, <2>4, <2>6, <2>7
<1>6. /\ r \in Seq(Tasks) /\ Len(r) = Len(f) + Len(back)
      /\ \A j \in 1..(Len(f) + Len(back)) : r[j] =
           IF j <= Len(f) THEN f[j] ELSE back[j - Len(f)]
  <2> HIDE DEF f
  <2>1. /\ f \o back \in Seq(Tasks) /\ Len(f \o back) = Len(f) + Len(back)
        /\ \A j \in 1..(Len(f) + Len(back)) : (f \o back)[j] =
             IF j <= Len(f) THEN f[j] ELSE back[j - Len(f)]
    BY ONLY <1>4, <1>5, ConcatProperties
  <2>2. QED BY <2>1 DEF f
<1> HIDE DEF f, r
<1>7. /\ DOMAIN r = 1..(Len(s) + 1) /\ r[p] = t
      /\ \A j \in 1..(p - 1) : r[j] = s[j]
  <2>1. Len(r) = Len(s) + 1 /\ Len(f) + Len(back) = Len(s) + 1
    BY <1>1, <1>4, <1>5, <1>6
  <2>2. \A j \in 1..p : j \in 1..(Len(f) + Len(back)) /\ j <= Len(f)
    BY <1>1, <1>5, <2>1
  <2>3. \A j \in 1..p : r[j] = f[j]
    BY <1>6, <2>2
  <2>4. p \in 1..p /\ \A j \in 1..(p - 1) : j \in 1..p
    BY <1>1
  <2>5. DOMAIN r = 1..(Len(s) + 1)
    BY <1>6, <2>1
  <2>6. QED BY <1>5, <2>3, <2>4, <2>5
<1>8. ASSUME NEW j \in (p + 1)..(Len(s) + 1) PROVE r[j] = s[j - 1]
  <2>1. /\ j \in 1..(Len(f) + Len(back)) /\ ~(j <= Len(f)) /\ j - p \in 1..(Len(s) + 1 - p)
        /\ p + (j - p) - 1 = j - 1
    BY <1>1, <1>4, <1>5
  <2>2. back[j - p] = s[p + (j - p) - 1]
    BY <1>4, <2>1
  <2>3. QED BY <1>5, <1>6, <2>1, <2>2
<1> DEFINE at(j) == IF j < p THEN j ELSE j - 1
<1>9. \A j \in 1..(Len(s) + 1) : j # p => r[j] = s[at(j)] /\ at(j) \in 1..Len(s)
  BY <1>1, <1>7, <1>8
<1>10. \A i \in 1..Len(s) : s[i] # t
  BY DEF ToSet
<1>11. IsInjective(r)
  <2>1. ASSUME NEW i \in 1..(Len(s) + 1), NEW j \in 1..(Len(s) + 1), r[i] = r[j], i # j
        PROVE  FALSE
    <3>1. i # p /\ j # p
      BY <1>7, <1>9, <1>10, <2>1
    <3>2. s[at(i)] = s[at(j)] /\ at(i) \in DOMAIN s /\ at(j) \in DOMAIN s
      BY <1>9, <2>1, <3>1
    <3>3. at(i) = at(j)
      BY <3>2 DEF IsInjective
    <3>4. QED BY <1>1, <2>1, <3>1, <3>3
  <2>2. QED BY <1>7, <2>1 DEF IsInjective
<1>12. ToSet(r) = ToSet(s) \cup {t}
  <2>1. ASSUME NEW x \in ToSet(r) PROVE x \in ToSet(s) \cup {t}
    <3>1. PICK j \in 1..(Len(s) + 1) : r[j] = x
      BY <1>7 DEF ToSet
    <3>2. CASE j = p
      BY <1>7, <3>1, <3>2
    <3>3. CASE j # p
      <4>1. x = s[at(j)] /\ at(j) \in DOMAIN s
        BY <1>9, <3>1, <3>3
      <4> HIDE DEF at
      <4>2. QED BY <4>1 DEF ToSet
    <3>4. QED BY <3>2, <3>3
  <2>2. ASSUME NEW x \in ToSet(s) PROVE x \in ToSet(r)
    <3>1. PICK i \in 1..Len(s) : s[i] = x
      BY DEF ToSet
    <3>2. CASE i < p
      <4>1. i \in 1..(p - 1) /\ i \in DOMAIN r
        BY <1>1, <1>7, <3>2
      <4>2. QED BY <1>7, <3>1, <4>1 DEF ToSet
    <3>3. CASE ~(i < p)
      <4>1. i + 1 \in (p + 1)..(Len(s) + 1) /\ i + 1 \in DOMAIN r /\ (i + 1) - 1 = i
        BY <1>1, <1>7, <3>3
      <4>2. r[i + 1] = x
        BY <1>8, <3>1, <4>1
      <4>3. QED BY <4>1, <4>2 DEF ToSet
    <3>4. QED BY <3>2, <3>3
  <2>3. t \in ToSet(r)
    BY <1>1, <1>7 DEF ToSet
  <2>4. QED BY <2>1, <2>2, <2>3
<1>13. QED BY <1>2, <1>6, <1>11, <1>12

USE Constants

\* The larger of three numbers.
LEMMA MaxOfThree ==
  ASSUME NEW a \in Nat, NEW b \in Nat, NEW c \in Nat
  PROVE  Max({a, b, c}) \in {a, b, c} /\ \A n \in {a, b, c} : n <= Max({a, b, c})
<1>1. \E m \in {a, b, c} : \A n \in {a, b, c} : n <= m
  <2>1. CASE b <= a /\ c <= a
    BY <2>1
  <2>2. CASE a <= b /\ c <= b
    BY <2>2
  <2>3. CASE a <= c /\ b <= c
    BY <2>3
  <2>4. QED BY <2>1, <2>2, <2>3
<1>2. QED BY <1>1 DEF Max

\* The successor of the k-th node of a list.
LEMMA SuccIs ==
  ASSUME TypeOK
  PROVE  /\ \A k \in 1..Len(ready) :
              Succ(ready[k]) = IF k = Len(ready) THEN End ELSE ready[k + 1]
         /\ \A k \in 1..Len(wait) :
              Succ(wait[k]) = IF k = Len(wait) THEN End ELSE wait[k + 1]
<1>0. /\ ready \in Seq(Tasks) /\ wait \in Seq(Tasks) /\ IsInjective(ready) /\ IsInjective(wait)
      /\ ToSet(ready) \cap ToSet(wait) = {}
  BY DEF TypeOK
<1>1. ASSUME NEW k \in 1..Len(ready)
      PROVE  Succ(ready[k]) = IF k = Len(ready) THEN End ELSE ready[k + 1]
  <2>1. Contains(ready, ready[k])
    BY DEF Contains
  <2> DEFINE I == {i \in 1..Len(ready) : ready[i] = ready[k]}
  <2>2. I # {} /\ Min(I) = k
    <3>1. k \in DOMAIN ready
      BY <1>0
    <3>2. QED BY ONLY <1>0, <3>1, IndexIs
  <2>3. QED BY <2>1, <2>2 DEF Succ, SelectInSeq
<1>2. ASSUME NEW k \in 1..Len(wait)
      PROVE  Succ(wait[k]) = IF k = Len(wait) THEN End ELSE wait[k + 1]
  <2>0. k \in DOMAIN wait
    BY <1>0
  <2>1. ~Contains(ready, wait[k])
    <3>1. SUFFICES ASSUME NEW i \in 1..Len(ready), ready[i] = wait[k] PROVE FALSE
      BY DEF Contains
    <3>2. ready[i] \in ToSet(ready) /\ wait[k] \in ToSet(wait)
      BY <1>0, <2>0 DEF ToSet
    <3>3. QED BY <1>0, <3>1, <3>2
  <2> DEFINE I == {i \in 1..Len(wait) : wait[i] = wait[k]}
  <2>2. I # {} /\ Min(I) = k
    BY ONLY <1>0, <2>0, IndexIs
  <2>3. QED BY <2>1, <2>2 DEF Succ, SelectInSeq
<1>3. QED BY <1>1, <1>2

\* The list a walker is in, and its next node when it is at the k-th one.
LEMMA NextIs ==
  ASSUME TypeOK, Walking, NEW k \in 0..Len(ListHere),
         cursor = IF k = 0 THEN Start ELSE ListHere[k]
  PROVE  NextNode = IF k = Len(ListHere) THEN End ELSE ListHere[k + 1]
<1>1. ListHere \in Seq(Tasks) /\ (ListHere = ready \/ ListHere = wait) /\ Len(ListHere) \in Nat
  BY DEF TypeOK, ListHere, Walking
<1>2. CASE k = 0
  <2>1. ListHere = <<>> <=> Len(ListHere) = 0
    BY <1>1, EmptySeq
  <2>2. QED BY <1>1, <1>2, <2>1 DEF NextNode
<1>3. CASE k # 0
  <2>1. k \in 1..Len(ListHere) /\ cursor = ListHere[k]
    BY <1>1, <1>3
  <2>2. cursor \in Tasks
    BY <1>1, <2>1
  <2>3. cursor # Start
    BY <2>2
  <2>4. QED BY <1>1, <2>1, <2>3, SuccIs DEF NextNode
<1>4. QED BY <1>2, <1>3

\* Wherever it stands, a walker goes on to a task that exists, or stops.
LEMMA NextLive ==
  ASSUME TypeOK, WalksLiveNodes, Walking
  PROVE  Live \subseteq Tasks /\ NextNode \in Live \cup {End}
<1>0. ready \in Seq(Tasks) /\ wait \in Seq(Tasks)
  BY DEF TypeOK
<1>1. Live \subseteq Tasks
  BY <1>0 DEF Live, ToSet
<1>2. \A i \in 1..Len(ready) : ready[i] \in Live
  BY <1>0 DEF Live, ToSet
<1>3. \A i \in 1..Len(wait) : wait[i] \in Live
  BY <1>0 DEF Live, ToSet
<1>4. CASE cursor = Start
  <2>1. /\ ready = <<>> \/ 1 \in 1..Len(ready)
        /\ wait = <<>> \/ 1 \in 1..Len(wait)
    BY <1>0, EmptySeq
  <2>2. QED BY <1>1, <1>2, <1>3, <1>4, <2>1 DEF NextNode, ListHere
<1>5. CASE cursor # Start
  <2>1. cursor \in ToSet(ready) \cup ToSet(wait)
    BY <1>5 DEF WalksLiveNodes, Walking, Live
  <2>2. CASE \E k \in 1..Len(ready) : cursor = ready[k]
    <3>1. PICK k \in 1..Len(ready) : cursor = ready[k]
      BY <2>2
    <3>2. k # Len(ready) => k + 1 \in 1..Len(ready)
      BY <1>0
    <3>3. NextNode = IF k = Len(ready) THEN End ELSE ready[k + 1]
      BY <1>5, <3>1, SuccIs DEF NextNode
    <3>4. QED BY <1>1, <1>2, <3>2, <3>3
  <2>3. CASE \E k \in 1..Len(wait) : cursor = wait[k]
    <3>1. PICK k \in 1..Len(wait) : cursor = wait[k]
      BY <2>3
    <3>2. k # Len(wait) => k + 1 \in 1..Len(wait)
      BY <1>0
    <3>3. NextNode = IF k = Len(wait) THEN End ELSE wait[k + 1]
      BY <1>5, <3>1, SuccIs DEF NextNode
    <3>4. QED BY <1>1, <1>3, <3>2, <3>3
  <2>4. QED BY <1>0, <2>1, <2>2, <2>3 DEF ToSet
<1>6. QED BY <1>4, <1>5

\* The rows of a list of tasks.
LEMMA RowsIs ==
  ASSUME NEW s \in Seq(Tasks), NEW x \in {"RUN", "READY", "WAIT"}
  PROVE  /\ Rows(s, x) \in Seq(Row) /\ Len(Rows(s, x)) = Len(s)
         /\ \A i \in 1..Len(s) : Rows(s, x)[i] = [task |-> s[i], state |-> x]
<1> DEFINE R == Rows(s, x)
<1>1. Len(s) \in Nat /\ DOMAIN s = 1..Len(s)
  OBVIOUS
<1>2. /\ DOMAIN R = 1..Len(s)
      /\ \A i \in 1..Len(s) : R[i] = [task |-> s[i], state |-> x]
      /\ R = [i \in 1..Len(s) |-> R[i]]
  BY <1>1 DEF Rows
<1>3. \A i \in 1..Len(s) : R[i] \in Row
  BY <1>2 DEF Row
<1> HIDE DEF R
<1>4. R \in [1..Len(s) -> Row]
  BY <1>2, <1>3
<1>5. R \in Seq(Row)
  BY <1>1, <1>4, SeqDef
<1>6. Len(R) = Len(s)
  BY <1>1, <1>2, <1>5
<1>7. QED BY <1>2, <1>5, <1>6 DEF R

\* The rows of the running, the ready and the waiting tasks, one by one.
LEMMA AllRowsIs ==
  ASSUME ready \in Seq(Tasks), wait \in Seq(Tasks)
  PROVE  /\ AllRows \in Seq(Row) /\ Len(AllRows) = 1 + Len(ready) + Len(wait)
         /\ AllRows[1] = [task |-> Self, state |-> "RUN"]
         /\ \A i \in 1..Len(ready) :
              AllRows[1 + i] = [task |-> ready[i], state |-> "READY"]
         /\ \A i \in 1..Len(wait) :
              AllRows[1 + Len(ready) + i] = [task |-> wait[i], state |-> "WAIT"]
<1> DEFINE run == <<[task |-> Self, state |-> "RUN"]>>
           R == Rows(ready, "READY")
           W == Rows(wait, "WAIT")
           f == run \o R
<1>0. Len(ready) \in Nat /\ Len(wait) \in Nat
  OBVIOUS
<1>1. run \in Seq(Row) /\ Len(run) = 1 /\ run[1] = [task |-> Self, state |-> "RUN"]
  BY DEF Row
<1>2. /\ R \in Seq(Row) /\ Len(R) = Len(ready)
      /\ \A i \in 1..Len(ready) : R[i] = [task |-> ready[i], state |-> "READY"]
  BY RowsIs
<1>3. /\ W \in Seq(Row) /\ Len(W) = Len(wait)
      /\ \A i \in 1..Len(wait) : W[i] = [task |-> wait[i], state |-> "WAIT"]
  BY RowsIs
<1>4. AllRows = f \o W
  BY DEF AllRows
<1> HIDE DEF run, R, W
<1>5. /\ f \in Seq(Row) /\ Len(f) = Len(run) + Len(R)
      /\ \A j \in 1..(Len(run) + Len(R)) : f[j] =
           IF j <= Len(run) THEN run[j] ELSE R[j - Len(run)]
  BY ONLY <1>1, <1>2, ConcatProperties, SMTT(30) DEF f
<1> HIDE DEF f
<1>6. /\ f \o W \in Seq(Row) /\ Len(f \o W) = Len(f) + Len(W)
      /\ \A j \in 1..(Len(f) + Len(W)) : (f \o W)[j] =
           IF j <= Len(f) THEN f[j] ELSE W[j - Len(f)]
  <2>1. f \in Seq(Row) /\ W \in Seq(Row)
    BY <1>3, <1>5
  <2>2. QED BY ONLY <2>1, ConcatProperties
<1>7. /\ f[1] = run[1]
      /\ \A i \in 1..Len(ready) : f[1 + i] = R[i]
  <2>1. 1 \in 1..(Len(run) + Len(R)) /\ 1 <= Len(run)
    BY <1>0, <1>1, <1>2
  <2>2. ASSUME NEW i \in 1..Len(ready) PROVE f[1 + i] = R[i]
    <3>1. 1 + i \in 1..(Len(run) + Len(R)) /\ ~(1 + i <= Len(run)) /\ (1 + i) - Len(run) = i
      BY <1>0, <1>1, <1>2
    <3>2. QED BY <1>5, <3>1
  <2>3. QED BY <1>5, <2>1, <2>2
<1>8. Len(f) = 1 + Len(ready) /\ Len(AllRows) = 1 + Len(ready) + Len(wait)
  BY <1>1, <1>2, <1>3, <1>4, <1>5, <1>6
<1>9. /\ AllRows[1] = f[1]
      /\ \A i \in 1..Len(ready) : AllRows[1 + i] = f[1 + i]
  <2>1. 1 \in 1..(Len(f) + Len(W)) /\ 1 <= Len(f)
    BY <1>0, <1>3, <1>8
  <2>2. \A i \in 1..Len(ready) : 1 + i \in 1..(Len(f) + Len(W)) /\ 1 + i <= Len(f)
    BY <1>0, <1>3, <1>8
  <2>3. QED BY <1>4, <1>6, <2>1, <2>2
<1>10. ASSUME NEW i \in 1..Len(wait) PROVE AllRows[1 + Len(ready) + i] = W[i]
  <2>1. /\ 1 + Len(ready) + i \in 1..(Len(f) + Len(W)) /\ ~(1 + Len(ready) + i <= Len(f))
        /\ (1 + Len(ready) + i) - Len(f) = i
    BY <1>0, <1>3, <1>8
  <2>2. QED BY <1>4, <1>6, <2>1
<1>11. QED BY <1>1, <1>2, <1>3, <1>4, <1>6, <1>7, <1>8, <1>9, <1>10

-----------------------------------------------------------------------------
\* The invariant holds before main runs.
LEMMA InitInv == Init => IndInv
<1> SUFFICES ASSUME Init PROVE IndInv
  OBVIOUS
<1>1. PICK S \in SUBSET Tasks, W \in SUBSET Tasks :
        W \subseteq S /\ ready \in SetToSeqs(S \ W) /\ wait \in SetToSeqs(W)
  BY DEF Init
<1>2. ASSUME NEW T \in SUBSET Tasks, NEW s \in SetToSeqs(T)
      PROVE  s \in Seq(Tasks) /\ IsInjective(s) /\ ToSet(s) \subseteq T
  <2> DEFINE n == Cardinality(T)
  <2>1. n \in Nat
    BY TaskAssumption, FS_Subset, FS_CardinalityType DEF TaskAssumption
  <2>2. s \in [1..n -> T] /\ \A i, j \in 1..n : i # j => s[i] # s[j]
    BY DEF SetToSeqs
  <2> HIDE DEF n
  <2>3. s \in [1..n -> Tasks]
    BY <2>2
  <2>4. s \in Seq(Tasks)
    BY <2>1, <2>3, SeqDef
  <2>5. QED BY <2>2, <2>4 DEF IsInjective, ToSet
<1>3. /\ ready \in Seq(Tasks) /\ IsInjective(ready) /\ wait \in Seq(Tasks) /\ IsInjective(wait)
      /\ ToSet(ready) \cap ToSet(wait) = {}
  <2>1. /\ ready \in Seq(Tasks) /\ IsInjective(ready) /\ ToSet(ready) \subseteq S \ W
        /\ wait \in Seq(Tasks) /\ IsInjective(wait) /\ ToSet(wait) \subseteq W
    BY <1>1, <1>2
  <2>2. QED BY <2>1
<1>4. TypeOK
  <2>1. libraries \in 0..(MaxVisits + 1) /\ samples \in 0..MaxSamples
    BY DEF Init
  <2>2. rows \in Seq(Row) /\ Len(rows) = 0
    BY DEF Init
  <2>3. found \in BOOLEAN /\ truncated \in BOOLEAN /\ warned \in BOOLEAN
    BY DEF Init
  <2>4. count \in [Counted -> 0..MaxVisits]
    BY DEF Init
  <2>5. QED BY <1>3, <2>1, <2>2, <2>3, <2>4 DEF Init, TypeOK
<1>5. SamplesOK
  BY DEF Init, SamplesOK
<1>6. WalksLiveNodes /\ FoundOK /\ SoFarOK /\ WarnedOK
  BY DEF Init, WarnedOK, WalksLiveNodes, FoundOK, SoFarOK, PlaceOK, RowsOK, FinderOK,
         CounterOK, Walking
<1>7. QED BY <1>4, <1>5, <1>6 DEF IndInv

\* The command line, and the report of a sample.
LEMMA OutsideStep == ASSUME IndInv, StartTool \/ Report PROVE IndInv'
<1>0. /\ pc \in {"idle", "permit"} /\ pc' \in {"sample", "done"}
      /\ UNCHANGED <<lists, tool, target, walk, woken>>
  BY DEF StartTool, Report
<1>1. /\ rc' \in {Running, 0, 5, 10} /\ samples' \in 0..MaxSamples /\ seen' \in 0..MaxSamples
      /\ SamplesOK'
  <2>1. /\ rc = Running /\ samples \in Nat /\ seen \in Nat /\ samples > 0
        /\ seen + samples <= MaxSamples
    BY <1>0 DEF IndInv, TypeOK, SamplesOK
  <2>2. CASE StartTool
    BY <2>1, <2>2 DEF StartTool, SamplesOK
  <2>3. CASE Report
    <3>1. (seen' = seen \/ seen' = seen + 1) /\ samples' = samples - 1
      BY <2>3 DEF Report, Sampled
    <3>2. \/ samples' > 0 /\ pc' = "sample" /\ rc' = rc
          \/ pc' = "done" /\ rc' = ReturnCode
      BY <2>3 DEF Report
    <3>3. ReturnCode \in {0, 5}
      BY DEF ReturnCode
    <3>4. samples' \in 0..MaxSamples /\ seen' \in 0..MaxSamples /\ seen' + samples' <= MaxSamples
      BY <2>1, <3>1
    <3>5. QED BY <2>1, <3>2, <3>3, <3>4 DEF SamplesOK
  <2>4. QED BY <2>2, <2>3
<1>5. warned' \in BOOLEAN /\ WarnedOK'
  <2>1. warned \in BOOLEAN /\ rows \in Seq(Row)
    BY DEF IndInv, TypeOK
  <2>6. Len(rows) \in Nat /\ found \in BOOLEAN /\ truncated \in BOOLEAN
    BY <2>1 DEF IndInv, TypeOK
  <2>2. Warning \in BOOLEAN /\ (tool = "Tasks" => Warning \/ Len(rows) < MaxRows)
    <3>1. CASE tool = "Tasks"
      <4>1. Warning = (Len(rows) >= MaxRows)
        BY <3>1 DEF Warning
      <4>2. Len(rows) >= MaxRows \/ Len(rows) < MaxRows
        BY <2>6, Constants
      <4>3. Warning \in BOOLEAN
        BY ONLY <4>1
      <4>4. Warning \/ Len(rows) < MaxRows
        BY ONLY <4>1, <4>2
      <4>5. QED BY ONLY <4>3, <4>4
    <3>2. CASE tool # "Tasks"
      <4>1. Warning = (~found /\ truncated)
        BY <3>2 DEF Warning
      <4>2. QED BY <3>2, <4>1
    <3>3. QED BY <3>1, <3>2
  <2>3. CASE StartTool
    BY <1>0, <2>1, <2>3 DEF StartTool, WarnedOK, Finders
  <2>4. CASE Report
    <3>1. warned' = (warned \/ Warning) /\ rows' = rows /\ tool' = tool
      BY <2>4 DEF Report, Sampled, walk
    <3>2. QED BY <2>1, <2>2, <3>1 DEF WarnedOK
  <2>5. QED BY <2>3, <2>4
<1>2. TypeOK'
  BY <1>0, <1>1, <1>5 DEF IndInv, TypeOK, lists, walk
<1>3. WalksLiveNodes' /\ FoundOK' /\ SoFarOK'
  BY <1>0 DEF IndInv, WalksLiveNodes, FoundOK, SoFarOK, PlaceOK, RowsOK, FinderOK,
              CounterOK, Walking, lists, walk
<1>4. QED BY <1>1, <1>2, <1>3, <1>5 DEF IndInv

\* Forbid: the walk starts at the head of TaskReady, or is over at once.
LEMMA BeginStep == ASSUME IndInv, BeginWalk PROVE IndInv'
<1> DEFINE run == <<[task |-> Self, state |-> "RUN"]>>
<1>0. /\ pc = "sample" /\ woken' = {} /\ found' = (tool \in Finders /\ target = Self)
      /\ rows' = IF tool = "Tasks" THEN run ELSE <<>>
      /\ pc' = IF found' \/ Len(rows') >= MaxRows THEN "permit" ELSE "ready"
      /\ cursor' = Start /\ visits' = 0 /\ truncated' = FALSE
      /\ UNCHANGED <<lists, tool, target, count, samples, seen, rc, warned>>
  BY DEF BeginWalk
<1>1. found' <=> tool \in Finders /\ target = Self
  BY <1>0, Zenon
<1>2. found' \in BOOLEAN
  <2>1. found' = (tool \in Finders /\ target = Self)
    BY <1>0
  <2>2. QED BY ONLY <2>1
<1>3. run \in Seq(Row) /\ Len(run) = 1 /\ run[1] = [task |-> Self, state |-> "RUN"]
  BY DEF Row
<1> HIDE DEF run
<1>4. /\ rows' \in Seq(Row) /\ Len(rows') <= MaxRows
      /\ tool = "Tasks" => rows' = run
      /\ tool # "Tasks" => rows' = <<>> /\ Len(rows') = 0
  <2>1. CASE tool = "Tasks"
    BY <1>0, <1>3, <2>1
  <2>2. CASE tool # "Tasks"
    BY <1>0, <2>2
  <2>3. QED BY <2>1, <2>2
<1>5. TypeOK'
  <2>1. pc' \in {"permit", "ready"} /\ truncated' \in BOOLEAN
    BY <1>0
  <2>2. 0 \in 0..MaxVisits
    OBVIOUS
  <2>3. QED BY <1>0, <1>2, <1>4, <2>1, <2>2 DEF IndInv, TypeOK, lists
<1>6. SamplesOK'
  BY <1>0 DEF IndInv, SamplesOK
<1>7. WalksLiveNodes' /\ FoundOK'
  <2>1. "Tasks" \notin Finders
    BY DEF Finders
  <2>2. tool = "Tasks" /\ pc' = "ready" => Len(rows') < MaxRows
    BY <1>0, <1>3, <1>4
  <2>3. QED BY <1>0, <1>1, <1>4, <2>1, <2>2 DEF WalksLiveNodes, FoundOK, Walking, Live, lists
<1>8. SoFarOK'
  <2>0. ready \in Seq(Tasks) /\ wait \in Seq(Tasks) /\ Len(ready) \in Nat /\ Len(wait) \in Nat
    BY DEF IndInv, TypeOK
  <2>1. /\ Len(AllRows) >= 1 /\ AllRows[1] = run[1] /\ AllRows' = AllRows
    BY <1>0, <1>3, <2>0, AllRowsIs DEF AllRows, lists
  <2>2. pc' = "permit" => found' \/ (tool = "Tasks" /\ MaxRows = 1)
    <3>1. pc' = "permit" => found' \/ Len(rows') >= MaxRows
      BY <1>0
    <3>2. CASE tool = "Tasks"
      <4>1. Len(rows') = 1
        BY <1>3, <1>4, <3>2
      <4>2. QED BY <3>1, <3>2, <4>1
    <3>3. CASE tool # "Tasks"
      BY <1>4, <3>1, <3>3
    <3>4. QED BY <3>2, <3>3
  <2>3. pc' = "ready" => ListHere' = ready /\ 0 \in 0..Len(ready)
    BY <1>0, <2>0 DEF ListHere, lists
  <2>4. pc' = "ready" => Place(0)'
    <3>1. \A i \in 1..0 : FALSE
      OBVIOUS
    <3>2. QED BY <1>0, <1>3, <1>4, <3>1 DEF Place
  <2>5. pc' = "ready" => \E k \in 0..Len(ListHere') : Place(k)'
    BY <2>3, <2>4
  <2>6. tool = "Tasks" =>
          /\ Len(rows') <= Len(AllRows') /\ (pc' = "permit" => Len(rows') = MaxRows)
          /\ \A i \in 1..Len(rows') : rows'[i] = AllRows'[i]
    <3>1. tool = "Tasks" => rows' = run /\ ~found'
      BY <1>1, <1>4 DEF Finders
    <3>2. \A i \in 1..1 : i = 1
      OBVIOUS
    <3>3. QED BY <1>3, <2>1, <2>2, <3>1, <3>2
  <2>7. tool \in Finders /\ pc' = "ready" => target # Self
    BY <1>0, <1>1
  <2>8. tool \in Counters => pc' # "permit"
    BY <1>1, <2>2 DEF Counters, Finders
  <2>9. PlaceOK' /\ RowsOK' /\ FinderOK' /\ CounterOK'
    BY <1>0, <1>1, <2>2, <2>5, <2>6, <2>7, <2>8
       DEF PlaceOK, RowsOK, FinderOK, CounterOK, Walking, Finders
  <2>10. QED BY <2>9 DEF SoFarOK
<1>10. WarnedOK'
  BY <1>0 DEF WarnedOK
<1>9. QED BY <1>10, <1>5, <1>6, <1>7, <1>8 DEF IndInv

\* One node: an undisturbed walker has now seen one node more of its list.
LEMMA VisitStep == ASSUME IndInv, Visit PROVE IndInv'
<1> DEFINE n == NextNode
           row == [task |-> n, state |-> IF pc = "ready" THEN "READY" ELSE "WAIT"]
<1>0. /\ Walking /\ n # End /\ ~AtLimit /\ cursor' = n
      /\ visits' = IF tool = "Tasks" THEN 0 ELSE visits + 1
      /\ found' = (tool \in Finders /\ n = target)
      /\ rows' = IF tool = "Tasks" THEN Append(rows, row) ELSE rows
      /\ pc' = IF found' \/ Len(rows') >= MaxRows THEN "permit" ELSE pc
      /\ UNCHANGED <<lists, tool, target, truncated, count, samples, seen, rc, warned, woken>>
  BY DEF Visit, VisitNode, Walking
<1>1. found' <=> tool \in Finders /\ n = target
  BY <1>0, Zenon
<1>2. found' \in BOOLEAN
  <2>1. found' = (tool \in Finders /\ n = target)
    BY <1>0
  <2> HIDE DEF n
  <2>2. QED BY ONLY <2>1
<1>3. Live \subseteq Tasks /\ n \in Live /\ n \in Tasks
  BY <1>0, NextLive DEF IndInv
<1>4. row \in Row
  BY <1>3 DEF Row
<1>5. /\ rows \in Seq(Row) /\ Len(rows) \in Nat /\ Len(rows) <= MaxRows
      /\ tool = "Tasks" => Len(rows) < MaxRows
      /\ tool # "Tasks" => rows = <<>> /\ Len(rows) = 0
  BY <1>0 DEF IndInv, TypeOK, FoundOK
<1>6. /\ Append(rows, row) \in Seq(Row) /\ Len(Append(rows, row)) = Len(rows) + 1
      /\ \A i \in 1..Len(rows) : Append(rows, row)[i] = rows[i]
      /\ Append(rows, row)[Len(rows) + 1] = row
  <2> HIDE DEF row
  <2>1. QED BY ONLY <1>4, <1>5, AppendProperties
<1> HIDE DEF n, row
<1>7. /\ rows' \in Seq(Row) /\ Len(rows') \in Nat /\ Len(rows') <= MaxRows
      /\ tool = "Tasks" => rows' = Append(rows, row) /\ Len(rows') = Len(rows) + 1
      /\ tool # "Tasks" => rows' = <<>> /\ Len(rows') = 0
  <2>1. CASE tool = "Tasks"
    BY <1>0, <1>5, <1>6, <2>1
  <2>2. CASE tool # "Tasks"
    BY <1>0, <1>5, <2>2
  <2>3. QED BY <2>1, <2>2
<1>8. visits' \in 0..MaxVisits
  <2>1. visits \in 0..MaxVisits
    BY DEF IndInv, TypeOK
  <2>2. QED BY <1>0, <2>1 DEF AtLimit
<1>9. pc' \in {pc, "permit"} /\ (pc' = pc => ~found' /\ Len(rows') < MaxRows)
  <2>1. pc # "permit"
    BY <1>0 DEF Walking
  <2>2. ~(Len(rows') >= MaxRows) => Len(rows') < MaxRows
    BY <1>7
  <2>3. QED BY <1>0, <2>1, <2>2
<1>10. TypeOK'
  BY <1>0, <1>2, <1>3, <1>7, <1>8, <1>9 DEF IndInv, TypeOK, lists
<1>11. SamplesOK'
  BY <1>0, <1>9 DEF IndInv, SamplesOK, Walking
<1>12. WalksLiveNodes' /\ FoundOK'
  <2>1. Live' = Live
    BY <1>0 DEF Live, lists
  <2>2. pc' # "libraries"
    BY <1>0, <1>9 DEF Walking
  <2>3. QED BY <1>0, <1>1, <1>3, <1>7, <1>9, <2>1, <2>2
        DEF WalksLiveNodes, FoundOK, Walking
<1>13. ASSUME woken = {} PROVE SoFarOK'
  <2>0. TypeOK /\ SoFarOK /\ ready \in Seq(Tasks) /\ wait \in Seq(Tasks)
    BY <1>13 DEF IndInv, TypeOK
  <2>1. PICK k \in 0..Len(ListHere) : Place(k)
    BY <1>0, <2>0 DEF SoFarOK, PlaceOK
  <2>2. /\ ListHere \in Seq(Tasks) /\ Len(ListHere) \in Nat
        /\ ListHere = IF pc = "ready" THEN ready ELSE wait
    BY <2>0 DEF ListHere
  <2>3. n = IF k = Len(ListHere) THEN End ELSE ListHere[k + 1]
    BY <1>0, <2>0, <2>1, NextIs DEF Place, n
  <2>4. /\ k \in Nat /\ k + 1 \in 1..Len(ListHere) /\ n = ListHere[k + 1]
        /\ k + 1 \in 0..Len(ListHere) /\ k + 1 # 0
    BY <1>0, <2>2, <2>3
  <2>5. pc' = pc => \E j \in 0..Len(ListHere') : Place(j)'
    <3> SUFFICES ASSUME pc' = pc PROVE Place(k + 1)' /\ ListHere' = ListHere
      BY <2>4
    <3>1. ListHere' = ListHere /\ ready' = ready
      BY <1>0 DEF ListHere, lists
    <3>2. tool # "Tasks" => visits' = k + 1
      BY <1>0, <2>1 DEF Place
    <3>3. tool \in Finders => \A i \in 1..(k + 1) : ListHere[i] # target
      <4>1. \A i \in 1..(k + 1) : i \in 1..k \/ i = k + 1
        BY <2>4
      <4>2. tool \in Finders => n # target
        BY <1>1, <1>9
      <4>3. QED BY <2>1, <2>4, <4>1, <4>2 DEF Place
    <3>4. tool = "Tasks" => Len(rows') = 1 + (k + 1) + (IF pc = "wait" THEN Len(ready) ELSE 0)
      <4>1. Len(ready) \in Nat
        BY <2>0
      <4>2. CASE pc = "wait"
        BY <1>7, <2>1, <2>4, <4>1, <4>2, SMTT(30) DEF Place
      <4>3. CASE pc # "wait"
        BY <1>7, <2>1, <2>4, <4>3 DEF Place
      <4>4. QED BY <4>2, <4>3
    <3>5. QED BY <1>0, <2>4, <3>1, <3>2, <3>3, <3>4 DEF Place
  <2>6. AllRows' = AllRows
    BY <1>0 DEF AllRows, lists
  <2>7. ASSUME tool = "Tasks"
        PROVE  /\ Len(rows') <= Len(AllRows)
               /\ \A i \in 1..Len(rows') : rows'[i] = AllRows[i]
    <3>0. Len(ready) \in Nat /\ Len(wait) \in Nat
      BY <2>0
    <3>1. /\ Len(rows) = 1 + k + (IF pc = "wait" THEN Len(ready) ELSE 0)
          /\ \A i \in 1..Len(rows) : rows[i] = AllRows[i]
      BY <1>0, <2>0, <2>1, <2>7 DEF Place, SoFarOK, RowsOK, Walking
    <3>2. Len(AllRows) = 1 + Len(ready) + Len(wait)
      BY <2>0, AllRowsIs
    <3>3. AllRows[Len(rows) + 1] = row /\ Len(rows) + 1 <= Len(AllRows)
      <4>1. CASE pc = "ready"
        <5>1. k + 1 \in 1..Len(ready) /\ Len(rows) + 1 = 1 + (k + 1) /\ n = ready[k + 1]
          BY <2>2, <2>4, <3>1, <4>1
        <5>2. AllRows[1 + (k + 1)] = [task |-> ready[k + 1], state |-> "READY"]
          BY <2>0, <5>1, AllRowsIs
        <5>3. Len(rows) + 1 <= Len(AllRows)
          BY <2>4, <3>0, <3>2, <5>1
        <5>4. QED BY <4>1, <5>1, <5>2, <5>3 DEF row
      <4>2. CASE pc = "wait"
        <5>1. /\ k + 1 \in 1..Len(wait) /\ Len(rows) + 1 = 1 + Len(ready) + (k + 1)
              /\ n = wait[k + 1]
          BY <2>2, <2>4, <3>0, <3>1, <4>2
        <5>2. AllRows[1 + Len(ready) + (k + 1)] = [task |-> wait[k + 1], state |-> "WAIT"]
          BY <2>0, <5>1, AllRowsIs
        <5>3. Len(rows) + 1 <= Len(AllRows)
          BY <2>4, <3>0, <3>2, <5>1
        <5>4. QED BY <4>2, <5>1, <5>2, <5>3 DEF row
      <4>3. QED BY <1>0, <4>1, <4>2 DEF Walking
    <3>4. rows' = Append(rows, row) /\ Len(rows') = Len(rows) + 1
      BY <1>7, <2>7
    <3>5. \A i \in 1..(Len(rows) + 1) : i \in 1..Len(rows) \/ i = Len(rows) + 1
      BY <1>5
    <3>6. QED BY <1>6, <3>1, <3>3, <3>4, <3>5
  <2>8. pc' = "permit" => found' \/ (tool = "Tasks" /\ Len(rows') = MaxRows)
    <3>1. pc' = "permit" => found' \/ Len(rows') >= MaxRows
      BY <1>0 DEF Walking
    <3>2. Len(rows') >= MaxRows => tool = "Tasks" /\ Len(rows') = MaxRows
      BY <1>7
    <3>3. QED BY <3>1, <3>2
  <2>9. /\ "Tasks" \notin Finders /\ "Tasks" \notin Counters
        /\ \A x \in Counters : x \notin Finders
    BY DEF Finders, Counters
  <2>10. tool \in Counters => pc' = pc
    BY <1>1, <1>9, <2>8, <2>9
  <2>11. QED
    <3>1. /\ ready' = ready /\ wait' = wait /\ tool' = tool /\ target' = target
          /\ truncated' = truncated /\ count' = count /\ libraries' = libraries
      BY <1>0 DEF lists
    <3>2. Walking' => pc' = pc
      BY <1>9 DEF Walking
    <3>3. pc \in {"ready", "wait"} /\ pc' # "libraries"
      BY <1>0, <1>9 DEF Walking
    <3>4. tool \in Finders => (pc' = "permit" => found')
      BY <2>8, <2>9
    <3>5. PlaceOK'
      BY <2>5, <3>2 DEF PlaceOK
    <3>6. RowsOK'
      BY <1>1, <2>6, <2>7, <2>8, <2>9, <3>1 DEF RowsOK
    <3>7. FinderOK'
      BY <1>9, <2>0, <3>1, <3>3, <3>4 DEF SoFarOK, FinderOK
    <3>8. CounterOK'
      BY <1>9, <2>0, <2>10, <3>1, <3>3 DEF SoFarOK, CounterOK
    <3>9. QED BY <3>5, <3>6, <3>7, <3>8 DEF SoFarOK
<1>15. WarnedOK'
  BY <1>0 DEF WarnedOK, Walking
<1>14. QED BY <1>15, <1>0, <1>10, <1>11, <1>12, <1>13 DEF IndInv

\* A loop ended: an undisturbed walker has seen its whole list, or as much of it
\* as its limit allows, and then says so.
LEMMA EndStep == ASSUME IndInv, EndList PROVE IndInv'
<1> DEFINE left == NextNode # End
<1>0. /\ Walking /\ (~left \/ AtLimit)
      /\ truncated' = (truncated \/ left)
      /\ count' = [count EXCEPT ![pc] = visits]
      /\ cursor' = Start /\ visits' = 0
      /\ UNCHANGED <<lists, tool, target, found, rows, samples, seen, rc, warned, woken>>
  BY DEF EndList, LoopEnd, Walking
<1>1. /\ pc = "ready" => pc' = "wait"
      /\ pc = "wait" /\ tool \in Counters => pc' = "libraries"
      /\ pc = "wait" /\ tool \notin Counters => pc' = "permit"
  BY DEF EndList, LoopEnd
<1> HIDE DEF left
<1>2. pc \in {"ready", "wait"} /\ (truncated' <=> truncated \/ left)
  BY <1>0, Zenon DEF Walking
<1>3. truncated' \in BOOLEAN
  <2>1. truncated' = (truncated \/ left)
    BY <1>0
  <2>2. QED BY ONLY <2>1
<1>4. /\ ready' = ready /\ wait' = wait /\ libraries' = libraries /\ tool' = tool
      /\ target' = target /\ rows' = rows /\ found' = found /\ woken' = woken
  BY <1>0 DEF lists
<1>5. pc' \in {"wait", "libraries", "permit"}
  BY <1>1, <1>2
<1>6. /\ visits \in 0..MaxVisits /\ pc \in Counted
      /\ count' \in [Counted -> 0..MaxVisits] /\ count'[pc] = visits
      /\ \A l \in Counted : l # pc => count'[l] = count[l]
  <2>1. visits \in 0..MaxVisits /\ count \in [Counted -> 0..MaxVisits] /\ pc \in Counted
    BY <1>2 DEF IndInv, TypeOK, Counted
  <2>2. QED BY <1>0, <2>1
<1>7. TypeOK'
  <2>1. 0 \in 0..MaxVisits
    OBVIOUS
  <2>2. QED BY <1>0, <1>3, <1>4, <1>5, <1>6, <2>1 DEF IndInv, TypeOK
<1>8. SamplesOK'
  BY <1>0, <1>2, <1>5 DEF IndInv, SamplesOK
<1>9. WalksLiveNodes' /\ FoundOK'
  <2>1. ~found
    BY <1>0 DEF IndInv, FoundOK
  <2>2. QED BY <1>0, <1>1, <1>2, <1>4, <1>5, <2>1
        DEF IndInv, WalksLiveNodes, FoundOK, Walking
<1>10. ASSUME woken = {} PROVE SoFarOK'
  <2>0. TypeOK /\ SoFarOK /\ ready \in Seq(Tasks) /\ wait \in Seq(Tasks)
    BY <1>10 DEF IndInv, TypeOK
  <2>1. PICK k \in 0..Len(ListHere) : Place(k)
    BY <1>0, <2>0 DEF SoFarOK, PlaceOK
  <2>2. /\ ListHere \in Seq(Tasks) /\ Len(ListHere) \in Nat /\ k \in Nat /\ k <= Len(ListHere)
        /\ Len(ready) \in Nat /\ Len(wait) \in Nat
        /\ pc = "ready" => ListHere = ready
        /\ pc = "wait" => ListHere = wait
    BY <2>0 DEF ListHere
  <2>3. NextNode = IF k = Len(ListHere) THEN End ELSE ListHere[k + 1]
    BY <1>0, <2>0, <2>1, NextIs DEF Place
  <2>4. left <=> k # Len(ListHere)
    <3>1. k # Len(ListHere) => ListHere[k + 1] \in Tasks
      <4>1. k # Len(ListHere) => k + 1 \in 1..Len(ListHere)
        BY <2>2
      <4>2. QED BY <2>2, <4>1
    <3>2. QED BY <2>3, <3>1 DEF left
  <2>5. /\ tool # "Tasks" => visits = k
        /\ tool \in Finders => \A i \in 1..k : ListHere[i] # target
        /\ tool = "Tasks" => Len(rows) = 1 + k + (IF pc = "wait" THEN Len(ready) ELSE 0)
    BY <2>1 DEF Place
  <2>6. tool = "Tasks" => k = Len(ListHere)
    BY <1>0, <2>4 DEF AtLimit
  <2>7. ASSUME tool # "Tasks"
        PROVE  /\ left <=> Len(ListHere) > MaxVisits
               /\ visits = Min({Len(ListHere), MaxVisits})
    <3>1. visits = k /\ k <= MaxVisits
      BY <1>6, <2>5, <2>7
    <3>2. Min({Len(ListHere), MaxVisits}) =
            IF Len(ListHere) <= MaxVisits THEN Len(ListHere) ELSE MaxVisits
      BY <2>2, MinOfTwo
    <3>3. CASE left
      <4>1. k = MaxVisits
        BY <1>0, <3>1, <3>3 DEF AtLimit
      <4>2. Len(ListHere) > MaxVisits
        BY <2>2, <2>4, <3>3, <4>1
      <4>3. QED BY <2>2, <3>1, <3>2, <3>3, <4>1, <4>2
    <3>4. CASE ~left
      <4>1. k = Len(ListHere)
        BY <2>4, <3>4
      <4>2. ~(Len(ListHere) > MaxVisits) /\ Len(ListHere) <= MaxVisits
        BY <2>2, <3>1, <4>1
      <4>3. QED BY <3>1, <3>2, <3>4, <4>1, <4>2
    <3>5. QED BY <3>3, <3>4
  <2>8. tool \in Finders /\ ~left => target \notin ToSet(ListHere)
    <3>1. ~left => k = Len(ListHere)
      BY <2>4
    <3>2. DOMAIN ListHere = 1..Len(ListHere)
      BY <2>2
    <3>3. QED BY <2>5, <3>1, <3>2 DEF ToSet
  <2>9. /\ "Tasks" \notin Finders /\ "Tasks" \notin Counters
        /\ \A x \in Counters : x \notin Finders
    BY DEF Finders, Counters
  <2>10. AllRows' = AllRows /\ Len(AllRows) = 1 + Len(ready) + Len(wait)
    BY <1>4, <2>0, AllRowsIs DEF AllRows
  <2>11. PlaceOK'
    <3> SUFFICES ASSUME Walking' PROVE \E j \in 0..Len(ListHere') : Place(j)'
      BY DEF PlaceOK
    <3>1. pc = "ready" /\ pc' = "wait"
      BY <1>1, <1>2, <1>5 DEF Walking
    <3>2. ListHere' = wait /\ 0 \in 0..Len(wait)
      BY <1>4, <2>2, <3>1 DEF ListHere
    <3>3. tool = "Tasks" => Len(rows) = 1 + 0 + Len(ready)
      BY <2>2, <2>5, <2>6, <3>1
    <3>4. \A i \in 1..0 : FALSE
      OBVIOUS
    <3>5. Place(0)'
      BY <1>0, <1>4, <3>1, <3>3, <3>4 DEF Place
    <3>6. QED BY <3>2, <3>5
  <2>12. RowsOK'
    <3> SUFFICES ASSUME tool = "Tasks" PROVE RowsOK'
      BY <1>4 DEF RowsOK
    <3>1. /\ Len(rows) <= Len(AllRows)
          /\ \A i \in 1..Len(rows) : rows[i] = AllRows[i]
      BY <1>2, <2>0 DEF SoFarOK, RowsOK
    <3>2. pc' = "permit" => Len(rows) = Len(AllRows)
      <4>1. pc' = "permit" => pc = "wait"
        BY <1>1, <1>2
      <4>2. pc = "wait" => Len(rows) = 1 + Len(wait) + Len(ready)
        BY <2>2, <2>5, <2>6
      <4>3. QED BY <2>2, <2>10, <4>1, <4>2
    <3>3. QED BY <1>4, <2>10, <3>1, <3>2 DEF RowsOK
  <2>13. FinderOK'
    <3> SUFFICES ASSUME tool \in Finders PROVE FinderOK'
      BY <1>4 DEF FinderOK
    <3>1. /\ target # Self
          /\ pc = "wait" => (~truncated => target \notin ToSet(ready))
      BY <1>2, <2>0 DEF SoFarOK, FinderOK
    <3>2. ~truncated' => ~truncated /\ target \notin ToSet(ListHere)
      BY <1>2, <2>8
    <3>3. QED BY <1>1, <1>2, <1>4, <1>5, <2>2, <3>1, <3>2 DEF FinderOK, Live
  <2>14. CounterOK'
    <3> SUFFICES ASSUME tool \in Counters PROVE CounterOK'
      BY <1>4 DEF CounterOK
    <3>0. tool # "Tasks" /\ "ready" \in Counted /\ "wait" \in Counted
      BY <2>9 DEF Counted
    <3>1. CASE pc = "ready"
      <4>1. pc' = "wait" /\ ~truncated /\ ListHere = ready
        BY <1>1, <2>0, <2>2, <3>1 DEF SoFarOK, CounterOK
      <4>2. truncated' <=> Len(ready) > MaxVisits
        BY <1>2, <2>7, <3>0, <4>1
      <4>3. count'["ready"] = Min({Len(ready), MaxVisits})
        BY <1>6, <2>7, <3>0, <3>1, <4>1
      <4>4. QED BY <1>4, <4>1, <4>2, <4>3 DEF CounterOK
    <3>2. CASE pc = "wait"
      <4>1. /\ pc' = "libraries" /\ ListHere = wait
            /\ truncated <=> Len(ready) > MaxVisits
            /\ count["ready"] = Min({Len(ready), MaxVisits})
        BY <1>1, <2>0, <2>2, <3>2 DEF SoFarOK, CounterOK
      <4>2. truncated' <=> Len(ready) > MaxVisits \/ Len(wait) > MaxVisits
        BY <1>2, <2>7, <3>0, <4>1
      <4>3. /\ count'["ready"] = Min({Len(ready), MaxVisits})
            /\ count'["wait"] = Min({Len(wait), MaxVisits})
        BY <1>6, <2>7, <3>0, <3>2, <4>1
      <4>4. QED BY <1>4, <4>1, <4>2, <4>3 DEF CounterOK
    <3>3. QED BY <1>2, <3>1, <3>2
  <2>15. QED BY <2>11, <2>12, <2>13, <2>14 DEF SoFarOK
<1>12. WarnedOK'
  BY <1>1, <1>2 DEF WarnedOK
<1>11. QED BY <1>12, <1>4, <1>7, <1>8, <1>9, <1>10 DEF IndInv

\* The lists no interrupt touches: the counts and the flag are now exact.
LEMMA LibrariesStep == ASSUME IndInv, CountLibraries PROVE IndInv'
<1> DEFINE over == libraries > MaxVisits
<1>0. /\ pc = "libraries" /\ pc' = "permit"
      /\ count' = [count EXCEPT !["libraries"] = Min({libraries, MaxVisits})]
      /\ truncated' = (truncated \/ over)
      /\ UNCHANGED <<lists, tool, target, cursor, visits, found, rows, samples, seen, rc,
                     warned, woken>>
  BY DEF CountLibraries
<1>1. /\ ready' = ready /\ wait' = wait /\ libraries' = libraries /\ tool' = tool
      /\ target' = target /\ rows' = rows /\ found' = found /\ woken' = woken
  BY <1>0 DEF lists
<1>2. truncated' \in BOOLEAN /\ (truncated' <=> truncated \/ over)
  <2>1. truncated' = (truncated \/ over)
    BY <1>0
  <2> HIDE DEF over
  <2>2. truncated' \in BOOLEAN
    BY ONLY <2>1
  <2>3. truncated' <=> truncated \/ over
    BY <2>1, Zenon
  <2>4. QED BY <2>2, <2>3
<1>3. libraries \in Nat /\ Len(ready) \in Nat /\ Len(wait) \in Nat
  BY DEF IndInv, TypeOK
<1>4. /\ count' \in [Counted -> 0..MaxVisits]
      /\ count'["libraries"] = Min({libraries, MaxVisits})
      /\ count'["ready"] = count["ready"] /\ count'["wait"] = count["wait"]
  <2>1. Min({libraries, MaxVisits}) \in 0..MaxVisits
    BY <1>3, MinOfTwo
  <2>2. /\ count \in [Counted -> 0..MaxVisits]
        /\ "ready" \in Counted /\ "wait" \in Counted /\ "libraries" \in Counted
    BY DEF IndInv, TypeOK, Counted
  <2>3. QED BY <1>0, <2>1, <2>2
<1>5. ~found /\ tool \in Counters /\ tool # "Tasks" /\ tool \notin Finders
  BY <1>0 DEF IndInv, FoundOK, Counters, Finders
<1>6. TypeOK'
  BY <1>0, <1>1, <1>2, <1>4 DEF IndInv, TypeOK
<1>7. SamplesOK' /\ WalksLiveNodes' /\ FoundOK'
  BY <1>0, <1>1, <1>5 DEF IndInv, SamplesOK, WalksLiveNodes, FoundOK, Walking
<1>8. ASSUME woken = {} PROVE SoFarOK'
  <2>1. /\ truncated <=> Len(ready) > MaxVisits \/ Len(wait) > MaxVisits
        /\ count["ready"] = Min({Len(ready), MaxVisits})
        /\ count["wait"] = Min({Len(wait), MaxVisits})
    BY <1>0, <1>5, <1>8 DEF IndInv, SoFarOK, CounterOK
  <2> DEFINE most == Max({Len(ready), Len(wait), libraries})
  <2>2. most \in {Len(ready), Len(wait), libraries}
        /\ \A n \in {Len(ready), Len(wait), libraries} : n <= most
    BY <1>3, MaxOfThree
  <2> HIDE DEF most
  <2>3. most > MaxVisits <=> Len(ready) > MaxVisits \/ Len(wait) > MaxVisits \/ over
    BY <1>3, <2>2
  <2>4. truncated' <=> most > MaxVisits
    BY <1>2, <2>1, <2>3
  <2>5. truncated' = (most > MaxVisits)
    BY ONLY <1>2, <2>4
  <2>6. CountsExact'
    BY <1>1, <1>4, <2>1, <2>5 DEF CountsExact, most
  <2>7. QED BY <1>0, <1>1, <1>5, <2>6 DEF SoFarOK, PlaceOK, RowsOK, FinderOK, CounterOK, Walking
<1>10. WarnedOK'
  BY <1>0 DEF WarnedOK
<1>9. QED BY <1>10, <1>1, <1>6, <1>7, <1>8 DEF IndInv

\* A step of the rest of the system: it leaves the tool alone, and during a walk
\* it only moves tasks that exist, and is remembered.
LEMMA ListsStep ==
  ASSUME IndInv, ready' \in Seq(Tasks), wait' \in Seq(Tasks), IsInjective(ready'),
         IsInjective(wait'), ToSet(ready') \cap ToSet(wait') = {}, woken' \subseteq Tasks,
         UNCHANGED <<libraries, pc, tool, target, walk, samples, seen, rc, warned>>,
         Forbidden => Live' = Live /\ woken' # {}
  PROVE  IndInv'
<1>1. TypeOK' /\ SamplesOK' /\ WarnedOK'
  BY DEF IndInv, TypeOK, SamplesOK, WarnedOK, walk
<1>2. WalksLiveNodes' /\ FoundOK'
  BY DEF IndInv, WalksLiveNodes, FoundOK, Walking, Forbidden, walk
<1>3. woken' = {} => SoFarOK'
  <2>1. woken' = {} => pc' = pc /\ pc \notin {"ready", "wait", "libraries", "permit"}
    BY DEF Forbidden
  <2>2. QED BY <2>1 DEF SoFarOK, PlaceOK, RowsOK, FinderOK, CounterOK, Walking
<1>4. QED BY <1>1, <1>2, <1>3 DEF IndInv

\* An interrupt signals a waiting task, whether or not a walk is on its way.
LEMMA WakeStep == ASSUME IndInv, NEW t \in Tasks, Wake(t) PROVE IndInv'
<1>0. /\ ready \in Seq(Tasks) /\ wait \in Seq(Tasks) /\ IsInjective(ready) /\ IsInjective(wait)
      /\ ToSet(ready) \cap ToSet(wait) = {} /\ woken \subseteq Tasks
  BY DEF IndInv, TypeOK
<1>1. t \in ToSet(wait) /\ t \notin ToSet(ready)
  <2>1. t \in ToSet(wait)
    BY <1>0 DEF Wake, Contains, ToSet
  <2>2. QED BY <1>0, <2>1
<1>2. /\ wait' \in Seq(Tasks) /\ IsInjective(wait') /\ ToSet(wait') = ToSet(wait) \ {t}
  BY <1>0, RemoveFirstIs DEF Wake
<1>3. /\ ready' \in Seq(Tasks) /\ IsInjective(ready') /\ ToSet(ready') = ToSet(ready) \cup {t}
  BY <1>0, <1>1, EnqueueIs DEF Wake
<1>4. ToSet(ready') \cap ToSet(wait') = {} /\ Live' = Live
  BY <1>0, <1>1, <1>2, <1>3 DEF Live
<1>5. woken' \subseteq Tasks /\ (Forbidden => woken' # {})
  BY <1>0 DEF Wake
<1>6. UNCHANGED <<libraries, pc, tool, target, walk, samples, seen, rc, warned>>
  BY DEF Wake
<1>7. QED BY <1>2, <1>3, <1>4, <1>5, <1>6, ListsStep

\* Other tasks run, come and go outside a walk only.
LEMMA OthersStep ==
  ASSUME IndInv, NEW t \in Tasks, Block(t) \/ AddTask(t) \/ RemTask(t)
  PROVE  IndInv'
<1>0. /\ ready \in Seq(Tasks) /\ wait \in Seq(Tasks) /\ IsInjective(ready) /\ IsInjective(wait)
      /\ ToSet(ready) \cap ToSet(wait) = {} /\ woken \subseteq Tasks
  BY DEF IndInv, TypeOK
<1>1. /\ ~Forbidden
      /\ UNCHANGED <<libraries, pc, tool, target, walk, samples, seen, rc, warned, woken>>
  BY DEF Block, AddTask, RemTask, OthersRun
<1>2. /\ ready' \in Seq(Tasks) /\ wait' \in Seq(Tasks) /\ IsInjective(ready')
      /\ IsInjective(wait') /\ ToSet(ready') \cap ToSet(wait') = {}
  <2>1. CASE Block(t)
    <3>1. t \in ToSet(ready) /\ t \notin ToSet(wait)
      <4>1. t \in ToSet(ready)
        BY <1>0, <2>1 DEF Block, Contains, ToSet
      <4>2. QED BY <1>0, <4>1
    <3>2. /\ ready' \in Seq(Tasks) /\ IsInjective(ready')
          /\ ToSet(ready') = ToSet(ready) \ {t}
      BY <1>0, <2>1, RemoveFirstIs DEF Block
    <3>3. /\ Append(wait, t) \in Seq(Tasks) /\ Len(Append(wait, t)) = Len(wait) + 1
          /\ \A i \in 1..Len(wait) : Append(wait, t)[i] = wait[i]
          /\ Append(wait, t)[Len(wait) + 1] = t
      BY ONLY <1>0, t \in Tasks, AppendProperties
    <3>4. /\ wait' = Append(wait, t) /\ Len(wait) \in Nat /\ DOMAIN wait = 1..Len(wait)
          /\ DOMAIN wait' = 1..(Len(wait) + 1)
      BY <1>0, <2>1, <3>3 DEF Block
    <3>5. \A i \in 1..(Len(wait) + 1) : i \in 1..Len(wait) \/ i = Len(wait) + 1
      BY <3>4
    <3>6. \A i \in 1..Len(wait) : wait[i] # t
      BY <3>1, <3>4 DEF ToSet
    <3>7. IsInjective(wait')
      BY <1>0, <3>3, <3>4, <3>5, <3>6 DEF IsInjective
    <3>8. ToSet(wait') \subseteq ToSet(wait) \cup {t}
      BY <3>3, <3>4, <3>5 DEF ToSet
    <3>9. QED BY <1>0, <3>2, <3>3, <3>4, <3>7, <3>8
  <2>2. CASE AddTask(t)
    <3>1. t \notin ToSet(ready) /\ t \notin ToSet(wait) /\ wait' = wait
      BY <2>2 DEF AddTask, Live
    <3>2. /\ ready' \in Seq(Tasks) /\ IsInjective(ready')
          /\ ToSet(ready') = ToSet(ready) \cup {t}
      BY <1>0, <2>2, <3>1, EnqueueIs DEF AddTask
    <3>3. QED BY <1>0, <3>1, <3>2
  <2>3. CASE RemTask(t)
    <3>1. /\ ready' \in Seq(Tasks) /\ IsInjective(ready')
          /\ ToSet(ready') = ToSet(ready) \ {t}
      BY <1>0, <2>3, RemoveFirstIs DEF RemTask
    <3>2. /\ wait' \in Seq(Tasks) /\ IsInjective(wait')
          /\ ToSet(wait') = ToSet(wait) \ {t}
      BY <1>0, <2>3, RemoveFirstIs DEF RemTask
    <3>3. QED BY <1>0, <3>1, <3>2
  <2>4. QED BY <2>1, <2>2, <2>3
<1>3. woken' \subseteq Tasks
  BY <1>0, <1>1
<1>4. QED BY <1>1, <1>2, <1>3, ListsStep

\* Every step of the tool, of an interrupt and of another task keeps it.
LEMMA NextInv == IndInv /\ [Next]_vars => IndInv'
<1> SUFFICES ASSUME IndInv, [Next]_vars PROVE IndInv'
  OBVIOUS
<1>1. CASE StartTool \/ Report
  BY <1>1, OutsideStep
<1>2. CASE BeginWalk
  BY <1>2, BeginStep
<1>3. CASE Visit
  BY <1>3, VisitStep
<1>4. CASE EndList
  BY <1>4, EndStep
<1>5. CASE CountLibraries
  BY <1>5, LibrariesStep
<1>6. ASSUME NEW t \in Tasks, Wake(t) PROVE IndInv'
  BY <1>6, WakeStep
<1>7. ASSUME NEW t \in Tasks, Block(t) \/ AddTask(t) \/ RemTask(t) PROVE IndInv'
  BY <1>7, OthersStep
<1>8. CASE UNCHANGED vars
  <2>1. /\ UNCHANGED <<ready, wait, libraries, pc, tool, target, cursor, visits, found>>
        /\ UNCHANGED <<truncated, rows, count, samples, seen, rc, warned, woken>>
    BY <1>8 DEF vars, lists, walk
  <2>2. TypeOK' /\ SamplesOK' /\ WarnedOK' /\ WalksLiveNodes' /\ FoundOK'
    BY <2>1 DEF IndInv, TypeOK, SamplesOK, WarnedOK, WalksLiveNodes, FoundOK, Walking, Live
  <2>3. ListHere' = ListHere /\ AllRows' = AllRows /\ Live' = Live /\ (CountsExact' <=> CountsExact)
    BY <2>1 DEF ListHere, AllRows, Live, CountsExact
  <2>4. \A k : Place(k)' <=> Place(k)
    BY <2>1, <2>3 DEF Place
  <2>5. SoFarOK => SoFarOK'
    BY <2>1, <2>3, <2>4 DEF SoFarOK, PlaceOK, RowsOK, FinderOK, CounterOK, Walking
  <2>6. QED BY <2>1, <2>2, <2>5 DEF IndInv
<1>9. QED BY <1>1, <1>2, <1>3, <1>4, <1>5, <1>6, <1>7, <1>8 DEF Next, Tool, System

\* The inductive invariant of the task list walkers.
THEOREM Invariance == Spec => []IndInv
<1>1. QED BY InitInv, NextInv, PTL DEF Spec

\* Both lists hold every task at most once, the cursor is a task or the header,
\* no walk of a bounded tool goes beyond its limit, and Tasks never writes beyond
\* its row table.
THEOREM TypeCorrect == Spec => []TypeOK
<1>1. IndInv => TypeOK
  BY DEF IndInv
<1>2. QED BY <1>1, Invariance, PTL

\* Wherever interrupts move the nodes of TaskReady and TaskWait, a walker under
\* Forbid stands on a task that exists.
THEOREM LiveNodes == Spec => []WalksLiveNodes
<1>1. IndInv => WalksLiveNodes
  BY DEF IndInv
<1>2. QED BY <1>1, Invariance, PTL

\* WatchTask and TaskInfo find only a task that exists; without an interrupt
\* during the walk they miss one only when they report that they hit the limit.
THEOREM FindersAreSound == Spec => []FindersSound
<1>1. IndInv => FindersSound
  BY DEF IndInv, FindersSound, FoundOK, SoFarOK, FinderOK
<1>2. QED BY <1>1, Invariance, PTL

\* Without an interrupt during the walk, Tasks lists exactly the tasks up to its
\* row limit, and Snapshot and ExecInfo count every list exactly up to theirs.
THEOREM ReportsAreExact == Spec => []ReportsExact
<1>1. IndInv => ReportsExact
  <2> SUFFICES ASSUME IndInv, pc = "permit", woken = {}
               PROVE  /\ tool = "Tasks" => RowsExact /\ (Warning \/ rows = AllRows)
                      /\ tool \in Counters => CountsExact
    BY DEF ReportsExact, IndInv, WarnedOK
  <2>1. tool \in Counters => CountsExact
    BY DEF IndInv, SoFarOK, CounterOK
  <2>2. ASSUME tool = "Tasks" PROVE RowsExact /\ (Warning \/ rows = AllRows)
    <3>1. /\ ready \in Seq(Tasks) /\ wait \in Seq(Tasks) /\ rows \in Seq(Row)
          /\ Len(rows) <= MaxRows
      BY DEF IndInv, TypeOK
    <3>2. /\ Len(rows) <= Len(AllRows) /\ \A i \in 1..Len(rows) : rows[i] = AllRows[i]
          /\ Len(rows) = MaxRows \/ Len(rows) = Len(AllRows)
      BY <2>2 DEF IndInv, SoFarOK, RowsOK
    <3>3. AllRows \in Seq(Row) /\ Len(AllRows) \in Nat /\ Len(rows) \in Nat
      BY <3>1, AllRowsIs
    <3>4. Min({Len(AllRows), MaxRows}) = Len(rows)
      BY <3>1, <3>2, <3>3, MinOfTwo, SMTT(30)
    <3> DEFINE part == SubSeq(AllRows, 1, Len(rows))
    <3>5. /\ part \in Seq(Row) /\ Len(part) = Len(rows)
          /\ \A i \in 1..Len(rows) : part[i] = AllRows[i]
      <4> HIDE DEF AllRows
      <4>1. QED BY <3>2, <3>3, SubSeqProperties
    <3> HIDE DEF part
    <3>6. rows = part
      BY <3>1, <3>2, <3>5, SeqEqual
    <3>7. RowsExact
      BY <3>4, <3>6 DEF RowsExact, part
    <3>8. Warning \/ rows = AllRows
      <4>1. CASE Len(rows) = Len(AllRows)
        <5> HIDE DEF AllRows
        <5>1. QED BY <3>1, <3>2, <3>3, <4>1, SeqEqual
      <4>2. CASE Len(rows) = MaxRows
        BY <2>2, <4>2, Constants DEF Warning
      <4>3. QED BY <3>2, <4>1, <4>2
    <3>9. QED BY <3>7, <3>8
  <2>3. QED BY <2>1, <2>2
<1>2. QED BY <1>1, Invariance, PTL
=============================================================================
