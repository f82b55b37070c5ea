--------------------------- MODULE ReadingsProofs ---------------------------
(***************************************************************************)
(* Proofs about the tools whose answer is put together from several calls, *)
(* between which others act: Env (the lock of an assign, then the file),   *)
(* the memory figures (six AvailMem calls), Timer and Bench (two           *)
(* DateStamps).  Each is a program of its own; they are in one module      *)
(* because they have the variables of Program in common.                   *)
(***************************************************************************)
EXTENDS EnvLookup, MemInfo, Stopwatch,
        SequenceTheorems, FiniteSetTheorems, WellFoundedInduction, TLAPS

\* A set of naturals that is not empty has a smallest element.
LEMMA LeastNat ==
  ASSUME NEW T, T \subseteq Nat, T # {}
  PROVE  \E m \in T : \A n \in T : m <= n
<1>1. PICK m \in T : \A n \in T : ~(<<n, m>> \in OpToRel(<, Nat))
  BY NatLessThanWellFounded, WFMin
<1>2. \A n \in T : ~(n < m)
  BY <1>1 DEF OpToRel
<1>3. QED BY <1>2

-----------------------------------------------------------------------------
(***************************************************************************)
(* Env, for lists, variables and buffers of any size and any number of     *)
(* changes to the assigns.  EnvInv says for every step of main where the   *)
(* borrowed lock came from and what the open file holds.                   *)
(***************************************************************************)
\* The library is open only for the search.
LibOK == lib <=> pc = "find"

\* The current directory is another one only between the two CurrentDir calls.
DirOK == cwd = IF pc = "openVar" THEN lock ELSE Home

\* A lock that was found is that of an ENV: entry within the visit limit.
LockOK ==
  /\ pc \in {"args", "open"} => snap = <<>>
  /\ pc \in {"args", "open", "find"} => lock = NoLock
  /\ pc \in {"enter", "openVar", "read"} => lock # NoLock
  /\ lock # NoLock => \E i \in DOMAIN snap : snap[i].env /\ snap[i].lock = lock
  /\ pc = "done" /\ rc = 0 => lock # NoLock

\* The open file is the variable's, unless a freed lock has been used.
FileOK ==
  /\ \A l \in Locks : files[l].there \/ files[l] = None
  /\ pc # "read" => fh = None
  /\ pc = "read" /\ ~stale => fh = files[lock]

EnvInv == EnvTypeOK /\ LibOK /\ DirOK /\ LockOK /\ FileOK /\ ValueIsFirstLine

-----------------------------------------------------------------------------
USE EnvAssumption DEF EnvAssumption

\* A set of naturals that is not empty has a smallest element, which Min is.
LEMMA MinIsLeast ==
  ASSUME NEW S, S \subseteq Nat, S # {}
  PROVE  Min(S) \in S /\ \A n \in S : Min(S) <= n
<1>1. PICK m \in S : \A n \in S : m <= n
  BY LeastNat
<1>2. QED BY <1>1 DEF Min

Chars == {"a", "nl"}

\* FirstLine is the part before the first line end.
LEMMA FirstLineIs ==
  ASSUME NEW s \in Seq(Chars)
  PROVE  /\ FirstLine(s) \in Seq({"a"})
         /\ Len(FirstLine(s)) <= Len(s)
         /\ \A i \in 1..Len(FirstLine(s)) : FirstLine(s)[i] = s[i]
         /\ Len(FirstLine(s)) < Len(s) => s[Len(FirstLine(s)) + 1] = "nl"
<1> DEFINE ends == {i \in DOMAIN s : s[i] = "nl"}
<1>1. CASE ends = {}
  <2>1. FirstLine(s) = s
    BY <1>1 DEF FirstLine
  <2>2. \A i \in 1..Len(s) : s[i] = "a"
    BY <1>1 DEF Chars
  <2>3. QED BY <2>1, <2>2
<1>2. CASE ends # {}
  <2>1. Min(ends) \in ends /\ \A i \in ends : Min(ends) <= i
    <3>1. ends \subseteq Nat
      OBVIOUS
    <3> HIDE DEF ends
    <3>2. QED BY <1>2, <3>1, MinIsLeast
  <2>2. PICK m \in ends : m = Min(ends)
    BY <2>1
  <2>3. m \in 1..Len(s) /\ s[m] = "nl"
    OBVIOUS
  <2>4. ASSUME NEW i \in 1..(m - 1) PROVE s[i] = "a"
    <3>1. i \in DOMAIN s /\ ~(m <= i)
      BY <2>3
    <3>2. i \notin ends
      BY <2>1, <2>2, <3>1
    <3>3. QED BY <3>1, <3>2 DEF Chars
  <2>5. FirstLine(s) = SubSeq(s, 1, m - 1)
    BY <1>2, <2>2 DEF FirstLine
  <2>6. /\ SubSeq(s, 1, m - 1) \in Seq({"a"})
        /\ Len(SubSeq(s, 1, m - 1)) = m - 1
        /\ \A i \in 1..(m - 1) : SubSeq(s, 1, m - 1)[i] = s[i]
    BY <2>3, <2>4, SubSeqProperties
  <2>7. QED BY <2>3, <2>5, <2>6
<1>3. QED BY <1>1, <1>2

\* What RemoveAt leaves: the entries before the place, and those behind it.
LEMMA RemoveAtIs ==
  ASSUME NEW S, NEW s \in Seq(S), NEW i \in DOMAIN s
  PROVE  /\ RemoveAt(s, i) \in Seq(S)
         /\ Len(RemoveAt(s, i)) = Len(s) - 1
         /\ \A j \in 1..(Len(s) - 1) :
              RemoveAt(s, i)[j] = s[IF j < i THEN j ELSE j + 1]
<1> DEFINE front == SubSeq(s, 1, i - 1)
           back == SubSeq(s, i + 1, Len(s))
<1>0. Len(s) \in Nat /\ i \in 1..Len(s)
  OBVIOUS
<1>1. /\ front \in Seq(S) /\ Len(front) = i - 1
      /\ \A j \in 1..(i - 1) : front[j] = s[j]
  BY SubSeqProperties
<1>2. /\ back \in Seq(S) /\ Len(back) = Len(s) - i
      /\ \A j \in 1..(Len(s) - i) : back[j] = s[i + j]
  BY SubSeqProperties
<1> HIDE DEF front, back
<1>3. /\ front \o back \in Seq(S) /\ Len(front \o back) = Len(s) - 1
      /\ \A j \in 1..(Len(s) - 1) : (front \o back)[j] =
           IF j <= i - 1 THEN front[j] ELSE back[j - (i - 1)]
  <2>1. Len(front) + Len(back) = Len(s) - 1
    BY <1>0, <1>1, <1>2
  <2>2. /\ front \o back \in Seq(S) /\ Len(front \o back) = Len(front) + Len(back)
        /\ \A j \in 1..(Len(front) + Len(back)) : (front \o back)[j] =
             IF j <= Len(front) THEN front[j] ELSE back[j - Len(front)]
    BY ONLY <1>1, <1>2, ConcatProperties
  <2>3. QED BY <1>1, <2>1, <2>2
<1>4. RemoveAt(s, i) = front \o back
  BY DEF RemoveAt, front, back
<1>5. ASSUME NEW j \in 1..(Len(s) - 1)
      PROVE  (front \o back)[j] = s[IF j < i THEN j ELSE j + 1]
  <2>1. CASE j < i
    BY <1>0, <1>1, <1>3, <2>1
  <2>2. CASE ~(j < i)
    <3>1. /\ j - (i - 1) \in 1..(Len(s) - i) /\ ~(j <= i - 1)
          /\ i + (j - (i - 1)) = j + 1
      BY <1>0, <2>2
    <3>2. (front \o back)[j] = back[j - (i - 1)]
      BY <1>3, <3>1
    <3>3. back[j - (i - 1)] = s[i + (j - (i - 1))]
      BY <1>2, <3>1
    <3>4. QED BY <2>2, <3>1, <3>2, <3>3
  <2>3. QED BY <2>1, <2>2
<1>6. QED BY <1>3, <1>4, <1>5

\* A bounded text is a sequence of characters.
LEMMA FileText == ASSUME NEW f \in File PROVE f.there \in BOOLEAN /\ f.text \in Seq(Chars)
BY DEF File, BoundedSeq, SeqOf, Chars

LEMMA NoneIsFile == None \in File /\ ~None.there
<1>1. <<>> \in [1..0 -> {"a", "nl"}]
  OBVIOUS
<1>2. QED BY <1>1 DEF None, File, BoundedSeq, SeqOf

-----------------------------------------------------------------------------
\* The invariant holds before main runs.
LEMMA EnvInitInv == EnvInit => EnvInv
<1> SUFFICES ASSUME EnvInit PROVE EnvInv
  OBVIOUS
<1>1. entries \in Seq(Entries)
  BY DEF EnvInit, BoundedSeq, SeqOf
<1>2. files \in [Locks -> File] /\ fh \in File
  BY NoneIsFile DEF EnvInit
<1>3. EnvTypeOK
  <2>1. value \in Seq({"a"}) /\ Len(value) <= ValueLen - 1 /\ snap \in Seq(Entries)
    BY DEF EnvInit
  <2>2. OwnLocks(entries) /\ freed \subseteq Locks
    BY DEF EnvInit
  <2>3. lib \in BOOLEAN /\ stale \in BOOLEAN
    BY DEF EnvInit
  <2>4. QED BY <1>1, <1>2, <2>1, <2>2, <2>3 DEF EnvInit, EnvTypeOK, Running
<1>4. QED
  BY <1>3 DEF EnvInit, EnvInv, LibOK, DirOK, LockOK, FileOK, ValueIsFirstLine

\* The command line, the opening of dos.library, and its root node missing.
LEMMA ArgsStep == ASSUME EnvInv, EnvArgs \/ OpenDos \/ MissingRoot PROVE EnvInv'
<1> USE DEF EnvInv, EnvArgs, OpenDos, MissingRoot, Goto, Return, world
<1>1. EnvTypeOK'
  BY DEF EnvTypeOK, Running
<1>2. LibOK' /\ DirOK' /\ FileOK'
  BY DEF EnvTypeOK, LibOK, DirOK, FileOK
<1>3. LockOK' /\ ValueIsFirstLine'
  BY DEF EnvTypeOK, LockOK, IsEnv, ValueIsFirstLine
<1>4. QED BY <1>1, <1>2, <1>3

\* The search under Forbid: Min is the first entry of those looked for.
LEMMA SearchStep == ASSUME EnvInv, FindEnvLock PROVE EnvInv'
<1> DEFINE visited == {i \in DOMAIN entries : i <= MaxDosEntries /\ IsEnv(entries[i])}
<1>0. entries \in Seq(Entries)
  BY DEF EnvInv, EnvTypeOK
<1>1. visited # {} => Min(visited) \in visited
  <2>1. visited \subseteq Nat
    BY <1>0
  <2> HIDE DEF visited
  <2>2. QED BY <2>1, MinIsLeast
<1>2. /\ pc = "find" /\ snap' = entries /\ lib' = FALSE
      /\ lock' = IF visited = {} THEN NoLock ELSE entries[Min(visited)].lock
      /\ IF lock' = NoLock THEN Return(5) ELSE Goto("enter")
      /\ UNCHANGED <<world, tool, cwd, fh, value, stale>>
  BY DEF FindEnvLock
<1>3. CASE visited = {}
  <2>1. lock' = NoLock /\ pc' = "done" /\ rc' = 5
    BY <1>2, <1>3 DEF Return
  <2>3. EnvTypeOK'
    BY <1>0, <1>2, <2>1 DEF EnvInv, EnvTypeOK, world
  <2>4. QED
    BY <1>2, <2>1, <2>3
       DEF EnvInv, LibOK, DirOK, LockOK, FileOK, ValueIsFirstLine, world, IsEnv
<1>4. CASE visited # {}
  <2>1. PICK i \in DOMAIN entries : i = Min(visited) /\ IsEnv(entries[i])
    BY <1>1, <1>4
  <2>0. entries[i] \in Entries
    BY <1>0
  <2>2. lock' = entries[i].lock /\ lock' \in Locks /\ snap'[i].env /\ lock' # NoLock
    BY <1>2, <1>4, <2>0, <2>1 DEF IsEnv, Entries
  <2>3. pc' = "enter" /\ rc' = rc
    BY <1>2, <2>2 DEF Goto
  <2>4. EnvTypeOK'
    BY <1>0, <1>2, <2>2, <2>3 DEF EnvInv, EnvTypeOK, world
  <2>5. QED
    BY <1>2, <2>1, <2>2, <2>3, <2>4
       DEF EnvInv, LibOK, DirOK, LockOK, FileOK, ValueIsFirstLine, world
<1>5. QED BY <1>3, <1>4

\* CurrentDir, Open and CurrentDir back.
LEMMA OpenStep == ASSUME EnvInv, EnterDir \/ OpenVar PROVE EnvInv'
<1> USE DEF EnvInv, EnterDir, OpenVar, Goto, Return, world
<1>0. pc \in {"enter", "openVar"} => lock \in Locks
  BY DEF EnvTypeOK, LockOK
<1>1. pc = "openVar" => Openable \subseteq File
  BY <1>0, NoneIsFile DEF EnvTypeOK, Openable, DirOK
<1>2. EnvTypeOK'
  <2>1. stale' \in BOOLEAN
    <3>1. CASE EnterDir
      BY <3>1, Zenon
    <3>2. CASE OpenVar
      BY <3>2, Zenon
    <3>3. QED BY <3>1, <3>2
  <2>2. cwd' \in Locks \cup {Home} /\ fh' \in File
    BY <1>0, <1>1 DEF EnvTypeOK
  <2>3. QED BY <2>1, <2>2 DEF EnvTypeOK
<1>3. LibOK' /\ DirOK'
  BY DEF LibOK, DirOK
<1>4. FileOK'
  <2>1. CASE EnterDir
    BY <2>1 DEF FileOK
  <2>2. CASE OpenVar
    BY <2>2, <1>0, NoneIsFile DEF FileOK, Openable, DirOK
  <2>3. QED BY <2>1, <2>2
<1>5. LockOK' /\ ValueIsFirstLine'
  BY DEF EnvTypeOK, LockOK, IsEnv, ValueIsFirstLine
<1>6. QED BY <1>2, <1>3, <1>4, <1>5

\* Read, Close, and the value up to its line end.
LEMMA ReadStep == ASSUME EnvInv, ReadVar PROVE EnvInv'
<1> DEFINE n == ValueLen - 1
           text == fh.text
           cut == Min({n, Len(text)})
           part == SubSeq(text, 1, cut)
<1>0. pc = "read" /\ fh' = None /\ UNCHANGED <<world, tool, lib, lock, cwd, snap, stale>>
  BY DEF ReadVar, ReadUpTo
<1>1. text \in Seq(Chars) /\ n \in Nat /\ Len(text) \in Nat
  BY FileText DEF EnvInv, EnvTypeOK
<1>2. cut \in {n, Len(text)} /\ cut <= n /\ cut <= Len(text)
  <2>1. {n, Len(text)} \subseteq Nat
    BY <1>1
  <2> HIDE DEF n, text
  <2>2. QED BY <2>1, MinIsLeast
<1> HIDE DEF n, cut
<1>3. /\ part \in Seq(Chars) /\ Len(part) = cut
      /\ \A i \in 1..cut : part[i] = text[i]
  <2>1. \A i \in 1..cut : text[i] \in Chars
    BY <1>1, <1>2
  <2> HIDE DEF text
  <2>2. QED BY <1>1, <1>2, <2>1, SubSeqProperties
<1> DEFINE line == FirstLine(part)
<1>4. /\ line \in Seq({"a"}) /\ Len(line) <= cut
      /\ \A i \in 1..Len(line) : line[i] = text[i]
      /\ Len(line) < cut => text[Len(line) + 1] = "nl"
  <2>1. /\ line \in Seq({"a"}) /\ Len(line) <= Len(part)
        /\ \A i \in 1..Len(line) : line[i] = part[i]
        /\ Len(line) < Len(part) => part[Len(line) + 1] = "nl"
    BY <1>3, FirstLineIs
  <2> HIDE DEF line, part, text
  <2>2. Len(line) \in Nat
    BY <2>1
  <2>3. QED BY <1>1, <1>2, <1>3, <2>1, <2>2
<1>5. \/ value' = line /\ pc' = "done" /\ rc' = 0
      \/ value' = value /\ pc' = "done" /\ rc' = 5
  BY DEF ReadVar, ReadUpTo, Return, line, part, cut, n
<1>6. EnvTypeOK'
  <2>1. line \in Seq({"a"}) /\ Len(line) <= ValueLen - 1
    <3>1. Len(line) \in Nat
      BY <1>4
    <3>2. QED BY <1>1, <1>2, <1>4, <3>1 DEF n
  <2> HIDE DEF line
  <2>2. value' \in Seq({"a"}) /\ Len(value') <= ValueLen - 1
    BY <1>5, <2>1 DEF EnvInv, EnvTypeOK
  <2>3. QED BY <1>0, <1>5, <2>2, NoneIsFile DEF EnvInv, EnvTypeOK, world
<1> HIDE DEF line
<1>7. LibOK' /\ DirOK' /\ FileOK'
  BY <1>0, <1>5 DEF EnvInv, LibOK, DirOK, FileOK, world
<1>8. LockOK'
  BY <1>0, <1>5 DEF EnvInv, LockOK, IsEnv
<1>9. ValueIsFirstLine'
  <2> SUFFICES ASSUME rc' = 0, ~stale
               PROVE  LET whole == files[lock].text
                      IN  /\ \E i \in DOMAIN snap : snap[i].env /\ snap[i].lock = lock
                          /\ IsPrefix(value', whole) /\ Len(value') <= n
                          /\ \A k \in DOMAIN value' : value'[k] # "nl"
                          /\ Len(value') < Min({Len(whole), n})
                               => whole[Len(value') + 1] = "nl"
    BY <1>0 DEF ValueIsFirstLine, world, n
  <2>1. value' = line
    BY <1>5
  <2>2. files[lock].text = text
    BY <1>0 DEF EnvInv, FileOK, text
  <2>3. \E i \in DOMAIN snap : snap[i].env /\ snap[i].lock = lock
    BY <1>0 DEF EnvInv, LockOK
  <2>4. {Len(text), n} = {n, Len(text)}
    OBVIOUS
  <2> HIDE DEF text
  <2>5. IsPrefix(line, text)
    <3>1. Len(line) \in Nat /\ Len(line) <= Len(text)
      BY <1>1, <1>2, <1>4
    <3>2. \A i \in 1..Len(line) : line[i] = text[i] /\ line[i] \in Chars
      BY <1>1, <1>4, <3>1
    <3>3. /\ SubSeq(line, 1, Len(line)) \in Seq(Chars)
          /\ Len(SubSeq(line, 1, Len(line))) = Len(line)
          /\ \A i \in 1..Len(line) : SubSeq(line, 1, Len(line))[i] = line[i]
      BY <3>1, <3>2, SubSeqProperties
    <3>4. /\ SubSeq(text, 1, Len(line)) \in Seq(Chars)
          /\ Len(SubSeq(text, 1, Len(line))) = Len(line)
          /\ \A i \in 1..Len(line) : SubSeq(text, 1, Len(line))[i] = text[i]
      BY <3>1, <3>2, SubSeqProperties
    <3>5. SubSeq(line, 1, Len(line)) = SubSeq(text, 1, Len(line))
      BY <3>2, <3>3, <3>4, SeqEqual
    <3>6. QED BY <3>1, <3>5 DEF IsPrefix
  <2>6. Len(line) <= n
    <3>1. Len(line) \in Nat
      BY <1>4
    <3>2. QED BY <1>1, <1>2, <1>4, <3>1
  <2>8. \A k \in DOMAIN line : line[k] # "nl"
    <3>1. \A k \in DOMAIN line : line[k] \in {"a"}
      BY <1>4
    <3>2. QED BY <3>1
  <2>7. QED BY <1>4, <2>1, <2>2, <2>3, <2>4, <2>5, <2>6, <2>8 DEF cut
<1>10. QED BY <1>6, <1>7, <1>8, <1>9 DEF EnvInv

\* Another task's Assign: Env's lock may be freed, but not its copy of the list.
LEMMA AssignStep == ASSUME EnvInv, NEW i \in 1..MaxEntries, ChangeAssign(i) PROVE EnvInv'
<1>0. /\ pc # "done" /\ changes < MaxChanges /\ i \in DOMAIN entries
      /\ changes' = changes + 1
      /\ freed' = freed \cup ({entries[i].lock} \ {NoLock})
      /\ UNCHANGED <<files, pc, tool, lib, lock, cwd, fh, value, rc, snap, stale>>
  BY DEF ChangeAssign
<1>1. entries \in Seq(Entries) /\ OwnLocks(entries) /\ entries[i] \in Entries
  BY <1>0 DEF EnvInv, EnvTypeOK
<1>2. entries' \in Seq(Entries) /\ OwnLocks(entries')
  <2>1. CASE entries' = RemoveAt(entries, i)
    <3>1. /\ entries' \in Seq(Entries) /\ Len(entries') = Len(entries) - 1
          /\ \A j \in 1..(Len(entries) - 1) :
               entries'[j] = entries[IF j < i THEN j ELSE j + 1]
      BY <1>0, <1>1, <2>1, RemoveAtIs
    <3>2. ASSUME NEW j \in DOMAIN entries', NEW k \in DOMAIN entries',
                 j # k, entries'[j].lock = entries'[k].lock
          PROVE  entries'[j].lock = NoLock
      <4> DEFINE at(m) == IF m < i THEN m ELSE m + 1
      <4>1. /\ j \in 1..(Len(entries) - 1) /\ k \in 1..(Len(entries) - 1)
            /\ Len(entries) \in Nat /\ i \in Nat
        BY <1>0, <1>1, <3>1
      <4>2. at(j) \in DOMAIN entries /\ at(k) \in DOMAIN entries /\ at(j) # at(k)
        BY <1>1, <3>2, <4>1
      <4>3. entries'[j] = entries[at(j)] /\ entries'[k] = entries[at(k)]
        BY <3>1, <4>1
      <4> HIDE DEF at
      <4>4. QED BY <1>1, <3>2, <4>2, <4>3 DEF OwnLocks
    <3>3. QED BY <3>1, <3>2 DEF OwnLocks
  <2>2. CASE \E l \in Locks \ (freed \cup {entries[j].lock : j \in DOMAIN entries}) :
               entries' = [entries EXCEPT ![i].lock = l]
    <3>1. PICK l \in Locks : /\ \A j \in DOMAIN entries : entries[j].lock # l
                             /\ entries' = [entries EXCEPT ![i].lock = l]
      BY <2>2
    <3>2. [entries[i] EXCEPT !.lock = l] \in Entries
      BY <1>1 DEF Entries
    <3>3. entries' \in Seq(Entries) /\ DOMAIN entries' = DOMAIN entries
      BY <1>0, <1>1, <3>1, <3>2
    <3>4. \A j \in DOMAIN entries : entries'[j].lock = IF j = i THEN l ELSE entries[j].lock
      BY <1>0, <1>1, <3>1 DEF Entries
    <3>5. QED BY <1>1, <3>1, <3>3, <3>4 DEF OwnLocks
  <2>3. QED BY <2>1, <2>2 DEF ChangeAssign
<1>3. freed' \subseteq Locks
  BY <1>0, <1>1 DEF EnvInv, EnvTypeOK, Entries
<1>4. EnvTypeOK'
  BY <1>0, <1>2, <1>3 DEF EnvInv, EnvTypeOK
<1>5. QED
  BY <1>0, <1>4 DEF EnvInv, LibOK, DirOK, LockOK, FileOK, IsEnv, ValueIsFirstLine

\* Every step of Env and of the other tasks keeps the invariant.
LEMMA EnvNextInv == EnvInv /\ [EnvNext]_envVars => EnvInv'
<1> SUFFICES ASSUME EnvInv, [EnvNext]_envVars PROVE EnvInv'
  OBVIOUS
<1>1. CASE UNCHANGED envVars
  BY <1>1 DEF envVars, world, EnvInv, EnvTypeOK, LibOK, DirOK, LockOK, FileOK, IsEnv,
              OwnLocks, ValueIsFirstLine
<1>2. CASE Env
  BY <1>2, ArgsStep, SearchStep, OpenStep, ReadStep DEF Env
<1>3. CASE \E i \in 1..MaxEntries : ChangeAssign(i)
  BY <1>3, AssignStep
<1>4. QED BY <1>1, <1>2, <1>3 DEF EnvNext

\* The inductive invariant holds in every reachable state.
LEMMA EnvInvariance == EnvSpec => []EnvInv
BY EnvInitInv, EnvNextInv, PTL DEF EnvSpec

-----------------------------------------------------------------------------
\* Every variable of Env keeps its type; value[] has room for its terminator.
THEOREM EnvTypeCorrect == EnvSpec => []EnvTypeOK
<1>1. EnvInv => EnvTypeOK
  BY DEF EnvInv
<1>2. QED BY <1>1, EnvInvariance, PTL

\* Every ending has closed dos.library and the file, and has put the current
\* directory back.
THEOREM NoLeak == EnvSpec => []NothingHeldAtExit
<1>1. EnvInv => NothingHeldAtExit
  BY DEF EnvInv, LibOK, DirOK, FileOK, NothingHeldAtExit
<1>2. QED BY <1>1, EnvInvariance, PTL

\* What Env prints is the first line of the variable, with no line end in it,
\* as long as its lock was not freed by another task's Assign.
THEOREM FirstLinePrinted == EnvSpec => []ValueIsFirstLine
<1>1. EnvInv => ValueIsFirstLine
  BY DEF EnvInv
<1>2. QED BY <1>1, EnvInvariance, PTL

-----------------------------------------------------------------------------
(***************************************************************************)
(* The memory figures, for any number of cells and samples.  MemInv says   *)
(* what the figures read so far have to do with the memory as it is now.   *)
(***************************************************************************)
HIDE EnvAssumption DEF EnvAssumption
USE MemAssumption DEF MemAssumption

\* Max is the largest element of a set of naturals that has a bound.
LEMMA MaxIsLargest ==
  ASSUME NEW S, S \subseteq Nat, S # {}, NEW b \in Nat, \A n \in S : n <= b
  PROVE  Max(S) \in S /\ \A n \in S : n <= Max(S)
<1> DEFINE rest == {b - n : n \in S}
<1>1. rest \subseteq Nat /\ rest # {}
  <2>1. \A n \in S : b - n \in Nat
    OBVIOUS
  <2> QED BY <2>1
<1>2. PICK r \in rest : \A q \in rest : r <= q
  <2> HIDE DEF rest
  <2> QED BY <1>1, LeastNat
<1>3. PICK m \in S : r = b - m
  BY <1>2
<1>4. \A n \in S : m >= n
  <2> SUFFICES ASSUME NEW n \in S PROVE m >= n
    OBVIOUS
  <2>1. b - n \in rest
    OBVIOUS
  <2>2. b - m <= b - n
    BY <1>2, <1>3, <2>1
  <2> QED BY <2>2
<1>5. Max(S) \in S /\ \A n \in S : Max(S) >= n
  BY <1>3, <1>4, Zenon DEF Max
<1> QED BY <1>5

LEMMA IntervalIs ==
  ASSUME NEW a \in Int, NEW b \in Int, a <= b + 1
  PROVE  IsFiniteSet(a..b) /\ Cardinality(a..b) = b - a + 1
<1>1. IsFiniteSet(a..b) /\ Cardinality(a..b) = IF a > b THEN 0 ELSE b - a + 1
  BY FS_Interval
<1>2. CASE a > b
  BY <1>1, <1>2
<1>3. CASE ~(a > b)
  BY <1>1, <1>3
<1> QED BY <1>2, <1>3

Size(p) == p[2] - p[1] + 1

\* Every piece is a set of free cells.
LEMMA PieceIs ==
  ASSUME NEW n \in Nat, NEW S, S \subseteq 1..n, NEW p \in Pieces(S)
  PROVE  Size(p) \in Nat \ {0} /\ Size(p) <= Cardinality(S)
<1>0. p \in S \X S /\ p[1] <= p[2] /\ p[1]..p[2] \subseteq S
  BY DEF Pieces
<1>1. p[1] \in Int /\ p[2] \in Int
  <2>1. p[1] \in S /\ p[2] \in S
    BY <1>0
  <2>2. \A c \in S : c \in Int
    OBVIOUS
  <2> QED BY <2>1, <2>2
<1>2. IsFiniteSet(1..n)
  BY FS_Interval
<1>3. IsFiniteSet(S)
  BY <1>2, FS_Subset
<1>4. Cardinality(p[1]..p[2]) <= Cardinality(S)
  BY <1>0, <1>3, FS_Subset
<1>5. Cardinality(p[1]..p[2]) = p[2] - p[1] + 1
  BY <1>0, <1>1, IntervalIs
<1> QED BY <1>0, <1>1, <1>4, <1>5 DEF Size

\* What the largest piece is.
LEMMA LargestIs ==
  ASSUME NEW n \in Nat, NEW S, S \subseteq 1..n
  PROVE  /\ Cardinality(S) \in Nat /\ Cardinality(S) <= n
         /\ LargestOf(S) \in Nat /\ LargestOf(S) <= Cardinality(S)
         /\ LargestOf(S) = 0 \/ \E p \in Pieces(S) : LargestOf(S) = Size(p)
         /\ \A p \in Pieces(S) : Size(p) <= LargestOf(S)
<1>1. IsFiniteSet(1..n) /\ Cardinality(1..n) = n
  <2>1. 1 \in Int /\ n \in Int /\ 1 <= n + 1 /\ n - 1 + 1 = n
    OBVIOUS
  <2>2. IsFiniteSet(1..n) /\ Cardinality(1..n) = n - 1 + 1
    BY ONLY <2>1, IntervalIs
  <2> QED BY <2>1, <2>2
<1>2. IsFiniteSet(S) /\ Cardinality(S) <= n /\ Cardinality(S) \in Nat
  BY <1>1, FS_Subset, FS_CardinalityType
<1> DEFINE sizes == {0} \cup {Size(p) : p \in Pieces(S)}
<1>3. sizes \subseteq Nat /\ sizes # {} /\ \A s \in sizes : s <= Cardinality(S)
  <2>1. \A p \in Pieces(S) : Size(p) \in Nat /\ Size(p) <= Cardinality(S)
    BY PieceIs
  <2> QED BY <1>2, <2>1
<1>4. LargestOf(S) = Max(sizes)
  BY DEF LargestOf, Size
<1>5. Max(sizes) \in sizes /\ \A s \in sizes : s <= Max(sizes)
  <2> HIDE DEF sizes
  <2> QED BY <1>2, <1>3, MaxIsLargest
<1> QED BY <1>2, <1>3, <1>4, <1>5

\* Fewer cells have no larger piece.
LEMMA LargestGrows ==
  ASSUME NEW n \in Nat, NEW T, T \subseteq 1..n, NEW S, S \subseteq T
  PROVE  LargestOf(S) <= LargestOf(T) /\ Cardinality(S) <= Cardinality(T)
<1>1. S \subseteq 1..n
  OBVIOUS
<1>2. Pieces(S) \subseteq Pieces(T)
  BY DEF Pieces
<1>3. LargestOf(S) <= LargestOf(T)
  <2>1. LargestOf(S) = 0 \/ \E p \in Pieces(S) : LargestOf(S) = Size(p)
    BY <1>1, LargestIs
  <2>2. LargestOf(T) \in Nat /\ \A p \in Pieces(T) : Size(p) <= LargestOf(T)
    BY LargestIs
  <2> QED BY <1>2, <2>1, <2>2
<1>4. IsFiniteSet(1..n)
  BY FS_Interval
<1>5. IsFiniteSet(T)
  BY <1>4, FS_Subset
<1> QED BY <1>3, <1>5, FS_Subset

\* There is a piece as soon as there is a cell.
LEMMA LargestOfNone ==
  ASSUME NEW n \in Nat, NEW S, S \subseteq 1..n
  PROVE  Cardinality(S) = 0 <=> LargestOf(S) = 0
<1>1. CASE S = {}
  BY <1>1, FS_EmptySet, LargestIs
<1>2. ASSUME NEW c \in S PROVE Cardinality(S) # 0 /\ LargestOf(S) # 0
  <2>1. <<c, c>> \in Pieces(S)
    <3>1. c \in Int /\ c..c = {c}
      OBVIOUS
    <3> QED BY <3>1 DEF Pieces
  <2>2. Size(<<c, c>>) \in Nat \ {0}
    BY <2>1, PieceIs
  <2>3. Size(<<c, c>>) <= LargestOf(S)
    BY <2>1, LargestIs
  <2>4. LargestOf(S) \in Nat /\ Cardinality(S) \in Nat /\ LargestOf(S) <= Cardinality(S)
    BY LargestIs
  <2> QED BY <2>2, <2>3, <2>4
<1> QED BY <1>1, <1>2

\* The larger of two numbers.
LEMMA MaxOfTwo ==
  ASSUME NEW a \in Nat, NEW b \in Nat
  PROVE  Max({a, b}) \in {a, b} /\ a <= Max({a, b}) /\ b <= Max({a, b})
<1>1. {a, b} \subseteq Nat /\ {a, b} # {} /\ \A n \in {a, b} : n <= a + b
  OBVIOUS
<1>2. a + b \in Nat
  OBVIOUS
<1>3. Max({a, b}) \in {a, b} /\ \A n \in {a, b} : n <= Max({a, b})
  <2> DEFINE S == {a, b}
  <2> HIDE DEF S
  <2>1. Max(S) \in S /\ \A n \in S : n <= Max(S)
    BY <1>1, <1>2, MaxIsLargest DEF S
  <2> QED BY <2>1 DEF S
<1> QED BY <1>3

-----------------------------------------------------------------------------
\* The six figures are different ones; a largest piece follows three calls
\* after the free memory of its kind.
LEMMA OrderIs ==
  /\ \A n \in 1..6 : ReadOrder[n] \in Figures
  /\ \A n, k \in 1..6 : ReadOrder[n] = ReadOrder[k] => n = k
  /\ \A f \in Figures : \E n \in 1..6 : ReadOrder[n] = f
  /\ \A n \in 4..6 : /\ ReadOrder[n].what = "largest" /\ ReadOrder[n - 3].what = "free"
                     /\ ReadOrder[n].group = ReadOrder[n - 3].group
  /\ \A g \in Groups : \E n \in 4..6 : /\ ReadOrder[n] = Figure(g, "largest")
                                       /\ ReadOrder[n - 3] = Figure(g, "free")
<1> USE DEF ReadOrder, Figure, Figures, Groups, Kinds
<1>1. /\ ReadOrder[1] = Figure("chip", "free") /\ ReadOrder[4] = Figure("chip", "largest")
      /\ ReadOrder[2] = Figure("fast", "free") /\ ReadOrder[5] = Figure("fast", "largest")
      /\ ReadOrder[3] = Figure("any", "free") /\ ReadOrder[6] = Figure("any", "largest")
  OBVIOUS
<1> HIDE DEF ReadOrder
<1>2. \A n \in 1..6 : ReadOrder[n] \in Figures
  BY <1>1
<1>3. \A n, k \in 1..6 : ReadOrder[n] = ReadOrder[k] => n = k
  BY <1>1
<1>4. ASSUME NEW f \in Figures PROVE \E n \in 1..6 : ReadOrder[n] = f
  <2>1. /\ f = [group |-> f.group, what |-> f.what]
        /\ f.group \in {"chip", "fast", "any"} /\ f.what \in {"free", "largest"}
    OBVIOUS
  <2> QED BY <1>1, <2>1
<1>5. \A n \in 4..6 : /\ ReadOrder[n].what = "largest" /\ ReadOrder[n - 3].what = "free"
                      /\ ReadOrder[n].group = ReadOrder[n - 3].group
  BY <1>1
<1>6. \A g \in Groups : \E n \in 4..6 : /\ ReadOrder[n] = Figure(g, "largest")
                                        /\ ReadOrder[n - 3] = Figure(g, "free")
  <2>1. 4 - 3 = 1 /\ 5 - 3 = 2 /\ 6 - 3 = 3 /\ {4, 5, 6} \subseteq 4..6
    OBVIOUS
  <2> QED BY <1>1, <2>1
<1> QED BY <1>2, <1>3, <1>4, <1>5, <1>6

\* The free cells of each kind are some of its cells.
FreeOK(F) == F.chip \subseteq 1..ChipCells /\ F.fast \subseteq 1..FastCells

LEMMA FreeIs ==
  ASSUME MemTypeOK
  PROVE  /\ FreeOK(free) /\ free["chip"] = free.chip /\ free["fast"] = free.fast
         /\ DOMAIN free = {"chip", "fast"}
BY DEF MemTypeOK, FreeOK, KindCells

\* What AvailMem says of a kind, and of both.
LEMMA ValueIs ==
  ASSUME NEW g \in Groups
  PROVE  /\ AvailMem(Figure(g, "free")) =
              IF g = "any" THEN Cardinality(free.chip) + Cardinality(free.fast)
                           ELSE Cardinality(free[g])
         /\ AvailMem(Figure(g, "largest")) =
              IF g = "any" THEN Max({LargestOf(free.chip), LargestOf(free.fast)})
                           ELSE LargestOf(free[g])
<1>1. /\ Figure(g, "free").group = g /\ Figure(g, "free").what = "free"
      /\ Figure(g, "largest").group = g /\ Figure(g, "largest").what = "largest"
  BY DEF Figure
<1>2. "free" # "largest"
  OBVIOUS
<1>3. free["chip"] = free.chip /\ free["fast"] = free.fast
  OBVIOUS
<1> QED BY <1>1, <1>2, <1>3 DEF AvailMem

LEMMA FigureIs ==
  ASSUME NEW f \in Figures
  PROVE  \E g \in Groups : f = Figure(g, "free") \/ f = Figure(g, "largest")
<1>1. /\ f = [group |-> f.group, what |-> f.what]
      /\ f.group \in Groups /\ f.what \in {"free", "largest"}
  BY DEF Figures
<1> QED BY <1>1 DEF Figure

\* A figure is a number of cells; no piece is larger than what is free.
LEMMA ValueBounds ==
  ASSUME FreeOK(free), NEW g \in Groups
  PROVE  /\ AvailMem(Figure(g, "free")) \in 0..Cells
         /\ AvailMem(Figure(g, "largest")) \in 0..Cells
         /\ AvailMem(Figure(g, "largest")) <= AvailMem(Figure(g, "free"))
<1> DEFINE c == Cardinality(free.chip)
           f == Cardinality(free.fast)
           lc == LargestOf(free.chip)
           lf == LargestOf(free.fast)
<1>1. /\ c \in Nat /\ c <= ChipCells /\ lc \in Nat /\ lc <= c
      /\ f \in Nat /\ f <= FastCells /\ lf \in Nat /\ lf <= f
  BY LargestIs DEF FreeOK
<1>2. Max({lc, lf}) \in {lc, lf}
  BY <1>1, MaxOfTwo
<1>3. g = "chip" \/ g = "fast" \/ g = "any"
  BY DEF Groups, Kinds
<1>4. /\ AvailMem(Figure(g, "free")) = IF g = "any" THEN c + f ELSE IF g = "chip" THEN c ELSE f
      /\ AvailMem(Figure(g, "largest")) =
           IF g = "any" THEN Max({lc, lf}) ELSE IF g = "chip" THEN lc ELSE lf
  BY <1>3, ValueIs
<1> HIDE DEF c, f, lc, lf
<1> QED BY <1>1, <1>2, <1>3, <1>4 DEF Cells

\* Less memory, smaller figures.
LEMMA ValueShrinks ==
  ASSUME FreeOK(free), free'.chip \subseteq free.chip, free'.fast \subseteq free.fast,
         NEW g \in Groups
  PROVE  /\ AvailMem(Figure(g, "free"))' \in Nat /\ AvailMem(Figure(g, "largest"))' \in Nat
         /\ AvailMem(Figure(g, "free"))' <= AvailMem(Figure(g, "free"))
         /\ AvailMem(Figure(g, "largest"))' <= AvailMem(Figure(g, "largest"))
<1> DEFINE c == Cardinality(free.chip)
           f == Cardinality(free.fast)
           lc == LargestOf(free.chip)
           lf == LargestOf(free.fast)
           d == Cardinality(free'.chip)
           e == Cardinality(free'.fast)
           ld == LargestOf(free'.chip)
           le == LargestOf(free'.fast)
<1>1. /\ free.chip \subseteq 1..ChipCells /\ free'.chip \subseteq 1..ChipCells
      /\ free.fast \subseteq 1..FastCells /\ free'.fast \subseteq 1..FastCells
  BY DEF FreeOK
<1>2. c \in Nat /\ lc \in Nat /\ f \in Nat /\ lf \in Nat
  BY <1>1, LargestIs
<1>3. d \in Nat /\ ld \in Nat /\ e \in Nat /\ le \in Nat
  BY <1>1, LargestIs
<1>4. d <= c /\ ld <= lc /\ e <= f /\ le <= lf
  BY <1>1, LargestGrows
<1>5. /\ Max({lc, lf}) \in {lc, lf} /\ lc <= Max({lc, lf}) /\ lf <= Max({lc, lf})
      /\ Max({ld, le}) \in {ld, le}
  BY <1>2, <1>3, MaxOfTwo
<1>6. g = "chip" \/ g = "fast" \/ g = "any"
  BY DEF Groups, Kinds
<1>7. /\ AvailMem(Figure(g, "free")) = IF g = "any" THEN c + f ELSE IF g = "chip" THEN c ELSE f
      /\ AvailMem(Figure(g, "largest")) =
           IF g = "any" THEN Max({lc, lf}) ELSE IF g = "chip" THEN lc ELSE lf
  BY <1>6, ValueIs
<1>8. /\ AvailMem(Figure(g, "free"))' = IF g = "any" THEN d + e ELSE IF g = "chip" THEN d ELSE e
      /\ AvailMem(Figure(g, "largest"))' =
           IF g = "any" THEN Max({ld, le}) ELSE IF g = "chip" THEN ld ELSE le
  <2>1. /\ Figure(g, "free").group = g /\ Figure(g, "free").what = "free"
        /\ Figure(g, "largest").group = g /\ Figure(g, "largest").what = "largest"
    BY DEF Figure
  <2>2. free'["chip"] = free'.chip /\ free'["fast"] = free'.fast /\ "free" # "largest"
    OBVIOUS
  <2> QED BY <1>6, <2>1, <2>2 DEF AvailMem
<1> HIDE DEF c, d, e, f, lc, ld, le, lf
<1> QED BY <1>2, <1>3, <1>4, <1>5, <1>6, <1>7, <1>8

-----------------------------------------------------------------------------
PlaceOK ==
  /\ pc = "idle" => step = 0
  /\ pc = "read" => step < 6
  /\ pc = "print" => step = 6
  /\ pc # "done" => samples > 0

\* Until memory is freed the figures read so far can only be too large, and a
\* largest piece is within the free memory of its kind, read before it; until
\* memory is allocated or freed they are what AvailMem says now.
FiguresOK ==
  pc \in {"read", "print"} =>
    /\ ~released =>
         /\ \A n \in 1..step : AvailMem(ReadOrder[n]) <= info[ReadOrder[n]]
         /\ \A n \in 4..step : info[ReadOrder[n]] <= info[ReadOrder[n - 3]]
    /\ ~changed => \A n \in 1..step : AvailMem(ReadOrder[n]) = info[ReadOrder[n]]

MemInv == MemTypeOK /\ PlaceOK /\ FiguresOK

LEMMA MemInitInv == MemInit => MemInv
<1> SUFFICES ASSUME MemInit PROVE MemInv
  OBVIOUS
<1> USE DEF MemInit
<1>1. MemTypeOK
  <2>1. Cells \in Nat /\ samples \in 0..MaxSamples
    BY DEF Cells, Tools
  <2>2. free \in [chip : SUBSET KindCells("chip"), fast : SUBSET KindCells("fast")]
    OBVIOUS
  <2>3. info \in [Figures -> 0..Cells]
    BY <2>1
  <2>4. pc = "idle" /\ tool \in Tools /\ step \in 0..6 /\ rc = Running
    OBVIOUS
  <2>5. released = FALSE /\ changed = FALSE
    OBVIOUS
  <2>6. released \in BOOLEAN /\ changed \in BOOLEAN
    BY <2>5, Zenon
  <2> HIDE DEF MemInit
  <2> QED BY <2>1, <2>2, <2>3, <2>4, <2>6, Zenon DEF MemTypeOK
<1>2. PlaceOK /\ FiguresOK
  BY DEF PlaceOK, FiguresOK
<1> QED BY <1>1, <1>2 DEF MemInv

\* A figure stays what it is as long as the memory does.
LEMMA ValueStays ==
  ASSUME free' = free, NEW f
  PROVE  AvailMem(f)' = AvailMem(f)
BY DEF AvailMem

LEMMA StartStep == MemInv /\ Start => MemInv'
<1> SUFFICES ASSUME MemInv, Start PROVE MemInv'
  OBVIOUS
<1> USE DEF Start, Goto, Return
<1>1. MemTypeOK'
  BY DEF MemInv, MemTypeOK
<1>2. PlaceOK'
  BY DEF MemInv, PlaceOK
<1>3. FiguresOK'
  <2>1. 1..0 = {} /\ 4..0 = {} /\ step' = 0
    BY DEF MemInv, PlaceOK
  <2> QED BY <2>1 DEF FiguresOK
<1> QED BY <1>1, <1>2, <1>3 DEF MemInv

LEMMA ReadFigureStep == MemInv /\ ReadFigure => MemInv'
<1> SUFFICES ASSUME MemInv, ReadFigure PROVE MemInv'
  OBVIOUS
<1> DEFINE f == ReadOrder[step + 1]
<1>1. MemTypeOK /\ step \in 0..5 /\ step + 1 \in 1..6 /\ step' = step + 1 /\ free' = free
  BY DEF MemInv, MemTypeOK, ReadFigure
<1>2. FreeOK(free) /\ f \in Figures /\ info \in [Figures -> 0..Cells]
  BY <1>1, FreeIs, OrderIs DEF MemTypeOK
<1>3. AvailMem(f) \in 0..Cells
  BY <1>2, FigureIs, ValueBounds
<1>4. info' = [info EXCEPT ![f] = AvailMem(f)]
  BY DEF ReadFigure
<1>5. MemTypeOK'
  <2>1. info' \in [Figures -> 0..Cells]
    BY <1>2, <1>3, <1>4
  <2>2. /\ pc' \in {"read", "print"} /\ released' \in BOOLEAN /\ changed' \in BOOLEAN
        /\ free' = free /\ tool' = tool /\ samples' = samples /\ rc' = rc /\ step' \in 0..6
    BY <1>1 DEF ReadFigure, MemTypeOK
  <2> QED BY <1>1, <2>1, <2>2 DEF MemTypeOK, KindCells
<1>6. PlaceOK'
  BY <1>1 DEF MemInv, PlaceOK, ReadFigure
<1>7. pc = "read" /\ released' = (step > 0 /\ released) /\ changed' = (step > 0 /\ changed)
  BY DEF ReadFigure
<1>8. \A n \in 1..6 : n # step + 1 => info'[ReadOrder[n]] = info[ReadOrder[n]]
  BY <1>1, <1>2, <1>4, OrderIs
<1>9. info'[f] = AvailMem(f)
  BY <1>2, <1>4
<1>10. ASSUME NEW n \in 1..6 PROVE info[ReadOrder[n]] \in Nat /\ AvailMem(ReadOrder[n]) \in Nat
  <2>1. ReadOrder[n] \in Figures
    BY OrderIs
  <2>2. AvailMem(ReadOrder[n]) \in 0..Cells
    BY <1>2, <2>1, FigureIs, ValueBounds
  <2> QED BY <1>2, <2>1, <2>2
<1>11. ASSUME NEW n \in 1..(step + 1), ~released'
       PROVE  AvailMem(ReadOrder[n]) <= info'[ReadOrder[n]]
  <2>1. CASE n = step + 1
    BY <1>1, <1>9, <1>10, <2>1
  <2>2. CASE n # step + 1
    <3>1. n \in 1..step /\ n \in 1..6 /\ step > 0
      BY <1>1, <2>2
    <3>2. ~released
      BY <1>7, <1>11, <3>1
    <3> QED BY <1>7, <1>8, <2>2, <3>1, <3>2 DEF MemInv, FiguresOK
  <2> QED BY <2>1, <2>2
<1>12. ASSUME NEW n \in 1..(step + 1), ~changed'
       PROVE  AvailMem(ReadOrder[n]) = info'[ReadOrder[n]]
  <2>1. CASE n = step + 1
    BY <1>9, <2>1
  <2>2. CASE n # step + 1
    <3>1. n \in 1..step /\ n \in 1..6 /\ step > 0
      BY <1>1, <2>2
    <3>2. ~changed
      BY <1>7, <1>12, <3>1
    <3> QED BY <1>7, <1>8, <2>2, <3>1, <3>2 DEF MemInv, FiguresOK
  <2> QED BY <2>1, <2>2
<1>13. ASSUME NEW n \in 4..(step + 1), ~released'
       PROVE  info'[ReadOrder[n]] <= info'[ReadOrder[n - 3]]
  <2>0. /\ n \in 4..6 /\ n - 3 \in 1..step /\ n - 3 \in 1..6 /\ n - 3 # step + 1
        /\ n \in 1..6 /\ step > 0
    BY <1>1
  <2>1. ~released
    BY <1>7, <1>13, <2>0
  <2>2. info'[ReadOrder[n - 3]] = info[ReadOrder[n - 3]]
    BY <1>8, <2>0
  <2>3. CASE n = step + 1
    <3>1. ReadOrder[n] \in Figures /\ ReadOrder[n - 3] \in Figures
      BY <2>0, OrderIs
    <3>2. /\ ReadOrder[n].what = "largest" /\ ReadOrder[n - 3].what = "free"
          /\ ReadOrder[n].group = ReadOrder[n - 3].group
      BY <2>0, OrderIs
    <3>3. PICK g \in Groups : ReadOrder[n] = Figure(g, "largest") /\ ReadOrder[n - 3] = Figure(g, "free")
      BY <3>1, <3>2, FigureIs DEF Figure
    <3>4. AvailMem(ReadOrder[n]) <= AvailMem(ReadOrder[n - 3])
      BY <1>2, <3>3, ValueBounds
    <3>5. AvailMem(ReadOrder[n - 3]) <= info[ReadOrder[n - 3]]
      BY <1>7, <2>0, <2>1 DEF MemInv, FiguresOK
    <3>6. info'[ReadOrder[n]] = AvailMem(ReadOrder[n])
      BY <1>9, <2>3
    <3>7. /\ AvailMem(ReadOrder[n]) \in Nat /\ AvailMem(ReadOrder[n - 3]) \in Nat
          /\ info[ReadOrder[n - 3]] \in Nat
      BY <1>10, <2>0
    <3> QED BY <2>2, <3>4, <3>5, <3>6, <3>7
  <2>4. CASE n # step + 1
    <3>1. n \in 4..step
      BY <1>1, <2>4
    <3>2. info[ReadOrder[n]] <= info[ReadOrder[n - 3]]
      BY <1>7, <2>1, <3>1 DEF MemInv, FiguresOK
    <3>3. info'[ReadOrder[n]] = info[ReadOrder[n]]
      BY <1>8, <2>0, <2>4
    <3> QED BY <2>2, <3>2, <3>3
  <2> QED BY <2>3, <2>4
<1>14. FiguresOK'
  <2>1. \A n \in 1..6 : AvailMem(ReadOrder[n])' = AvailMem(ReadOrder[n])
    BY <1>1, ValueStays DEF ReadOrder
  <2>2. 1..step' \subseteq 1..6 /\ 1..step' = 1..(step + 1) /\ 4..step' = 4..(step + 1)
    BY <1>1
  <2>3. \A n \in 1..step' : ~released' => AvailMem(ReadOrder[n])' <= info'[ReadOrder[n]]
    BY <1>11, <2>1, <2>2
  <2>4. \A n \in 1..step' : ~changed' => AvailMem(ReadOrder[n])' = info'[ReadOrder[n]]
    BY <1>12, <2>1, <2>2
  <2>5. \A n \in 4..step' : ~released' => info'[ReadOrder[n]] <= info'[ReadOrder[n - 3]]
    BY <1>13, <2>2
  <2> HIDE DEF f
  <2> QED BY <2>3, <2>4, <2>5, Zenon DEF FiguresOK, ReadOrder
<1> QED BY <1>5, <1>6, <1>14 DEF MemInv

LEMMA PrintStep == MemInv /\ PrintFigures => MemInv'
<1> SUFFICES ASSUME MemInv, PrintFigures PROVE MemInv'
  OBVIOUS
<1> USE DEF PrintFigures, Goto, Return
<1>1. samples' \in 0..MaxSamples /\ (pc' # "done" => samples' > 0)
  BY DEF MemInv, MemTypeOK, PlaceOK
<1>2. ExitCodes \subseteq {0, 5}
  BY DEF ExitCodes
<1>3. MemTypeOK'
  <2>1. /\ pc' \in {"read", "done"} /\ rc' \in {Running, 0, 5, 10}
        /\ free' = free /\ tool' = tool /\ info' = info /\ step' = 0
        /\ released' = released /\ changed' = changed
    BY <1>2 DEF MemInv, MemTypeOK
  <2> HIDE DEF PrintFigures
  <2> QED BY <1>1, <2>1 DEF MemInv, MemTypeOK, KindCells
<1>4. PlaceOK'
  BY <1>1 DEF PlaceOK
<1>5. FiguresOK'
  <2>1. 1..0 = {} /\ 4..0 = {} /\ step' = 0
    OBVIOUS
  <2> QED BY <2>1 DEF FiguresOK
<1> QED BY <1>3, <1>4, <1>5 DEF MemInv

\* Other tasks change the free cells of one kind.
LEMMA OthersType ==
  ASSUME MemTypeOK, NEW k \in Kinds, NEW S, S \subseteq KindCells(k),
         free' = [free EXCEPT ![k] = S]
  PROVE  /\ free' \in [chip : SUBSET KindCells("chip"), fast : SUBSET KindCells("fast")]
         /\ free'.chip = IF k = "chip" THEN S ELSE free.chip
         /\ free'.fast = IF k = "fast" THEN S ELSE free.fast
<1>1. k = "chip" \/ k = "fast"
  BY DEF Kinds
<1>2. CASE k = "chip"
  BY <1>2 DEF MemTypeOK
<1>3. CASE k = "fast"
  BY <1>3 DEF MemTypeOK
<1> QED BY <1>1, <1>2, <1>3

LEMMA AllocateStep ==
  ASSUME MemInv, NEW k \in Kinds, NEW a, NEW b, Allocate(k, a, b)
  PROVE  MemInv'
<1> DEFINE S == free[k] \ (a..b)
<1>1. /\ free' = [free EXCEPT ![k] = S] /\ changed' = TRUE
      /\ UNCHANGED <<pc, tool, samples, step, info, rc, released>>
  BY DEF Allocate
<1>2. MemTypeOK /\ FreeOK(free) /\ S \subseteq free[k] /\ free[k] \subseteq KindCells(k)
  <2>1. MemTypeOK /\ (k = "chip" \/ k = "fast")
    BY DEF MemInv, Kinds
  <2> QED BY <2>1, FreeIs DEF MemTypeOK
<1>3. /\ free' \in [chip : SUBSET KindCells("chip"), fast : SUBSET KindCells("fast")]
      /\ free'.chip = IF k = "chip" THEN S ELSE free.chip
      /\ free'.fast = IF k = "fast" THEN S ELSE free.fast
  <2> HIDE DEF S
  <2> QED BY <1>1, <1>2, OthersType
<1>4. free'.chip \subseteq free.chip /\ free'.fast \subseteq free.fast
  BY <1>2, <1>3, FreeIs
<1>5. MemTypeOK'
  BY <1>1, <1>2, <1>3 DEF MemTypeOK, KindCells
<1>6. ASSUME NEW n \in 1..6
      PROVE  AvailMem(ReadOrder[n])' <= AvailMem(ReadOrder[n])
  <2>1. PICK g \in Groups : ReadOrder[n] = Figure(g, "free") \/ ReadOrder[n] = Figure(g, "largest")
    BY OrderIs, FigureIs
  <2>2. /\ AvailMem(Figure(g, "free"))' <= AvailMem(Figure(g, "free"))
        /\ AvailMem(Figure(g, "largest"))' <= AvailMem(Figure(g, "largest"))
    BY <1>2, <1>4, ValueShrinks
  <2> QED BY <2>1, <2>2 DEF ReadOrder
<1>7. ASSUME NEW n \in 1..6
      PROVE  /\ AvailMem(ReadOrder[n]) \in Nat /\ AvailMem(ReadOrder[n])' \in Nat
             /\ info[ReadOrder[n]] \in Nat
  <2>1. PICK g \in Groups : ReadOrder[n] = Figure(g, "free") \/ ReadOrder[n] = Figure(g, "largest")
    BY OrderIs, FigureIs
  <2>3. AvailMem(Figure(g, "free")) \in 0..Cells /\ AvailMem(Figure(g, "largest")) \in 0..Cells
    BY <1>2, ValueBounds
  <2>4. AvailMem(Figure(g, "free"))' \in Nat /\ AvailMem(Figure(g, "largest"))' \in Nat
    BY <1>2, <1>4, ValueShrinks
  <2>5. info[ReadOrder[n]] \in 0..Cells
    BY <1>2, OrderIs DEF MemTypeOK
  <2> QED BY <2>1, <2>3, <2>4, <2>5 DEF ReadOrder
<1>8. FiguresOK'
  <2>1. 1..step \subseteq 1..6 /\ 4..step \subseteq 1..6
    BY <1>2 DEF MemTypeOK
  <2> SUFFICES ASSUME pc' \in {"read", "print"}, ~released'
               PROVE  /\ \A n \in 1..step' : AvailMem(ReadOrder[n])' <= info'[ReadOrder[n]]
                      /\ \A n \in 4..step' : info'[ReadOrder[n]] <= info'[ReadOrder[n - 3]]
    BY <1>1 DEF FiguresOK, ReadOrder
  <2>2. /\ \A n \in 1..step : AvailMem(ReadOrder[n]) <= info[ReadOrder[n]]
        /\ \A n \in 4..step : info[ReadOrder[n]] <= info[ReadOrder[n - 3]]
    BY <1>1 DEF MemInv, FiguresOK
  <2>3. ASSUME NEW n \in 1..step PROVE AvailMem(ReadOrder[n])' <= info[ReadOrder[n]]
    BY <1>6, <1>7, <2>1, <2>2
  <2> QED BY <1>1, <2>2, <2>3
<1> QED BY <1>1, <1>5, <1>8 DEF MemInv, PlaceOK

LEMMA ReleaseStep ==
  ASSUME MemInv, NEW k \in Kinds, NEW a \in KindCells(k), NEW b \in KindCells(k), Release(k, a, b)
  PROVE  MemInv'
<1> DEFINE S == free[k] \cup (a..b)
<1>1. /\ free' = [free EXCEPT ![k] = S] /\ changed' = TRUE /\ released' = TRUE
      /\ UNCHANGED <<pc, tool, samples, step, info, rc>>
  BY DEF Release
<1>2. MemTypeOK /\ S \subseteq KindCells(k)
  <2>1. MemTypeOK /\ (k = "chip" \/ k = "fast")
    BY DEF MemInv, Kinds
  <2>2. free[k] \subseteq KindCells(k)
    BY <2>1, FreeIs DEF MemTypeOK
  <2>3. a..b \subseteq KindCells(k)
    BY DEF KindCells
  <2> QED BY <2>1, <2>2, <2>3
<1>3. free' \in [chip : SUBSET KindCells("chip"), fast : SUBSET KindCells("fast")]
  <2> HIDE DEF S
  <2> QED BY <1>1, <1>2, OthersType
<1>4. MemTypeOK'
  BY <1>1, <1>2, <1>3 DEF MemTypeOK, KindCells
<1> QED BY <1>1, <1>4 DEF MemInv, PlaceOK, FiguresOK

LEMMA MemNextInv == MemInv /\ [MemNext]_memVars => MemInv'
<1> SUFFICES ASSUME MemInv, [MemNext]_memVars PROVE MemInv'
  OBVIOUS
<1>1. CASE Start
  BY <1>1, StartStep
<1>2. CASE ReadFigure
  BY <1>2, ReadFigureStep
<1>3. CASE PrintFigures
  BY <1>3, PrintStep
<1>4. ASSUME NEW k \in Kinds, NEW a \in KindCells(k), NEW b \in KindCells(k), Allocate(k, a, b)
      PROVE  MemInv'
  BY <1>4, AllocateStep
<1>5. ASSUME NEW k \in Kinds, NEW a \in KindCells(k), NEW b \in KindCells(k), Release(k, a, b)
      PROVE  MemInv'
  BY <1>5, ReleaseStep
<1>6. CASE UNCHANGED memVars
  <2>1. \A n \in 1..6 : AvailMem(ReadOrder[n])' = AvailMem(ReadOrder[n])
    BY <1>6, ValueStays DEF memVars, ReadOrder
  <2>2. 1..step \subseteq 1..6
    BY DEF MemInv, MemTypeOK
  <2>3. MemTypeOK' /\ PlaceOK'
    BY <1>6 DEF memVars, MemInv, MemTypeOK, KindCells, PlaceOK
  <2>4. FiguresOK'
    BY <1>6, <2>1, <2>2 DEF memVars, MemInv, FiguresOK, ReadOrder
  <2> QED BY <2>3, <2>4 DEF MemInv
<1> QED BY <1>1, <1>2, <1>3, <1>4, <1>5, <1>6 DEF MemNext

LEMMA MemInvariance == MemSpec => []MemInv
BY MemInitInv, MemNextInv, PTL DEF MemSpec

\* The state of the figures is what the model says it is.
THEOREM MemTypeCorrect == MemSpec => []MemTypeOK
<1>1. MemInv => MemTypeOK
  BY DEF MemInv
<1> QED BY <1>1, MemInvariance, PTL

LEMMA SmallRemainder ==
  ASSUME NEW m \in Nat, NEW x \in Nat, x < m
  PROVE  x % m = x
OBVIOUS

\* The six figures fit together as far as the calls between them allow:
\* ai_get_exec_info asks for the free memory before the largest piece, so only
\* memory freed in between can make a piece larger than what is free.
THEOREM FiguresAlwaysFit == MemSpec => []FiguresFit
<1>1. ASSUME MemInv PROVE FiguresFit
  <2> SUFFICES ASSUME pc = "print"
               PROVE  /\ ~released => \A g \in Groups : Fragmented(g) + Largest(g) = Free(g)
                      /\ ~changed =>
                           /\ Free("chip") + Free("fast") = Free("any")
                           /\ Max({Largest("chip"), Largest("fast")}) = Largest("any")
                           /\ \A k \in Kinds : (Free(k) = 0) = (Largest(k) = 0)
    BY DEF FiguresFit
  <2>1. MemTypeOK /\ step = 6 /\ FreeOK(free)
    BY <1>1, FreeIs DEF MemInv, PlaceOK
  <2>2. \A g \in Groups : Free(g) \in 0..Cells /\ Largest(g) \in 0..Cells
    <3>1. \A g \in Groups : Figure(g, "free") \in Figures /\ Figure(g, "largest") \in Figures
      BY DEF Figure, Figures
    <3> QED BY <2>1, <3>1 DEF MemTypeOK, Free, Largest
  <2>3. ASSUME ~released, NEW g \in Groups PROVE Fragmented(g) + Largest(g) = Free(g)
    <3>1. PICK n \in 4..6 : ReadOrder[n] = Figure(g, "largest") /\ ReadOrder[n - 3] = Figure(g, "free")
      BY OrderIs
    <3>2. Largest(g) <= Free(g)
      BY <1>1, <2>1, <2>3, <3>1 DEF MemInv, FiguresOK, Largest, Free
    <3>3. Free(g) - Largest(g) \in Nat /\ Free(g) - Largest(g) < LongModulus
      BY <2>2, <3>2 DEF Cells
    <3>4. Fragmented(g) = (Free(g) - Largest(g)) % LongModulus
      BY DEF Fragmented, Free, Largest
    <3>5. (Free(g) - Largest(g)) % LongModulus = Free(g) - Largest(g)
      BY <3>3, SmallRemainder
    <3> QED BY <2>2, <3>4, <3>5
  <2>4. ASSUME ~changed
        PROVE  /\ Free("chip") + Free("fast") = Free("any")
               /\ Max({Largest("chip"), Largest("fast")}) = Largest("any")
               /\ \A k \in Kinds : (Free(k) = 0) = (Largest(k) = 0)
    <3>1. ASSUME NEW g \in Groups
          PROVE  /\ Free(g) = AvailMem(Figure(g, "free"))
                 /\ Largest(g) = AvailMem(Figure(g, "largest"))
      <4>1. PICK n \in 4..6 : ReadOrder[n] = Figure(g, "largest") /\ ReadOrder[n - 3] = Figure(g, "free")
        BY OrderIs
      <4>2. n \in 1..step /\ n - 3 \in 1..step
        BY <2>1
      <4> QED BY <1>1, <2>4, <4>1, <4>2 DEF MemInv, FiguresOK, Largest, Free
    <3>2. /\ Free("chip") = Cardinality(free.chip) /\ Largest("chip") = LargestOf(free.chip)
          /\ Free("fast") = Cardinality(free.fast) /\ Largest("fast") = LargestOf(free.fast)
          /\ Free("any") = Cardinality(free.chip) + Cardinality(free.fast)
          /\ Largest("any") = Max({LargestOf(free.chip), LargestOf(free.fast)})
      <4>1. "chip" \in Groups /\ "fast" \in Groups /\ "any" \in Groups
        BY DEF Groups, Kinds
      <4>2. free["chip"] = free.chip /\ free["fast"] = free.fast
        OBVIOUS
      <4> QED BY <3>1, <4>1, <4>2, ValueIs
    <3>3. /\ Cardinality(free.chip) = 0 <=> LargestOf(free.chip) = 0
          /\ Cardinality(free.fast) = 0 <=> LargestOf(free.fast) = 0
      BY <2>1, LargestOfNone DEF FreeOK
    <3> QED BY <3>2, <3>3 DEF Kinds
  <2> QED BY <2>3, <2>4
<1> QED BY <1>1, MemInvariance, PTL
-----------------------------------------------------------------------------
HIDE MemAssumption DEF MemAssumption

(***************************************************************************)
(* Numbers as text, for any base.                                          *)
(***************************************************************************)
\* Induction: a set with 0 and with the successor of each of its members has
\* every natural number.
LEMMA Inductive ==
  ASSUME NEW S, 0 \in S, \A n \in Nat : n \in S => n + 1 \in S
  PROVE  \A n \in Nat : n \in S
<1> SUFFICES ASSUME NEW c \in Nat, c \notin S PROVE FALSE
  OBVIOUS
<1> DEFINE out == {n \in Nat : n \notin S}
<1>1. PICK m \in out : \A n \in out : m <= n
  <2>1. out \subseteq Nat /\ out # {}
    OBVIOUS
  <2> HIDE DEF out
  <2> QED BY <2>1, LeastNat
<1>2. m \in Nat /\ m # 0 /\ m - 1 \in Nat
  OBVIOUS
<1>3. m - 1 \in S
  BY <1>1, <1>2
<1>4. (m - 1) + 1 = m
  BY <1>2
<1> QED BY <1>2, <1>3, <1>4

\* What division by a positive number is.
LEMMA Division ==
  ASSUME NEW x \in Int, NEW w \in Nat \ {0}
  PROVE  /\ x \div w \in Int /\ x % w \in Nat /\ x % w < w
         /\ x = w * (x \div w) + (x % w)
OBVIOUS

\* There is only one quotient, and one remainder.
LEMMA DivisionUnique ==
  ASSUME NEW w \in Nat \ {0}, NEW q \in Int, NEW r \in Nat, r < w,
         NEW x \in Int, x = w * q + r
  PROVE  x \div w = q /\ x % w = r
<1> DEFINE p == x \div w
           s == x % w
<1>1. p \in Int /\ s \in Nat /\ s < w /\ x = w * p + s
  BY Division
<1> HIDE DEF p, s
<1>2. p < q \/ p = q \/ p > q
  BY <1>1
<1>3. ASSUME p < q PROVE FALSE
  <2>1. PICK k \in Nat : q = p + 1 + k
    <3>1. q - p - 1 \in Nat
      BY <1>1, <1>3
    <3> QED BY <1>1, <3>1
  <2>2. w * q = w * p + w + w * k
    BY <1>1, <2>1
  <2>3. w * k \in Nat /\ w * p \in Int
    BY <1>1
  <2> QED BY <1>1, <2>2, <2>3
<1>4. ASSUME p > q PROVE FALSE
  <2>1. PICK k \in Nat : p = q + 1 + k
    <3>1. p - q - 1 \in Nat
      BY <1>1, <1>4
    <3> QED BY <1>1, <3>1
  <2>2. w * p = w * q + w + w * k
    BY <1>1, <2>1
  <2>3. w * k \in Nat /\ w * q \in Int
    BY <1>1
  <2> QED BY <1>1, <2>2, <2>3
<1>5. p = q
  BY <1>2, <1>3, <1>4
<1>6. s = r
  <2>1. w * q \in Int
    OBVIOUS
  <2> QED BY <1>1, <1>5, <2>1
<1> QED BY <1>5, <1>6 DEF p, s

\* Remainders can be subtracted from each other.
LEMMA RemainderOfDifference ==
  ASSUME NEW a \in Int, NEW b \in Int, NEW w \in Nat \ {0}
  PROVE  ((a % w) - (b % w)) % w = (a - b) % w
<1> DEFINE x == (a % w) - (b % w)
           k == a \div w - b \div w
<1>1. /\ a \div w \in Int /\ a % w \in Nat /\ a = w * (a \div w) + (a % w)
      /\ b \div w \in Int /\ b % w \in Nat /\ b = w * (b \div w) + (b % w)
  BY Division
<1>2. x \in Int /\ k \in Int /\ a - b = w * k + x
  <2> DEFINE p == a \div w
             q == b \div w
             r == a % w
             s == b % w
  <2>1. p \in Int /\ q \in Int /\ r \in Nat /\ s \in Nat /\ a = w * p + r /\ b = w * q + s
    BY <1>1
  <2> HIDE DEF p, q, r, s
  <2>2. w * (p - q) = w * p - w * q /\ w * p \in Int /\ w * q \in Int
    BY <2>1
  <2>3. r - s \in Int /\ p - q \in Int /\ a - b = w * (p - q) + (r - s)
    BY <2>1, <2>2
  <2> QED BY <2>3 DEF p, q, r, s
<1> HIDE DEF x, k
<1>3. x \div w \in Int /\ x % w \in Nat /\ x % w < w /\ x = w * (x \div w) + (x % w)
  BY <1>2, Division
<1>4. a - b = w * (k + (x \div w)) + (x % w)
  <2> DEFINE p == x \div w
             r == x % w
  <2>1. p \in Int /\ r \in Nat /\ x = w * p + r
    BY <1>3
  <2> HIDE DEF p, r
  <2>2. w * (k + p) = w * k + w * p /\ w * k \in Int /\ w * p \in Int
    BY <1>2, <2>1
  <2> QED BY <1>2, <2>1, <2>2 DEF p, r
<1>5. (a - b) % w = x % w
  <2>1. k + (x \div w) \in Int /\ a - b \in Int
    BY <1>2, <1>3
  <2> QED BY <1>3, <1>4, <2>1, DivisionUnique
<1> QED BY <1>5 DEF x

-----------------------------------------------------------------------------
\* Two recursions that agree at 0, and at k if they agree before it, agree.
LEMMA Agreement ==
  ASSUME NEW L \in Nat, NEW g, NEW f, g[0] = f[0],
         \A k \in 1..L : g[k - 1] = f[k - 1] => g[k] = f[k]
  PROVE  g[L] = f[L]
<1> DEFINE S == {k \in Nat : k <= L => g[k] = f[k]}
<1>1. 0 \in S
  OBVIOUS
<1>2. ASSUME NEW k \in Nat, k \in S PROVE k + 1 \in S
  <2> SUFFICES ASSUME k + 1 <= L PROVE g[k + 1] = f[k + 1]
    OBVIOUS
  <2>1. k + 1 \in 1..L /\ (k + 1) - 1 = k /\ g[k] = f[k]
    BY <1>2
  <2> QED BY <2>1
<1> HIDE DEF S
<1>3. L \in S
  BY <1>1, <1>2, Inductive
<1> QED BY <1>3 DEF S

\* f solves a recursion up to N: it starts with b, and h gives each next value.
Solves(f, N, b, h) == f[0] = b /\ \A k \in 0..(N - 1) : f[k + 1] = h[<<k, f[k]>>]

\* A recursion on the naturals below a bound has a solution.
LEMMA Recursion ==
  ASSUME NEW V, NEW b \in V, NEW h \in [Nat \X V -> V]
  PROVE  \A N \in Nat : \E f \in [0..N -> V] : Solves(f, N, b, h)
<1> USE DEF Solves
<1> DEFINE S == {N \in Nat : \E f \in [0..N -> V] : Solves(f, N, b, h)}
<1>1. 0 \in S
  <2> DEFINE f == [k \in 0..0 |-> b]
  <2>1. f \in [0..0 -> V] /\ Solves(f, 0, b, h)
    OBVIOUS
  <2> QED BY <2>1
<1>2. ASSUME NEW N \in Nat, N \in S PROVE N + 1 \in S
  <2>1. PICK f \in [0..N -> V] : Solves(f, N, b, h)
    BY <1>2
  <2> DEFINE g == [k \in 0..(N + 1) |-> IF k <= N THEN f[k] ELSE h[<<N, f[N]>>]]
  <2>2. f[N] \in V /\ h[<<N, f[N]>>] \in V
    OBVIOUS
  <2>3. g \in [0..(N + 1) -> V]
    BY <2>2
  <2>4. g[0] = b
    BY <2>1
  <2>5. ASSUME NEW k \in 0..N PROVE g[k + 1] = h[<<k, g[k]>>]
    <3>1. k \in 0..(N + 1) /\ k + 1 \in 0..(N + 1) /\ g[k] = f[k]
      OBVIOUS
    <3>2. CASE k = N
      <4>1. ~(k + 1 <= N)
        BY <3>2
      <4> QED BY <3>1, <3>2, <4>1
    <3>3. CASE k # N
      <4>1. k \in 0..(N - 1) /\ k + 1 <= N
        BY <3>3
      <4> QED BY <2>1, <3>1, <4>1
    <3> QED BY <3>2, <3>3
  <2>6. (N + 1) - 1 = N
    OBVIOUS
  <2>7. Solves(g, N + 1, b, h)
    BY <2>4, <2>5, <2>6
  <2> HIDE DEF g
  <2> QED BY <2>3, <2>7
<1> HIDE DEF S
<1>3. \A N \in Nat : N \in S
  BY <1>1, <1>2, Inductive
<1> QED BY <1>3 DEF S

USE NumbersAssumption DEF NumbersAssumption

LEMMA PowerIs ==
  /\ Power[0] = 1
  /\ \A n \in Nat : Power[n] \in Nat \ {0} /\ Power[n + 1] = Base * Power[n]
<1> DEFINE V == Nat \ {0}
           h == [p \in Nat \X V |-> Base * p[2]]
           sol[N \in Nat] == CHOOSE f \in [0..N -> V] : Solves(f, N, 1, h)
           P == [n \in Nat |-> sol[n][n]]
<1>1. 1 \in V /\ h \in [Nat \X V -> V]
  <2>1. \A m \in V : Base * m \in V
    OBVIOUS
  <2> QED BY <2>1
<1>2. ASSUME NEW N \in Nat PROVE sol[N] \in [0..N -> V] /\ Solves(sol[N], N, 1, h)
  <2>1. \E f \in [0..N -> V] : Solves(f, N, 1, h)
    <3> HIDE DEF V, h
    <3>1. \A M \in Nat : \E f \in [0..M -> V] : Solves(f, M, 1, h)
      BY <1>1, Recursion
    <3> QED BY <3>1
  <2> QED BY <2>1
<1> HIDE DEF sol
\* Any two solutions agree where both are defined.
<1>3. ASSUME NEW N \in Nat PROVE sol[N + 1][N] = sol[N][N]
  <2> DEFINE f == sol[N]
             g == sol[N + 1]
             S == {k \in Nat : k <= N => f[k] = g[k]}
  <2>1. Solves(f, N, 1, h) /\ Solves(g, N + 1, 1, h)
    <3>1. N + 1 \in Nat
      OBVIOUS
    <3> QED BY <1>2, <3>1
  <2> HIDE DEF f, g
  <2>2. 0 \in S
    BY <2>1 DEF Solves
  <2>3. ASSUME NEW k \in Nat, k \in S PROVE k + 1 \in S
    <3> SUFFICES ASSUME k + 1 <= N PROVE f[k + 1] = g[k + 1]
      OBVIOUS
    <3>1. f[k] = g[k] /\ k \in 0..(N - 1) /\ k \in 0..((N + 1) - 1)
      BY <2>3
    <3> HIDE DEF h
    <3> QED BY <2>1, <3>1 DEF Solves
  <2> HIDE DEF S
  <2>4. N \in S
    BY <2>2, <2>3, Inductive
  <2> QED BY <2>4 DEF S, f, g
<1>4. P[0] = 1
  BY <1>2 DEF Solves
<1>5. ASSUME NEW n \in Nat PROVE P[n] \in V /\ P[n + 1] = Base * P[n]
  <2>1. P[n] \in V
    <3>1. sol[n] \in [0..n -> V] /\ n \in 0..n
      <4> HIDE DEF V, h
      <4> QED BY <1>2
    <3> HIDE DEF V
    <3> QED BY <3>1
  <2>2. P[n + 1] = h[<<n, sol[n + 1][n]>>]
    <3>1. n \in 0..((n + 1) - 1)
      OBVIOUS
    <3> HIDE DEF h
    <3> QED BY <1>2, <3>1 DEF Solves
  <2> QED BY <1>3, <2>1, <2>2
<1>6. P = [n \in Nat |-> IF n = 0 THEN 1 ELSE Base * P[n - 1]]
  <2>1. ASSUME NEW n \in Nat PROVE P[n] = IF n = 0 THEN 1 ELSE Base * P[n - 1]
    <3>1. CASE n # 0
      <4>1. n - 1 \in Nat /\ (n - 1) + 1 = n
        BY <3>1
      <4> HIDE DEF P
      <4> QED BY <1>5, <3>1, <4>1
    <3> QED BY <1>4, <3>1
  <2>2. P \in [Nat -> V] /\ DOMAIN P = Nat
    BY <1>5
  <2> HIDE DEF V
  <2> QED BY <2>1, <2>2
<1> HIDE DEF P
<1>7. Power = [n \in Nat |-> IF n = 0 THEN 1 ELSE Base * Power[n - 1]]
  BY <1>6 DEF Power
<1>8. Power[0] = 1 /\ \A n \in Nat : Power[n + 1] = Base * Power[n]
  <2>1. \A n \in Nat : n + 1 \in Nat /\ n + 1 # 0 /\ (n + 1) - 1 = n
    OBVIOUS
  <2> QED BY <1>7, <2>1
<1>9. ASSUME NEW n \in Nat, Power[n] \in V PROVE Power[n + 1] \in V
  <2>1. \A m \in V : Base * m \in V
    OBVIOUS
  <2> QED BY <1>8, <1>9, <2>1
<1>10. \A n \in Nat : Power[n] \in V
  <2> DEFINE S == {m \in Nat : Power[m] \in V}
  <2>1. 0 \in S /\ \A n \in Nat : n \in S => n + 1 \in S
    BY <1>8, <1>9
  <2> HIDE DEF S
  <2>2. \A n \in Nat : n \in S
    BY <2>1, Inductive
  <2> QED BY <2>2 DEF S
<1> QED BY <1>8, <1>10

-----------------------------------------------------------------------------
\* The weighted sum of a text, up to each of its digits.
LEMMA MeaningSum ==
  ASSUME NEW s \in Seq(Nat)
  PROVE  \E f \in [0..Len(s) -> Nat] :
           /\ f[0] = 0 /\ Meaning(s) = f[Len(s)]
           /\ \A k \in 1..Len(s) : f[k] = f[k - 1] + s[k] * Power[Len(s) - k]
<1> DEFINE L == Len(s)
           h == [p \in Nat \X Nat |->
                  IF p[1] < L THEN p[2] + s[p[1] + 1] * Power[L - (p[1] + 1)] ELSE 0]
<1>1. L \in Nat
  OBVIOUS
<1>2. ASSUME NEW k \in 1..L PROVE s[k] * Power[L - k] \in Nat
  <2>1. s[k] \in Nat /\ L - k \in Nat
    OBVIOUS
  <2>2. Power[L - k] \in Nat
    BY <2>1, PowerIs
  <2> QED BY <2>1, <2>2
<1>3. h \in [Nat \X Nat -> Nat]
  <2>1. ASSUME NEW n \in Nat, n < L PROVE s[n + 1] * Power[L - (n + 1)] \in Nat
    <3>1. n + 1 \in 1..L
      BY <1>1, <2>1
    <3> HIDE DEF L
    <3> QED BY <1>2, <3>1
  <2> DEFINE w(p) == IF p[1] < L THEN p[2] + s[p[1] + 1] * Power[L - (p[1] + 1)] ELSE 0
  <2>2. ASSUME NEW p \in Nat \X Nat PROVE w(p) \in Nat
    <3>1. p[1] \in Nat /\ p[2] \in Nat
      OBVIOUS
    <3>2. CASE p[1] < L
      <4> DEFINE x == s[p[1] + 1] * Power[L - (p[1] + 1)]
      <4>1. x \in Nat
        BY <2>1, <3>1, <3>2
      <4> HIDE DEF L, x
      <4>2. w(p) = p[2] + x
        BY <3>2 DEF x
      <4> HIDE DEF w
      <4> QED BY ONLY <3>1, <4>1, <4>2
    <3>3. CASE ~(p[1] < L)
      BY <3>3
    <3> QED BY <3>2, <3>3
  <2>3. h = [p \in Nat \X Nat |-> w(p)]
    OBVIOUS
  <2> HIDE DEF w, h
  <2> QED BY <2>2, <2>3
<1>4. PICK f \in [0..L -> Nat] : Solves(f, L, 0, h)
  <2>1. \A N \in Nat : \E f \in [0..N -> Nat] : Solves(f, N, 0, h)
    <3> HIDE DEF h
    <3> QED BY <1>3, Recursion
  <2> HIDE DEF h
  <2> QED BY <1>1, <2>1
<1>5. f[0] = 0
  BY <1>4 DEF Solves
<1>6. ASSUME NEW k \in 1..L PROVE f[k] = f[k - 1] + s[k] * Power[L - k]
  <2>1. k - 1 \in 0..(L - 1) /\ (k - 1) + 1 = k /\ k - 1 < L /\ k - 1 \in Nat
    BY <1>1
  <2>2. f[k] = h[<<k - 1, f[k - 1]>>]
    <3> HIDE DEF h
    <3> QED BY <1>4, <2>1 DEF Solves
  <2>3. f[k - 1] \in Nat
    <3>1. k - 1 \in 0..L
      BY <1>1, <2>1
    <3> HIDE DEF h, L
    <3> QED BY <1>4, <3>1
  <2> HIDE DEF L
  <2> QED BY <2>1, <2>2, <2>3
<1>7. f = [k \in 0..L |-> IF k = 0 THEN 0 ELSE f[k - 1] + s[k] * Power[L - k]]
  <2>1. \A k \in 0..L : k = 0 \/ k \in 1..L
    BY <1>1
  <2>2. \A k \in 0..L : f[k] = IF k = 0 THEN 0 ELSE f[k - 1] + s[k] * Power[L - k]
    BY <1>5, <1>6, <2>1
  <2> HIDE DEF L
  <2> QED BY <2>2
<1> DEFINE g == CHOOSE sum : sum = [k \in 0..L |->
                  IF k = 0 THEN 0 ELSE sum[k - 1] + s[k] * Power[L - k]]
<1>8. g = [k \in 0..L |-> IF k = 0 THEN 0 ELSE g[k - 1] + s[k] * Power[L - k]]
  BY <1>7
<1>9. Meaning(s) = g[L]
  BY DEF Meaning
<1> HIDE DEF g
\* Nothing but f solves it.
<1>10. f[L] = g[L]
  <2>1. 0 \in 0..L /\ \A k \in 1..L : k \in 0..L /\ k # 0
    BY <1>1
  <2> HIDE DEF h, L
  <2>2. f[0] = g[0] /\ \A k \in 1..L : f[k - 1] = g[k - 1] => f[k] = g[k]
    BY <1>5, <1>6, <1>8, <2>1
  <2> QED BY <1>1, <2>2, Agreement
<1> HIDE DEF h
<1> QED BY <1>5, <1>6, <1>9, <1>10

\* One more digit: the meaning so far times the base, and the digit.
LEMMA MeaningAppend ==
  ASSUME NEW t \in Seq(Nat), NEW d \in Nat
  PROVE  /\ Meaning(t) \in Nat
         /\ Meaning(Append(t, d)) = Meaning(t) * Base + d
<1> DEFINE L == Len(t)
           s == Append(t, d)
<1>1. L \in Nat /\ s \in Seq(Nat) /\ Len(s) = L + 1 /\ s[L + 1] = d /\ \A k \in 1..L : s[k] = t[k]
  OBVIOUS
<1>2. PICK f \in [0..L -> Nat] :
        /\ f[0] = 0 /\ Meaning(t) = f[L]
        /\ \A k \in 1..L : f[k] = f[k - 1] + t[k] * Power[L - k]
  BY MeaningSum
<1> HIDE DEF s
<1>3. PICK g \in [0..(L + 1) -> Nat] :
        /\ g[0] = 0 /\ Meaning(s) = g[L + 1]
        /\ \A k \in 1..(L + 1) : g[k] = g[k - 1] + s[k] * Power[(L + 1) - k]
  <2>1. \E g \in [0..Len(s) -> Nat] :
          /\ g[0] = 0 /\ Meaning(s) = g[Len(s)]
          /\ \A k \in 1..Len(s) : g[k] = g[k - 1] + s[k] * Power[Len(s) - k]
    BY <1>1, MeaningSum
  <2> HIDE DEF L
  <2> QED BY ONLY <1>1, <2>1
<1>4. \A k \in 1..L : t[k] \in Nat
  OBVIOUS
<1> HIDE DEF L
<1> DEFINE S == {k \in Nat : k <= L => g[k] = Base * f[k]}
<1>5. 0 \in S
  BY <1>2, <1>3
<1>6. ASSUME NEW k \in Nat, k \in S PROVE k + 1 \in S
  <2> SUFFICES ASSUME k + 1 <= L PROVE g[k + 1] = Base * f[k + 1]
    OBVIOUS
  <2>1. /\ k + 1 \in 1..L /\ k + 1 \in 1..(L + 1) /\ (k + 1) - 1 = k /\ g[k] = Base * f[k]
        /\ k \in 0..L
    BY <1>1, <1>6
  <2> DEFINE m == L - (k + 1)
  <2>2. m \in Nat /\ (L + 1) - (k + 1) = m + 1
    BY <1>1, <2>1
  <2>3. f[k + 1] = f[k] + t[k + 1] * Power[m]
    BY <1>2, <2>1
  <2>4. g[k + 1] = g[k] + t[k + 1] * Power[m + 1]
    BY <1>1, <1>3, <2>1, <2>2
  <2> HIDE DEF m
  <2>5. Power[m] \in Nat /\ Power[m + 1] = Base * Power[m]
    BY <2>2, PowerIs
  <2>6. f[k] \in Nat /\ t[k + 1] \in Nat
    BY <1>2, <1>4, <2>1
  <2>7. t[k + 1] * (Base * Power[m]) = Base * (t[k + 1] * Power[m])
    BY <2>5, <2>6
  <2>8. t[k + 1] * Power[m] \in Nat
    BY <2>5, <2>6
  <2>9. Base * (f[k] + t[k + 1] * Power[m]) = Base * f[k] + Base * (t[k + 1] * Power[m])
    BY <2>6, <2>8
  <2> QED BY <2>1, <2>3, <2>4, <2>5, <2>7, <2>9
<1>7. g[L] = Base * f[L]
  <2>1. L \in S
    <3> HIDE DEF S
    <3> QED BY <1>1, <1>5, <1>6, Inductive
  <2> QED BY <1>1, <2>1
<1>8. Meaning(s) = g[L] + d
  <2>1. L + 1 \in 1..(L + 1) /\ (L + 1) - 1 = L /\ (L + 1) - (L + 1) = 0
    <3>1. L \in Nat
      BY <1>1
    <3> QED BY ONLY <3>1
  <2>2. d * 1 = d
    OBVIOUS
  <2>3. g[L + 1] = g[L] + s[L + 1] * Power[0]
    <3>1. g[L + 1] = g[(L + 1) - 1] + s[L + 1] * Power[(L + 1) - (L + 1)]
      BY <1>3, <2>1
    <3> QED BY <2>1, <3>1
  <2> QED BY <1>1, <1>3, <2>2, <2>3, PowerIs
<1>9. f[L] \in Nat
  BY <1>1, <1>2
<1> QED BY <1>2, <1>7, <1>8, <1>9 DEF s

\* The meanings of the empty text and of a text of one digit.
LEMMA MeaningShort ==
  /\ Meaning(<<>>) = 0
  /\ \A d \in Nat : Meaning(<<d>>) = d
<1>1. Meaning(<<>>) = 0
  <2>1. <<>> \in Seq(Nat) /\ Len(<<>>) = 0
    OBVIOUS
  <2>2. \E f \in [0..0 -> Nat] : f[0] = 0 /\ Meaning(<<>>) = f[0]
    BY <2>1, MeaningSum
  <2> QED BY <2>2
<1>2. ASSUME NEW d \in Nat PROVE Meaning(<<d>>) = d
  <2>1. <<>> \in Seq(Nat) /\ Append(<<>>, d) = <<d>>
    OBVIOUS
  <2>2. Meaning(Append(<<>>, d)) = Meaning(<<>>) * Base + d
    BY <2>1, MeaningAppend
  <2> QED BY <1>1, <2>1, <2>2
<1> QED BY <1>1, <1>2

-----------------------------------------------------------------------------
\* One step of ai_put_u32: the digits of the quotient, then the remainder.
NextText(t, n) == IF n < Base THEN <<n>> ELSE Append(t[n \div Base], n % Base)

LEMMA QuotientIs ==
  ASSUME NEW n \in Nat
  PROVE  /\ n \div Base \in Nat /\ n % Base \in Digits
         /\ n = (n \div Base) * Base + (n % Base)
         /\ n >= Base => n \div Base < n /\ n \div Base # 0
<1> DEFINE q == n \div Base
           r == n % Base
<1>1. q \in Int /\ r \in Nat /\ r < Base /\ n = Base * q + r
  <2>1. Base \in Nat \ {0} /\ n \in Int
    OBVIOUS
  <2>2. /\ n \div Base \in Int /\ n % Base \in Nat /\ n % Base < Base
        /\ n = Base * (n \div Base) + (n % Base)
    BY ONLY <2>1, Division
  <2> QED BY ONLY <2>2
<1> HIDE DEF q, r
<1>2. q \in Nat
  <2> SUFFICES ASSUME q < 0 PROVE FALSE
    BY <1>1
  <2>1. PICK k \in Nat : q = -1 - k
    <3>1. -1 - q \in Nat
      BY <1>1
    <3> QED BY <1>1, <3>1
  <2>2. Base * q = -Base - Base * k /\ Base * k \in Nat
    BY <2>1
  <2> QED BY <1>1, <2>2
<1>3. n >= Base => q < n /\ q # 0
  <2> SUFFICES ASSUME n >= Base PROVE q < n /\ q # 0
    OBVIOUS
  <2>1. q # 0
    <3> SUFFICES ASSUME q = 0 PROVE FALSE
      OBVIOUS
    <3>1. Base * q = 0
      OBVIOUS
    <3> QED BY <1>1, <3>1
  <2>2. PICK c \in Nat : Base = 2 + c
    <3>1. Base - 2 \in Nat
      OBVIOUS
    <3> QED BY <3>1
  <2>3. Base * q = q + q + c * q /\ c * q \in Nat
    BY <1>2, <2>2
  <2> QED BY <1>1, <1>2, <2>1, <2>3
<1>4. Base * q = q * Base
  BY <1>1
<1> QED BY <1>1, <1>2, <1>3, <1>4 DEF q, r, Digits

\* ai_put_u32 finds a text for every number below its argument.
LEMMA TextsExist ==
  \A N \in Nat : \E t \in [0..N -> Seq(Digits)] : \A n \in 0..N : t[n] = NextText(t, n)
<1> DEFINE S == {N \in Nat : \E t \in [0..N -> Seq(Digits)] :
                               \A n \in 0..N : t[n] = NextText(t, n)}
<1>1. 0 \in S
  <2> DEFINE t == [n \in 0..0 |-> <<0>>]
  <2>1. 0 \in Digits /\ <<0>> \in Seq(Digits)
    BY DEF Digits
  <2>2. t \in [0..0 -> Seq(Digits)] /\ \A n \in 0..0 : t[n] = NextText(t, n)
    BY <2>1 DEF NextText
  <2> QED BY <2>2
<1>2. ASSUME NEW N \in Nat, N \in S PROVE N + 1 \in S
  <2>1. PICK t \in [0..N -> Seq(Digits)] : \A n \in 0..N : t[n] = NextText(t, n)
    BY <1>2
  <2> DEFINE u == [n \in 0..(N + 1) |-> IF n <= N THEN t[n] ELSE NextText(t, N + 1)]
  <2>2. NextText(t, N + 1) \in Seq(Digits)
    <3>1. CASE N + 1 < Base
      BY <3>1 DEF NextText, Digits
    <3>2. CASE ~(N + 1 < Base)
      <4>1. /\ (N + 1) \div Base \in Nat /\ (N + 1) % Base \in Digits
            /\ (N + 1) \div Base < N + 1
        BY <3>2, QuotientIs
      <4>2. (N + 1) \div Base \in 0..N
        BY <4>1
      <4>3. t[(N + 1) \div Base] \in Seq(Digits)
        BY <4>2
      <4>4. Append(t[(N + 1) \div Base], (N + 1) % Base) \in Seq(Digits)
        BY <4>1, <4>3, AppendProperties
      <4> QED BY <3>2, <4>4 DEF NextText
    <3> QED BY <3>1, <3>2
  <2>3. u \in [0..(N + 1) -> Seq(Digits)]
    BY <2>2
  <2>4. ASSUME NEW n \in 0..(N + 1) PROVE u[n] = NextText(u, n)
    <3>1. u[n] = NextText(t, n)
      BY <2>1
    <3>2. NextText(t, n) = NextText(u, n)
      <4>1. CASE n < Base
        BY <4>1 DEF NextText
      <4>2. CASE ~(n < Base)
        <5>1. n \div Base \in Nat /\ n \div Base < n
          BY <4>2, QuotientIs
        <5>2. n \div Base \in 0..(N + 1) /\ n \div Base <= N
          BY <5>1
        <5>3. u[n \div Base] = t[n \div Base]
          BY <5>2
        <5> HIDE DEF u
        <5> QED BY <4>2, <5>3 DEF NextText
      <4> QED BY <4>1, <4>2
    <3> QED BY <3>1, <3>2
  <2>5. \E x \in [0..(N + 1) -> Seq(Digits)] : \A n \in 0..(N + 1) : x[n] = NextText(x, n)
    <3> HIDE DEF u
    <3> QED BY <2>3, <2>4
  <2>6. N + 1 \in Nat
    OBVIOUS
  <2> QED BY <2>5, <2>6, Zenon
<1> HIDE DEF S
<1>3. \A N \in Nat : N \in S
  BY <1>1, <1>2, Inductive
<1> QED BY <1>3 DEF S

\* What ai_put_u32 writes is a numeral that means the number, and it is no longer
\* than the number needs.
THEOREM TextIs ==
  ASSUME NEW v \in Nat
  PROVE  /\ PutU32(v) \in Seq(Digits) /\ PutU32(v) # <<>>
         /\ Meaning(PutU32(v)) = v
         /\ \A m \in Nat \ {0} : v < Power[m] => Len(PutU32(v)) <= m
<1>1. PICK t \in [0..v -> Seq(Digits)] : \A n \in 0..v : t[n] = NextText(t, n)
  BY TextsExist
<1>2. t = [n \in 0..v |-> IF n < Base THEN <<n>> ELSE Append(t[n \div Base], n % Base)]
  BY <1>1 DEF NextText
<1> DEFINE g == CHOOSE text : text = [n \in 0..v |->
                  IF n < Base THEN <<n>> ELSE Append(text[n \div Base], n % Base)]
<1>3. g = [n \in 0..v |-> IF n < Base THEN <<n>> ELSE Append(g[n \div Base], n % Base)]
  BY <1>2
<1>4. PutU32(v) = g[v]
  BY DEF PutU32
<1> HIDE DEF g
<1>5. \A n \in 0..v : g[n] = IF n < Base THEN <<n>> ELSE Append(g[n \div Base], n % Base)
  BY <1>3
<1> DEFINE Good(n) == /\ g[n] \in Seq(Digits) /\ g[n] # <<>>
                      /\ Meaning(g[n]) = n
                      /\ \A m \in Nat \ {0} : n < Power[m] => Len(g[n]) <= m
<1>6. ASSUME NEW n \in 0..v, \A k \in 0..v : k < n => Good(k)
      PROVE  Good(n)
  <2>1. CASE n < Base
    <3>0. g[n] = <<n>>
      BY <1>5, <2>1
    <3>1. g[n] = <<n>> /\ n \in Digits
      BY <2>1, <3>0 DEF Digits
    <3>2. /\ <<n>> \in Seq(Digits) /\ <<n>> # <<>> /\ Len(<<n>>) = 1
          /\ \A m \in Nat \ {0} : 1 <= m
      BY <3>1
    <3> QED BY <3>1, <3>2, MeaningShort
  <2>2. CASE ~(n < Base)
    <3> DEFINE q == n \div Base
               d == n % Base
    <3>1. q \in Nat /\ d \in Digits /\ n = q * Base + d /\ q < n /\ q # 0
      <4>1. n \in Nat /\ n >= Base
        BY <2>2
      <4> HIDE DEF Good
      <4> QED BY <4>1, QuotientIs
    <3>2. g[n] = Append(g[q], d)
      BY <1>5, <2>2
    <3> HIDE DEF q, d
    <3>3. q \in 0..v
      BY <3>1
    <3>4. Good(q)
      BY <1>6, <3>1, <3>3
    <3>5. /\ g[n] \in Seq(Digits) /\ g[n] # <<>> /\ Len(g[n]) = Len(g[q]) + 1
      <4>1. g[q] \in Seq(Digits) /\ d \in Digits
        BY <3>1, <3>4
      <4> DEFINE u == g[q]
      <4>2. u \in Seq(Digits) /\ d \in Digits
        BY ONLY <4>1
      <4> HIDE DEF u
      <4>3. /\ Append(u, d) \in Seq(Digits) /\ Append(u, d) # <<>>
            /\ Len(Append(u, d)) = Len(u) + 1
        BY ONLY <4>2, AppendProperties
      <4> QED BY ONLY <3>2, <4>3, Zenon DEF u
    <3>6. Meaning(g[n]) = n
      <4>1. g[q] \in Seq(Nat) /\ d \in Nat
        <5>1. g[q] \in Seq(Digits) /\ d \in Digits
          BY <3>1, <3>4
        <5>2. Digits \subseteq Nat
          BY DEF Digits
        <5> QED BY ONLY <5>1, <5>2
      <4>2. Meaning(g[n]) = Meaning(g[q]) * Base + d
        BY <3>2, <4>1, MeaningAppend
      <4> QED BY <3>1, <3>4, <4>2
    <3>7. ASSUME NEW m \in Nat \ {0}, n < Power[m] PROVE Len(g[n]) <= m
      <4> DEFINE j == m - 1
      <4>1. j \in Nat /\ j + 1 = m
        OBVIOUS
      <4> HIDE DEF j
      <4>2. Power[m] = Base * Power[j] /\ Power[j] \in Nat \ {0}
        BY <4>1, PowerIs
      <4>3. q < Power[j]
        <5>1. PICK p \in Nat \ {0} : p = Power[j] /\ Power[m] = Base * p
          BY <4>2
        <5>2. d \in Nat
          BY <3>1 DEF Digits
        <5>3. q * Base + d < Base * p
          BY <3>1, <3>7, <5>1
        <5> SUFFICES ASSUME ~(q < p) PROVE FALSE
          BY <5>1
        <5>4. q - p \in Nat /\ q = p + (q - p)
          <6>1. q \in Nat /\ p \in Nat
            BY <3>1, <5>1
          <6> QED BY ONLY <6>1, ~(q < p)
        <5>5. PICK c \in Nat : q = p + c
          BY ONLY <5>4
        <5>6. q * Base = Base * p + c * Base /\ c * Base \in Nat /\ Base * p \in Nat
          <6>1. Base \in Nat /\ p \in Nat /\ c \in Nat
            OBVIOUS
          <6>2. q * Base = (p + c) * Base
            BY <5>5
          <6>3. (p + c) * Base = Base * p + c * Base
            BY ONLY <6>1
          <6> QED BY ONLY <6>1, <6>2, <6>3
        <5> QED BY ONLY <5>2, <5>3, <5>6
      <4>4. j # 0
        <5> SUFFICES ASSUME j = 0 PROVE FALSE
          OBVIOUS
        <5>1. q < 1
          BY <4>3, PowerIs
        <5> QED BY ONLY <3>1, <5>1
      <4>5. Len(g[q]) <= j
        BY <3>4, <4>1, <4>3, <4>4
      <4>6. Len(g[q]) \in Nat
        BY <3>4
      <4> QED BY <3>5, <4>1, <4>5, <4>6
    <3> QED BY <3>5, <3>6, <3>7
  <2> QED BY <2>1, <2>2
<1> HIDE DEF Good
<1>7. Good(v)
  <2> SUFFICES ASSUME ~Good(v) PROVE FALSE
    OBVIOUS
  <2> DEFINE bad == {n \in 0..v : ~Good(n)}
  <2>1. bad \subseteq Nat /\ bad # {}
    <3>1. 0..v \subseteq Nat /\ v \in 0..v
      OBVIOUS
    <3> QED BY <3>1, Zenon
  <2>2. PICK n \in bad : \A k \in bad : n <= k
    <3> HIDE DEF bad
    <3> QED BY <2>1, LeastNat
  <2>3. \A k \in 0..v : k < n => Good(k)
    BY <2>2
  <2> QED BY <1>6, <2>2, <2>3
<1> QED BY <1>4, <1>7 DEF Good

-----------------------------------------------------------------------------
\* What the first k digits mean.
Prefix(s, k) == Meaning(SubSeq(s, 1, k))

LEMMA PrefixIs ==
  ASSUME NEW s \in Seq(Nat)
  PROVE  /\ Prefix(s, 0) = 0 /\ Prefix(s, Len(s)) = Meaning(s)
         /\ \A k \in 0..Len(s) : Prefix(s, k) \in Nat
         /\ \A k \in 1..Len(s) : Prefix(s, k) = Prefix(s, k - 1) * Base + s[k]
<1>1. SubSeq(s, 1, 0) = <<>> /\ SubSeq(s, 1, Len(s)) = s
  OBVIOUS
<1>2. ASSUME NEW k \in 0..Len(s)
      PROVE  SubSeq(s, 1, k) \in Seq(Nat) /\ Len(SubSeq(s, 1, k)) = k
  <2>1. /\ k \in Nat /\ k <= Len(s) /\ k - 1 + 1 = k
        /\ 1 \in 1..(Len(s) + 1) /\ k \in 0..Len(s)
    OBVIOUS
  <2> QED BY <2>1, SubSeqProperties
<1>3. ASSUME NEW k \in 1..Len(s)
      PROVE  SubSeq(s, 1, k) = Append(SubSeq(s, 1, k - 1), s[k])
  <2>1. k - 1 \in 0..Len(s) /\ k \in 0..Len(s) /\ (k - 1) + 1 = k /\ s[k] \in Nat
    OBVIOUS
  <2>2. SubSeq(s, 1, k - 1) \in Seq(Nat) /\ Len(SubSeq(s, 1, k - 1)) = k - 1
    BY <1>2, <2>1
  <2> DEFINE t == SubSeq(s, 1, k - 1)
             u == Append(t, s[k])
  <2>3. u \in Seq(Nat) /\ Len(u) = k /\ u[k] = s[k] /\ \A j \in 1..(k - 1) : u[j] = t[j]
    <3>1. t \in Seq(Nat) /\ Len(t) = k - 1 /\ s[k] \in Nat /\ (k - 1) + 1 = k
      BY <2>1, <2>2
    <3> HIDE DEF t
    <3> QED BY ONLY <3>1, AppendProperties
  <2>4. \A j \in 1..(k - 1) : t[j] = s[j]
    BY <2>1
  <2>5. \A j \in 1..k : SubSeq(s, 1, k)[j] = s[j]
    OBVIOUS
  <2>6. \A j \in 1..k : SubSeq(s, 1, k)[j] = u[j]
    <3>1. \A j \in 1..k : j = k \/ j \in 1..(k - 1)
      OBVIOUS
    <3> HIDE DEF t, u
    <3> QED BY <2>3, <2>4, <2>5, <3>1
  <2>7. SubSeq(s, 1, k) \in Seq(Nat) /\ Len(SubSeq(s, 1, k)) = k
    BY <1>2, <2>1
  <2> HIDE DEF t, u
  <2>8. SubSeq(s, 1, k) = u
    BY <2>3, <2>6, <2>7, SeqEqual
  <2> QED BY <2>8 DEF t, u
<1>4. \A k \in 0..Len(s) : Prefix(s, k) \in Nat
  BY <1>2, MeaningAppend DEF Prefix
<1>5. ASSUME NEW k \in 1..Len(s) PROVE Prefix(s, k) = Prefix(s, k - 1) * Base + s[k]
  <2>1. k - 1 \in 0..Len(s) /\ s[k] \in Nat
    OBVIOUS
  <2>2. SubSeq(s, 1, k - 1) \in Seq(Nat)
    BY <1>2, <2>1
  <2> QED BY <1>3, <2>1, <2>2, MeaningAppend DEF Prefix
<1> QED BY <1>1, <1>4, <1>5, MeaningShort DEF Prefix

\* The value of the first k digits, as long as it is at most max.
Limited(s, k, max) ==
  IF (\A j \in 1..k : s[j] \in Digits) /\ Prefix(s, k) <= max THEN Prefix(s, k) ELSE NotANumber

\* A value that is too large stays so, whatever digits follow.
LEMMA LimitedStep ==
  ASSUME NEW s \in Seq(0..Base), NEW max \in Nat
  PROVE  /\ Limited(s, 0, max) = 0
         /\ \A k \in 1..Len(s) :
              /\ s[k] \in Nat /\ Limited(s, k - 1, max) \in Nat \cup {NotANumber}
              /\ Limited(s, k, max) =
                   IF Limited(s, k - 1, max) = NotANumber \/ s[k] \notin Digits THEN NotANumber
                   ELSE IF Limited(s, k - 1, max) * Base + s[k] > max THEN NotANumber
                   ELSE Limited(s, k - 1, max) * Base + s[k]
<1>0. s \in Seq(Nat)
  <2>1. 0..Base \subseteq Nat
    OBVIOUS
  <2> QED BY <2>1
<1>1. Limited(s, 0, max) = 0
  BY <1>0, PrefixIs DEF Limited
<1>2. ASSUME NEW k \in 1..Len(s)
      PROVE  /\ s[k] \in Nat /\ Limited(s, k - 1, max) \in Nat \cup {NotANumber}
             /\ Limited(s, k, max) =
                  IF Limited(s, k - 1, max) = NotANumber \/ s[k] \notin Digits THEN NotANumber
                  ELSE IF Limited(s, k - 1, max) * Base + s[k] > max THEN NotANumber
                  ELSE Limited(s, k - 1, max) * Base + s[k]
  <2> DEFINE m == Prefix(s, k - 1)
             n == Prefix(s, k)
             d == s[k]
             all == \A j \in 1..(k - 1) : s[j] \in Digits
  <2>1. m \in Nat /\ n \in Nat /\ d \in Nat /\ n = m * Base + d
    <3>1. k \in 0..Len(s) /\ k - 1 \in 0..Len(s) /\ s[k] \in Nat
      BY <1>0
    <3> QED BY <1>0, <3>1, PrefixIs
  <2>2. (\A j \in 1..k : s[j] \in Digits) <=> all /\ d \in Digits
    <3>1. k \in 1..k /\ \A j \in 1..k : j = k \/ j \in 1..(k - 1)
      OBVIOUS
    <3>2. \A j \in 1..(k - 1) : j \in 1..k
      OBVIOUS
    <3> QED BY <3>1, <3>2
  <2>3. m <= m * Base
    <3>1. PICK c \in Nat : Base = 1 + c
      <4>1. Base - 1 \in Nat
        OBVIOUS
      <4>2. Base = 1 + (Base - 1)
        OBVIOUS
      <4> QED BY ONLY <4>1, <4>2
    <3> HIDE DEF m
    <3>2. m * (1 + c) = m + m * c /\ m * c \in Nat
      BY <2>1
    <3> QED BY <2>1, <3>1, <3>2
  <2>4. Limited(s, k - 1, max) = IF all /\ m <= max THEN m ELSE NotANumber
    BY DEF Limited
  <2>5. Limited(s, k, max) = IF all /\ d \in Digits /\ n <= max THEN n ELSE NotANumber
    BY <2>2 DEF Limited
  <2>6. NotANumber \notin Nat
    BY DEF NotANumber
  <2> HIDE DEF m, n, d, all
  <2>7. m * Base \in Nat
    BY <2>1
  <2>8. n <= max => m <= max
    BY <2>1, <2>3, <2>7
  <2>9. s[k] = d
    BY DEF d
  <2>10. (m * Base + d > max) <=> ~(n <= max)
    BY <2>1
  <2> QED BY <2>1, <2>4, <2>5, <2>6, <2>8, <2>9, <2>10
<1> QED BY <1>1, <1>2

\* parse_ticks: the number that the text means, when it is one within its limit.
THEOREM ParseTicksIs ==
  ASSUME NEW s \in Seq(0..Base)
  PROVE  ParseTicks(s) = IF IsNumeral(s) /\ Meaning(s) <= MaxRequest THEN Meaning(s)
                         ELSE NotANumber
<1> DEFINE L == Len(s)
           f == [k \in 0..L |-> Limited(s, k, MaxRequest)]
           Next1(v, k) == IF v = NotANumber \/ s[k] \notin Digits THEN NotANumber
                          ELSE IF v * Base + s[k] > MaxRequest THEN NotANumber ELSE v * Base + s[k]
           g == CHOOSE val : val = [k \in 0..L |-> IF k = 0 THEN 0 ELSE
                  IF val[k - 1] = NotANumber \/ s[k] \notin Digits THEN NotANumber
                  ELSE IF val[k - 1] * Base + s[k] > MaxRequest THEN NotANumber
                       ELSE val[k - 1] * Base + s[k]]
<1>1. L \in Nat
  OBVIOUS
<1>2. f[0] = 0 /\ \A k \in 1..L : f[k] = Next1(f[k - 1], k)
  <2>1. /\ Limited(s, 0, MaxRequest) = 0
        /\ \A k \in 1..L : Limited(s, k, MaxRequest) = Next1(Limited(s, k - 1, MaxRequest), k)
    BY LimitedStep
  <2>2. 0 \in 0..L /\ \A k \in 1..L : k \in 0..L /\ k - 1 \in 0..L
    BY <1>1
  <2> HIDE DEF L, Next1
  <2> QED BY <2>1, <2>2
<1>3. \A k \in 0..L : k = 0 \/ k \in 1..L
  BY <1>1
<1>4. f = [k \in 0..L |-> IF k = 0 THEN 0 ELSE Next1(f[k - 1], k)]
  <2>1. \A k \in 0..L : f[k] = IF k = 0 THEN 0 ELSE Next1(f[k - 1], k)
    <3> HIDE DEF f, Next1, L
    <3> QED BY <1>2, <1>3
  <2>2. DOMAIN f = 0..L /\ f = [k \in 0..L |-> f[k]]
    OBVIOUS
  <2> HIDE DEF f, Next1, L
  <2> QED BY <2>1, <2>2
<1>5. g = [k \in 0..L |-> IF k = 0 THEN 0 ELSE Next1(g[k - 1], k)]
  <2> HIDE DEF f, L
  <2> QED BY <1>4
<1>6. ParseTicks(s) = IF s = <<>> THEN NotANumber ELSE g[L]
  BY DEF ParseTicks, Scan
<1> HIDE DEF g
<1>7. g[L] = f[L]
  <2>1. 0 \in 0..L /\ \A k \in 1..L : k \in 0..L /\ k # 0
    BY <1>1
  <2> HIDE DEF f, Next1, L
  <2>2. g[0] = f[0] /\ \A k \in 1..L : g[k - 1] = f[k - 1] => g[k] = f[k]
    BY <1>2, <1>5, <2>1
  <2> QED BY <1>1, <2>2, Agreement
<1>8. f[L] = Limited(s, L, MaxRequest)
  BY <1>1
<1>9. s \in Seq(Nat) /\ DOMAIN s = 1..L
  <2>1. 0..Base \subseteq Nat
    OBVIOUS
  <2> QED BY <2>1
<1>10. Prefix(s, L) = Meaning(s)
  BY <1>9, PrefixIs
<1> HIDE DEF L, f
<1>11. CASE s = <<>>
  BY <1>6, <1>11 DEF IsNumeral
<1>12. CASE s # <<>>
  BY <1>6, <1>7, <1>8, <1>9, <1>10, <1>12 DEF IsNumeral, Limited
<1> QED BY <1>11, <1>12

\* The test of parse_loops: one digit more would exceed the limit.
LEMMA LoopsTest ==
  ASSUME NEW v \in Nat, NEW d \in Digits
  PROVE  v > (MaxLoops - d) \div Base <=> v * Base + d > MaxLoops
<1>1. d \in Nat /\ d < Base /\ Base \in Nat \ {0} /\ MaxLoops \in Nat
  BY DEF Digits
<1> DEFINE x == MaxLoops - d
           q == x \div Base
           r == x % Base
<1>2. x \in Int /\ MaxLoops = x + d
  BY <1>1
<1>3. q \in Int /\ r \in Nat /\ r < Base /\ x = Base * q + r
  <2> HIDE DEF x
  <2>1. /\ x \div Base \in Int /\ x % Base \in Nat /\ x % Base < Base
        /\ x = Base * (x \div Base) + (x % Base)
    BY ONLY <1>1, <1>2, Division
  <2> QED BY ONLY <2>1
<1>4. CASE v > q
  <2> HIDE DEF x, q, r
  <2>1. v - q - 1 \in Nat /\ v = q + 1 + (v - q - 1)
    BY ONLY <1>3, <1>4, v \in Nat
  <2>2. PICK c \in Nat : v = q + 1 + c
    BY ONLY <2>1
  <2>3. (q + 1 + c) * Base = Base * q + Base + c * Base /\ c * Base \in Nat /\ Base * q \in Int
    BY ONLY <1>1, <1>3, c \in Nat
  <2>4. v * Base = Base * q + Base + c * Base
    BY ONLY <2>2, <2>3
  <2>5. v * Base + d > MaxLoops
    BY ONLY <1>1, <1>2, <1>3, <2>3, <2>4
  <2> QED BY <1>4, <2>5 DEF q, x
<1>5. CASE ~(v > q)
  <2> HIDE DEF x, q, r
  <2>1. q - v \in Nat /\ q = v + (q - v)
    BY ONLY <1>3, <1>5, v \in Nat
  <2>2. PICK c \in Nat : q = v + c
    BY ONLY <2>1
  <2>3. Base * (v + c) = v * Base + Base * c /\ Base * c \in Nat /\ v * Base \in Nat
    BY ONLY <1>1, c \in Nat, v \in Nat
  <2>4. Base * q = v * Base + Base * c
    BY ONLY <2>2, <2>3
  <2>5. ~(v * Base + d > MaxLoops)
    BY ONLY <1>1, <1>2, <1>3, <2>3, <2>4
  <2> QED BY <1>5, <2>5 DEF q, x
<1> QED BY <1>4, <1>5

\* parse_loops: the same, and it is not 0; the value never wraps around.
THEOREM ParseLoopsIs ==
  ASSUME NEW s \in Seq(0..Base)
  PROVE  ParseLoops(s) = IF IsNumeral(s) /\ Meaning(s) \in 1..MaxLoops THEN Meaning(s)
                         ELSE NotANumber
<1> DEFINE L == Len(s)
           f == [k \in 0..L |-> Limited(s, k, MaxLoops)]
           Next1(v, k) == IF v = NotANumber \/ s[k] \notin Digits THEN NotANumber
                          ELSE IF v > (MaxLoops - s[k]) \div Base THEN NotANumber
                          ELSE (v * Base + s[k]) % WordModulus
           g == CHOOSE val : val = [k \in 0..L |-> IF k = 0 THEN 0 ELSE
                  IF val[k - 1] = NotANumber \/ s[k] \notin Digits THEN NotANumber
                  ELSE IF val[k - 1] > (MaxLoops - s[k]) \div Base THEN NotANumber
                       ELSE (val[k - 1] * Base + s[k]) % WordModulus]
<1>1. L \in Nat
  OBVIOUS
<1>2. f[0] = 0 /\ \A k \in 1..L : f[k] = Next1(f[k - 1], k)
  <2>1. /\ Limited(s, 0, MaxLoops) = 0
        /\ \A k \in 1..L : Limited(s, k, MaxLoops) = Next1(Limited(s, k - 1, MaxLoops), k)
    <3>1. Limited(s, 0, MaxLoops) = 0
      BY LimitedStep
    <3>2. ASSUME NEW k \in 1..L PROVE Limited(s, k, MaxLoops) = Next1(Limited(s, k - 1, MaxLoops), k)
      <4> DEFINE v == Limited(s, k - 1, MaxLoops)
                 w == Limited(s, k, MaxLoops)
                 d == s[k]
      <4>1. /\ d \in Nat /\ v \in Nat \cup {NotANumber}
            /\ w = IF v = NotANumber \/ d \notin Digits THEN NotANumber
                   ELSE IF v * Base + d > MaxLoops THEN NotANumber ELSE v * Base + d
        BY LimitedStep
      <4>2. Next1(v, k) = IF v = NotANumber \/ d \notin Digits THEN NotANumber
                          ELSE IF v > (MaxLoops - d) \div Base THEN NotANumber
                          ELSE (v * Base + d) % WordModulus
        OBVIOUS
      <4> HIDE DEF v, w, d, Next1, L
      <4>3. CASE v = NotANumber \/ d \notin Digits
        BY <4>1, <4>2, <4>3 DEF v, w
      <4>4. CASE ~(v = NotANumber \/ d \notin Digits)
        <5>1. v \in Nat /\ d \in Digits
          BY <4>1, <4>4
        <5>2. v > (MaxLoops - d) \div Base <=> v * Base + d > MaxLoops
          BY <5>1, LoopsTest
        <5>3. ASSUME ~(v * Base + d > MaxLoops) PROVE (v * Base + d) % WordModulus = v * Base + d
          <6> DEFINE x == v * Base + d
          <6>1. x \in Nat
            BY <4>1, <5>1
          <6>2. x < WordModulus
            <7> HIDE DEF x
            <7> QED BY <5>3, <6>1 DEF x
          <6> HIDE DEF x
          <6>3. x % WordModulus = x
            BY <6>1, <6>2, DivisionUnique
          <6> QED BY <6>3 DEF x
        <5>4. w = Next1(v, k)
          BY <4>1, <4>2, <4>4, <5>2, <5>3, Zenon
        <5> QED BY <5>4 DEF v, w
      <4> QED BY <4>3, <4>4
    <3> QED BY <3>1, <3>2
  <2>2. 0 \in 0..L /\ \A k \in 1..L : k \in 0..L /\ k - 1 \in 0..L
    BY <1>1
  <2> HIDE DEF L, Next1
  <2> QED BY <2>1, <2>2
<1>3. \A k \in 0..L : k = 0 \/ k \in 1..L
  BY <1>1
<1>4. f = [k \in 0..L |-> IF k = 0 THEN 0 ELSE Next1(f[k - 1], k)]
  <2>1. \A k \in 0..L : f[k] = IF k = 0 THEN 0 ELSE Next1(f[k - 1], k)
    <3> HIDE DEF f, Next1, L
    <3> QED BY <1>2, <1>3
  <2>2. DOMAIN f = 0..L /\ f = [k \in 0..L |-> f[k]]
    OBVIOUS
  <2> HIDE DEF f, Next1, L
  <2> QED BY <2>1, <2>2
<1>5. g = [k \in 0..L |-> IF k = 0 THEN 0 ELSE Next1(g[k - 1], k)]
  <2> HIDE DEF f, L
  <2> QED BY <1>4
<1> DEFINE n == IF s = <<>> THEN NotANumber ELSE g[L]
<1>6. ParseLoops(s) = IF n = 0 THEN NotANumber ELSE n
  BY DEF ParseLoops, Scan
<1> HIDE DEF g
<1>7. g[L] = f[L]
  <2>1. 0 \in 0..L /\ \A k \in 1..L : k \in 0..L /\ k # 0
    BY <1>1
  <2> HIDE DEF f, Next1, L
  <2>2. g[0] = f[0] /\ \A k \in 1..L : g[k - 1] = f[k - 1] => g[k] = f[k]
    BY <1>2, <1>5, <2>1
  <2> QED BY <1>1, <2>2, Agreement
<1>8. f[L] = Limited(s, L, MaxLoops)
  BY <1>1
<1>9. s \in Seq(Nat) /\ DOMAIN s = 1..L
  <2>1. 0..Base \subseteq Nat
    OBVIOUS
  <2> QED BY <2>1
<1>10. Prefix(s, L) = Meaning(s)
  BY <1>9, PrefixIs
<1> HIDE DEF L, f
<1>11. NotANumber # 0
  BY DEF NotANumber
<1>12. Meaning(s) \in Nat
  BY <1>9, MeaningAppend
<1>13. CASE s = <<>>
  BY <1>6, <1>13, <1>11 DEF IsNumeral
<1>14. CASE s # <<>>
  <2>1. n = IF IsNumeral(s) /\ Meaning(s) <= MaxLoops THEN Meaning(s) ELSE NotANumber
    BY <1>7, <1>8, <1>9, <1>10, <1>14 DEF IsNumeral, Limited
  <2>2. Meaning(s) \in 1..MaxLoops <=> Meaning(s) <= MaxLoops /\ Meaning(s) # 0
    BY <1>12
  <2> HIDE DEF n
  <2> QED BY <1>6, <1>11, <2>1, <2>2, Zenon
<1> QED BY <1>13, <1>14
-----------------------------------------------------------------------------
(***************************************************************************)
(* Timer and Bench, for a calendar, a word and limits of any size.         *)
(* WatchInv says what the ticks that passed have to do with the clock and  *)
(* the two stamps.                                                         *)
(***************************************************************************)
USE ClockAssumption DEF ClockAssumption

\* The minutes, and the ticks, since the clock began.
Ticks(s) == (s.days * MinutesPerDay + s.minute) * TicksPerMinute + s.tick

WatchPlaceOK == pc # "done" => rc = Running

PassedOK ==
  /\ pc = "run" => passed = Ticks(clock) - Ticks(before)
  /\ pc = "print" \/ Printed => passed = Ticks(after) - Ticks(before)

ShownOK == Printed => shown = PutU32((StampTicks(after) - StampTicks(before)) % WordModulus)

WatchInv == WatchTypeOK /\ WatchPlaceOK /\ RequestIsTyped /\ PassedOK /\ ShownOK

\* The larger of the two limits.
LEMMA LimitIs ==
  /\ Max({MaxRequest, MaxLoops}) \in Nat
  /\ MaxRequest <= Max({MaxRequest, MaxLoops}) /\ MaxLoops <= Max({MaxRequest, MaxLoops})
BY MaxOfTwo

LEMMA StampIs ==
  ASSUME NEW s \in Stamp
  PROVE  /\ s.days \in Nat /\ s.minute \in Nat /\ s.tick \in Nat
         /\ s.days <= MaxDays /\ s.minute < MinutesPerDay /\ s.tick < TicksPerMinute
         /\ TicksPerMinute \in Nat \ {0} /\ MinutesPerDay \in Nat \ {0}
<1>1. TicksPerMinute \in Nat \ {0}
  BY DEF TicksPerMinute
<1>2. /\ s.days \in 0..MaxDays /\ s.minute \in 0..(MinutesPerDay - 1)
      /\ s.tick \in 0..(TicksPerMinute - 1)
  BY DEF Stamp
<1> QED BY <1>1, <1>2

\* The changes to the clock within a day.
Moments == [days : Nat, minute : Nat, tick : Nat]

LEMMA MomentChanges ==
  ASSUME NEW c \in Moments
  PROVE  /\ c = [days |-> c.days, minute |-> c.minute, tick |-> c.tick]
         /\ [c EXCEPT !.tick = @ + 1] =
              [days |-> c.days, minute |-> c.minute, tick |-> c.tick + 1]
         /\ [c EXCEPT !.tick = 0, !.minute = @ + 1] =
              [days |-> c.days, minute |-> c.minute + 1, tick |-> 0]
<1>1. c = [days |-> c.days, minute |-> c.minute, tick |-> c.tick]
  BY DEF Moments
<1>2. [c EXCEPT !.tick = @ + 1] = [days |-> c.days, minute |-> c.minute, tick |-> c.tick + 1]
  <2> DEFINE e == [c EXCEPT !.tick = @ + 1]
  <2>1. e \in Moments
    BY DEF Moments
  <2>2. e.days = c.days /\ e.minute = c.minute /\ e.tick = c.tick + 1
    BY DEF Moments
  <2> HIDE DEF e
  <2>3. e = [days |-> e.days, minute |-> e.minute, tick |-> e.tick]
    BY <2>1 DEF Moments
  <2> QED BY <2>2, <2>3 DEF e
<1>3. [c EXCEPT !.tick = 0, !.minute = @ + 1] =
        [days |-> c.days, minute |-> c.minute + 1, tick |-> 0]
  <2> DEFINE e0 == [c EXCEPT !.tick = 0]
             e == [e0 EXCEPT !.minute = @ + 1]
  <2>1. e0 \in Moments /\ e0.days = c.days /\ e0.minute = c.minute /\ e0.tick = 0
    BY DEF Moments
  <2>2. [c EXCEPT !.tick = 0, !.minute = @ + 1] = e
    OBVIOUS
  <2> HIDE DEF e0
  <2>3. e \in Moments
    BY <2>1 DEF Moments
  <2>4. e.days = e0.days /\ e.minute = e0.minute + 1 /\ e.tick = e0.tick
    BY <2>1 DEF Moments
  <2> HIDE DEF e
  <2>5. e = [days |-> e.days, minute |-> e.minute, tick |-> e.tick]
    BY <2>3 DEF Moments
  <2> QED BY <2>1, <2>2, <2>4, <2>5
<1> QED BY <1>1, <1>2, <1>3

\* One more tick is one more tick, also over the end of a minute and of a day.
LEMMA TickIs ==
  ASSUME NEW c \in Stamp, NEW d,
         d = CASE c.tick + 1 < TicksPerMinute -> [c EXCEPT !.tick = @ + 1]
               [] c.tick + 1 = TicksPerMinute /\ c.minute + 1 < MinutesPerDay ->
                    [c EXCEPT !.tick = 0, !.minute = @ + 1]
               [] OTHER -> [days |-> c.days + 1, minute |-> 0, tick |-> 0],
         d.days <= MaxDays
  PROVE  d \in Stamp /\ Ticks(d) = Ticks(c) + 1
<1> DEFINE D == c.days
           m == c.minute
           t == c.tick
           T == TicksPerMinute
           M == MinutesPerDay
<1>1. /\ D \in Nat /\ m \in Nat /\ t \in Nat /\ D <= MaxDays /\ m < M /\ t < T
      /\ T \in Nat \ {0} /\ M \in Nat \ {0}
  BY StampIs
<1>2. /\ c = [days |-> D, minute |-> m, tick |-> t]
      /\ [c EXCEPT !.tick = @ + 1] = [days |-> D, minute |-> m, tick |-> t + 1]
      /\ [c EXCEPT !.tick = 0, !.minute = @ + 1] = [days |-> D, minute |-> m + 1, tick |-> 0]
  <2>1. c \in Moments
    BY <1>1 DEF Stamp, Moments, D, m, t
  <2> QED BY <2>1, MomentChanges DEF D, m, t
<1>0. /\ t + 1 < T => d = [days |-> D, minute |-> m, tick |-> t + 1]
      /\ t + 1 = T /\ m + 1 < M => d = [days |-> D, minute |-> m + 1, tick |-> 0]
      /\ t + 1 = T /\ m + 1 = M => d = [days |-> D + 1, minute |-> 0, tick |-> 0]
  <2>1. /\ t + 1 < T => ~(t + 1 = T)
        /\ ~(T < T) /\ ~(M < M)
    BY <1>1
  <2> QED BY <1>2, <2>1
<1> HIDE DEF D, m, t, T, M
<1>3. \A x \in Nat, y \in Nat, z \in Nat :
        x <= MaxDays /\ y < M /\ z < T => [days |-> x, minute |-> y, tick |-> z] \in Stamp
  <2> SUFFICES ASSUME NEW x \in Nat, NEW y \in Nat, NEW z \in Nat, x <= MaxDays, y < M, z < T
               PROVE  [days |-> x, minute |-> y, tick |-> z] \in Stamp
    OBVIOUS
  <2>1. x \in 0..MaxDays /\ y \in 0..(M - 1) /\ z \in 0..(T - 1)
    BY <1>1
  <2> QED BY <2>1 DEF Stamp, M, T
<1>4. \A x, y, z : Ticks([days |-> x, minute |-> y, tick |-> z]) = (x * M + y) * T + z
  BY DEF Ticks, M, T
<1>5. Ticks(c) = (D * M + m) * T + t
  BY <1>2, <1>4
<1>6. D * M \in Nat /\ (D * M + m) \in Nat /\ (D * M + m) * T \in Nat
  BY <1>1
<1>7. CASE t + 1 < T
  <2>1. d = [days |-> D, minute |-> m, tick |-> t + 1]
    BY <1>0, <1>7
  <2>2. Ticks(d) = (D * M + m) * T + (t + 1)
    BY <1>4, <2>1
  <2> QED BY <1>1, <1>3, <1>5, <1>6, <1>7, <2>1, <2>2
<1>8. CASE t + 1 = T /\ m + 1 < M
  <2>1. d = [days |-> D, minute |-> m + 1, tick |-> 0]
    BY <1>0, <1>8
  <2>2. Ticks(d) = (D * M + (m + 1)) * T + 0
    BY <1>4, <2>1
  <2>3. (D * M + (m + 1)) * T = (D * M + m) * T + T
    BY <1>1, <1>6
  <2> QED BY <1>1, <1>3, <1>5, <1>6, <1>8, <2>1, <2>2, <2>3
<1>9. CASE t + 1 = T /\ m + 1 = M
  <2>1. d = [days |-> D + 1, minute |-> 0, tick |-> 0]
    BY <1>0, <1>9
  <2>2. Ticks(d) = ((D + 1) * M + 0) * T + 0
    BY <1>4, <2>1
  <2>3. (D + 1) * M = (D * M + m) + 1
    BY <1>1, <1>9
  <2>4. ((D * M + m) + 1) * T = (D * M + m) * T + T
    BY <1>1, <1>6
  <2>5. D + 1 <= MaxDays
    <3>1. d.days = D + 1
      <4> HIDE DEF D
      <4> QED BY ONLY <2>1
    <3> QED BY <3>1
  <2> QED BY <1>1, <1>3, <1>5, <1>6, <1>9, <2>1, <2>2, <2>3, <2>4, <2>5
<1> QED BY <1>1, <1>7, <1>8, <1>9

-----------------------------------------------------------------------------
LEMMA TicksType ==
  ASSUME NEW s \in Stamp
  PROVE  Ticks(s) \in Nat
<1>1. /\ s.days \in Nat /\ s.minute \in Nat /\ s.tick \in Nat
      /\ TicksPerMinute \in Nat /\ MinutesPerDay \in Nat
  BY StampIs
<1>2. s.days * MinutesPerDay \in Nat
  BY <1>1
<1>3. s.days * MinutesPerDay + s.minute \in Nat
  BY <1>1, <1>2
<1>4. (s.days * MinutesPerDay + s.minute) * TicksPerMinute \in Nat
  BY <1>1, <1>3
<1> QED BY <1>1, <1>4 DEF Ticks

LEMMA StampTicksType ==
  ASSUME NEW s \in Stamp
  PROVE  StampTicks(s) \in Nat
<1> DEFINE raw == s.days * MinutesPerDay * TicksPerSecond
                  + s.minute * SecondsPerMinute * TicksPerSecond + s.tick
<1>1. /\ s.days \in Nat /\ s.minute \in Nat /\ s.tick \in Nat /\ MinutesPerDay \in Nat
      /\ SecondsPerMinute \in Nat /\ TicksPerSecond \in Nat
  BY StampIs
<1>2. raw \in Int
  BY <1>1
<1>3. StampTicks(s) = raw % WordModulus
  BY DEF StampTicks
<1> HIDE DEF raw
<1>4. WordModulus \in Nat \ {0}
  OBVIOUS
<1>5. raw % WordModulus \in Nat
  BY ONLY <1>2, <1>4, Division
<1> QED BY <1>3, <1>5

LEMMA WatchInitInv == WatchInit => WatchInv
<1> SUFFICES ASSUME WatchInit PROVE WatchInv
  OBVIOUS
<1>1. /\ clock \in Stamp /\ before = clock /\ after = clock /\ pc = "args"
      /\ tool \in {"Timer", "Bench"} /\ argc \in 1..3 /\ request = 1 /\ shown = <<>>
      /\ passed = 0 /\ rc = Running
  BY DEF WatchInit
<1>2. typed \in Seq(0..Base)
  <2>1. typed \in UNION {[1..n -> 0..Base] : n \in 0..MaxText}
    BY DEF WatchInit, BoundedSeq, SeqOf
  <2> QED BY <2>1
<1>3. request \in 0..Max({MaxRequest, MaxLoops})
  <2>1. 1 <= MaxLoops
    OBVIOUS
  <2>2. 1 <= Max({MaxRequest, MaxLoops})
    BY <2>1, LimitIs
  <2> QED BY <1>1, <2>2, LimitIs
<1>4. shown \in Seq(Digits) /\ Len(shown) <= BufferDigits
  BY <1>1
<1>5. WatchTypeOK
  <2>1. pc \in {"args", "before", "run", "print", "done"} /\ rc \in {Running, 0, 10} /\ passed \in Nat
    BY <1>1
  <2> QED BY <1>1, <1>2, <1>3, <1>4, <2>1 DEF WatchTypeOK
<1>6. WatchPlaceOK /\ RequestIsTyped /\ PassedOK /\ ShownOK
  BY <1>1 DEF WatchPlaceOK, RequestIsTyped, PassedOK, ShownOK, Printed
<1> QED BY <1>5, <1>6 DEF WatchInv


\* The argument is taken, or refused.
LEMMA WatchArgsStep == WatchInv /\ ParseArgs => WatchInv'
<1> SUFFICES ASSUME WatchInv, ParseArgs PROVE WatchInv'
  OBVIOUS
<1> DEFINE n == CASE argc = 1 -> request
                  [] argc = 2 -> IF tool = "Timer" THEN ParseTicks(typed) ELSE ParseLoops(typed)
                  [] OTHER -> NotANumber
           top == Max({MaxRequest, MaxLoops})
           least == IF tool = "Timer" THEN 0 ELSE 1
           most == IF tool = "Timer" THEN MaxRequest ELSE MaxLoops
           fine == IsNumeral(typed) /\ Meaning(typed) \in least..most
<1>1. WatchTypeOK /\ rc = Running /\ pc = "args"
  BY DEF WatchInv, WatchPlaceOK, ParseArgs
<1>2. \/ n = NotANumber /\ pc' = "done" /\ rc' = 10 /\ request' = request
      \/ n # NotANumber /\ pc' = "before" /\ rc' = rc /\ request' = n
  BY DEF ParseArgs, Return, Goto
<1>3. UNCHANGED <<clock, tool, argc, typed, before, after, shown, passed>>
  BY DEF ParseArgs, arguments
<1>4. argc = 2 => n = IF fine THEN Meaning(typed) ELSE NotANumber
  <2> SUFFICES ASSUME argc = 2 PROVE n = IF fine THEN Meaning(typed) ELSE NotANumber
    OBVIOUS
  <2>1. n = IF tool = "Timer" THEN ParseTicks(typed) ELSE ParseLoops(typed)
    OBVIOUS
  <2>2. typed \in Seq(0..Base)
    BY <1>1 DEF WatchTypeOK
  <2>3. Meaning(typed) \in Nat
    <3>1. 0..Base \subseteq Nat
      OBVIOUS
    <3>2. typed \in Seq(Nat)
      BY <2>2, <3>1
    <3> QED BY <3>2, MeaningAppend
  <2>4. CASE tool = "Timer"
    <3>1. n = ParseTicks(typed) /\ (fine <=> IsNumeral(typed) /\ Meaning(typed) <= MaxRequest)
      BY <2>1, <2>3, <2>4
    <3> HIDE DEF n, fine
    <3> QED BY <2>2, <3>1, ParseTicksIs
  <2>5. CASE tool # "Timer"
    <3>1. n = ParseLoops(typed) /\ (fine <=> IsNumeral(typed) /\ Meaning(typed) \in 1..MaxLoops)
      BY <2>1, <2>5
    <3> HIDE DEF n, fine
    <3> QED BY <2>2, <3>1, ParseLoopsIs
  <2> QED BY <2>4, <2>5
<1>5. request' \in 0..top
  <2>1. request \in 0..top
    BY <1>1 DEF WatchTypeOK
  <2>2. argc = 1 => n = request
    OBVIOUS
  <2>3. fine => Meaning(typed) \in 0..top
    BY LimitIs
  <2>4. argc # 1 /\ argc # 2 => n = NotANumber
    OBVIOUS
  <2> HIDE DEF n, fine, top
  <2> QED BY <1>2, <1>4, <2>1, <2>2, <2>3, <2>4
<1>6. WatchTypeOK'
  <2>1. pc' \in {"args", "before", "run", "print", "done"} /\ rc' \in {Running, 0, 10}
    BY <1>1, <1>2
  <2> HIDE DEF n, top
  <2> QED BY <1>1, <1>3, <1>5, <2>1 DEF WatchTypeOK, top
<1>7. Meaning(typed) # NotANumber
  <2>1. 0..Base \subseteq Nat
    OBVIOUS
  <2>2. typed \in Seq(Nat)
    BY <1>1, <2>1 DEF WatchTypeOK
  <2>3. Meaning(typed) \in Nat
    BY <2>2, MeaningAppend
  <2> QED BY <2>3 DEF NotANumber
<1>8. RequestIsTyped'
  <2> SUFFICES ASSUME argc = 2
               PROVE  IF fine THEN rc' # 10 /\ request' = Meaning(typed) ELSE rc' = 10
    BY <1>3 DEF RequestIsTyped
  <2>1. Running # 10
    BY DEF Running
  <2> HIDE DEF n, fine
  <2> QED BY <1>1, <1>2, <1>4, <1>7, <2>1
<1>9. WatchPlaceOK' /\ PassedOK' /\ ShownOK'
  <2>1. pc' \in {"done", "before"} /\ (pc' = "done" => rc' = 10) /\ (pc' # "done" => rc' = Running)
    BY <1>1, <1>2
  <2> QED BY <2>1 DEF WatchPlaceOK, PassedOK, ShownOK, Printed
<1> QED BY <1>6, <1>8, <1>9 DEF WatchInv

LEMMA BeforeStep == WatchInv /\ StampBefore => WatchInv'
<1> SUFFICES ASSUME WatchInv, StampBefore PROVE WatchInv'
  OBVIOUS
<1>1. /\ pc = "before" /\ pc' = "run" /\ rc' = rc /\ rc = Running /\ before' = clock /\ passed' = 0
      /\ UNCHANGED <<clock, tool, argc, typed, request, after, shown>>
  BY DEF StampBefore, Goto, arguments, WatchInv, WatchPlaceOK
<1>2. WatchTypeOK'
  BY <1>1 DEF WatchInv, WatchTypeOK
<1>3. RequestIsTyped'
  BY <1>1 DEF WatchInv, RequestIsTyped
<1>4. Ticks(clock) \in Nat
  <2>1. clock \in Stamp
    BY DEF WatchInv, WatchTypeOK
  <2> QED BY <2>1, TicksType
<1>5. PassedOK'
  <2>1. Ticks(clock)' = Ticks(clock) /\ Ticks(before)' = Ticks(clock)
    BY <1>1 DEF Ticks
  <2> QED BY <1>1, <1>4, <2>1 DEF PassedOK, Printed
<1> QED BY <1>1, <1>2, <1>3, <1>5 DEF WatchInv, WatchPlaceOK, ShownOK, Printed

LEMMA AfterStep == WatchInv /\ StampAfter => WatchInv'
<1> SUFFICES ASSUME WatchInv, StampAfter PROVE WatchInv'
  OBVIOUS
<1>1. /\ pc = "run" /\ pc' = "print" /\ rc' = rc /\ rc = Running /\ after' = clock
      /\ UNCHANGED <<clock, tool, argc, typed, request, before, shown, passed>>
  BY DEF StampAfter, Goto, arguments, WatchInv, WatchPlaceOK
<1>2. WatchTypeOK'
  BY <1>1 DEF WatchInv, WatchTypeOK
<1>3. RequestIsTyped'
  BY <1>1 DEF WatchInv, RequestIsTyped
<1>4. PassedOK'
  <2>1. Ticks(after)' = Ticks(clock) /\ Ticks(before)' = Ticks(before)
    BY <1>1 DEF Ticks
  <2>2. passed = Ticks(clock) - Ticks(before)
    BY <1>1 DEF WatchInv, PassedOK
  <2> QED BY <1>1, <2>1, <2>2 DEF PassedOK, Printed
<1> QED BY <1>1, <1>2, <1>3, <1>4 DEF WatchInv, WatchPlaceOK, ShownOK, Printed

LEMMA PrintElapsedStep == WatchInv /\ PrintElapsed => WatchInv'
<1> SUFFICES ASSUME WatchInv, PrintElapsed PROVE WatchInv'
  OBVIOUS
<1> DEFINE x == (StampTicks(after) - StampTicks(before)) % WordModulus
<1>1. /\ pc = "print" /\ pc' = "done" /\ rc' = 0 /\ rc = Running /\ shown' = PutU32(x)
      /\ UNCHANGED <<clock, tool, argc, typed, request, before, after, passed>>
  BY DEF PrintElapsed, Return, arguments, WatchInv, WatchPlaceOK
<1>2. x \in Nat /\ x < WordModulus
  <2>1. StampTicks(after) \in Nat /\ StampTicks(before) \in Nat
    BY StampTicksType DEF WatchInv, WatchTypeOK
  <2>2. WordModulus \in Nat \ {0}
    OBVIOUS
  <2>3. StampTicks(after) - StampTicks(before) \in Int
    BY <2>1
  <2> QED BY ONLY <2>2, <2>3, Division
<1>3. shown' \in Seq(Digits) /\ Len(shown') <= BufferDigits
  <2>1. Power[BufferDigits] \in Nat
    BY PowerIs
  <2>2. x < Power[BufferDigits]
    <3> HIDE DEF x
    <3> QED BY <1>2, <2>1
  <2> HIDE DEF x
  <2> QED BY <1>1, <1>2, <2>2, TextIs
<1> HIDE DEF x
<1>4. WatchTypeOK'
  BY <1>1, <1>3 DEF WatchInv, WatchTypeOK
<1>5. RequestIsTyped'
  BY <1>1 DEF WatchInv, RequestIsTyped, Running
<1>6. PassedOK'
  <2>1. Ticks(after)' = Ticks(after) /\ Ticks(before)' = Ticks(before)
    BY <1>1 DEF Ticks
  <2> QED BY <1>1, <2>1 DEF WatchInv, PassedOK
<1>7. ShownOK'
  <2>1. StampTicks(after)' = StampTicks(after) /\ StampTicks(before)' = StampTicks(before)
    BY <1>1 DEF StampTicks
  <2>2. shown' = PutU32((StampTicks(after)' - StampTicks(before)') % WordModulus)
    BY <1>1, <2>1 DEF x
  <2> QED BY <2>2 DEF ShownOK
<1> QED BY <1>1, <1>4, <1>5, <1>6, <1>7 DEF WatchInv, WatchPlaceOK

LEMMA TickStep == WatchInv /\ Tick => WatchInv'
<1> SUFFICES ASSUME WatchInv, Tick PROVE WatchInv'
  OBVIOUS
<1>1. /\ pc # "done" /\ passed' = IF pc = "run" THEN passed + 1 ELSE passed
      /\ UNCHANGED <<pc, tool, argc, typed, request, before, after, shown, rc>>
  BY DEF Tick, arguments
<1>2. clock' \in Stamp /\ Ticks(clock') = Ticks(clock) + 1
  <2>1. clock \in Stamp
    BY DEF WatchInv, WatchTypeOK
  <2> QED BY <2>1, TickIs DEF Tick
<1>3. WatchTypeOK'
  BY <1>1, <1>2 DEF WatchInv, WatchTypeOK
<1>4. RequestIsTyped'
  BY <1>1 DEF WatchInv, RequestIsTyped
<1>5. PassedOK'
  <2>1. Ticks(clock) \in Nat /\ Ticks(before) \in Nat
    BY TicksType DEF WatchInv, WatchTypeOK
  <2>2. Ticks(clock)' = Ticks(clock) + 1 /\ Ticks(before)' = Ticks(before) /\ Ticks(after)' = Ticks(after)
    BY <1>1, <1>2 DEF Ticks
  <2>3. /\ pc = "run" => passed = Ticks(clock) - Ticks(before)
        /\ pc = "print" => passed = Ticks(after) - Ticks(before)
    BY DEF WatchInv, PassedOK
  <2> QED BY <1>1, <2>1, <2>2, <2>3 DEF PassedOK, Printed
<1> QED BY <1>1, <1>3, <1>4, <1>5 DEF WatchInv, WatchPlaceOK, ShownOK, Printed

LEMMA WatchNextInv == WatchInv /\ [WatchNext]_watchVars => WatchInv'
<1> SUFFICES ASSUME WatchInv, [WatchNext]_watchVars PROVE WatchInv'
  OBVIOUS
<1>1. CASE ParseArgs
  BY <1>1, WatchArgsStep
<1>2. CASE StampBefore
  BY <1>2, BeforeStep
<1>3. CASE StampAfter
  BY <1>3, AfterStep
<1>4. CASE PrintElapsed
  BY <1>4, PrintElapsedStep
<1>5. CASE Tick
  BY <1>5, TickStep
<1>6. CASE UNCHANGED watchVars
  <2> USE <1>6 DEF watchVars, arguments, WatchInv
  <2>1. WatchTypeOK' /\ WatchPlaceOK'
    BY DEF WatchTypeOK, WatchPlaceOK
  <2>2. RequestIsTyped'
    BY DEF RequestIsTyped
  <2>3. PassedOK'
    BY DEF PassedOK, Printed, Ticks
  <2>4. ShownOK'
    BY DEF ShownOK, Printed, StampTicks
  <2> QED BY <2>1, <2>2, <2>3, <2>4
<1> QED BY <1>1, <1>2, <1>3, <1>4, <1>5, <1>6 DEF WatchNext

LEMMA WatchInvariance == WatchSpec => []WatchInv
BY WatchInitInv, WatchNextInv, PTL DEF WatchSpec

\* The state of Timer and Bench is what the model says it is.
THEOREM WatchTypeCorrect == WatchSpec => []WatchTypeOK
<1>1. WatchInv => WatchTypeOK
  BY DEF WatchInv
<1> QED BY <1>1, WatchInvariance, PTL

\* parse_ticks and parse_loops take an argument for the number it means, or refuse
\* it, however long it is.
THEOREM RequestRight == WatchSpec => []RequestIsTyped
<1>1. WatchInv => RequestIsTyped
  BY DEF WatchInv
<1> QED BY <1>1, WatchInvariance, PTL

\* Within a day, the difference of two stamps is that of their ticks, although
\* stamp_ticks has the wrong weight for the days and wraps around.
LEMMA StampDifference ==
  ASSUME NEW a \in Stamp, NEW b \in Stamp, a.days = b.days
  PROVE  (StampTicks(a) - StampTicks(b)) % WordModulus = (Ticks(a) - Ticks(b)) % WordModulus
<1> DEFINE Raw(s) == s.days * MinutesPerDay * TicksPerSecond
                     + s.minute * SecondsPerMinute * TicksPerSecond + s.tick
<1>1. /\ a.days \in Nat /\ a.minute \in Nat /\ a.tick \in Nat
      /\ b.minute \in Nat /\ b.tick \in Nat /\ MinutesPerDay \in Nat
      /\ SecondsPerMinute \in Nat /\ TicksPerSecond \in Nat
  BY StampIs
<1>2. /\ StampTicks(a) = Raw(a) % WordModulus /\ Raw(a) \in Nat
      /\ StampTicks(b) = Raw(b) % WordModulus /\ Raw(b) \in Nat
  <2>1. StampTicks(a) = Raw(a) % WordModulus /\ StampTicks(b) = Raw(b) % WordModulus
    BY DEF StampTicks
  <2>2. Raw(a) \in Nat /\ Raw(b) \in Nat
    BY <1>1
  <2> HIDE DEF Raw
  <2> QED BY <2>1, <2>2
<1>3. Raw(a) - Raw(b) = Ticks(a) - Ticks(b)
  <2> DEFINE d == a.days * MinutesPerDay
             T == SecondsPerMinute * TicksPerSecond
  <2>1. d \in Nat /\ T \in Nat /\ T = TicksPerMinute
    BY <1>1 DEF TicksPerMinute
  <2>2. /\ Raw(a) = d * TicksPerSecond + a.minute * T + a.tick
        /\ Raw(b) = d * TicksPerSecond + b.minute * T + b.tick
    BY <1>1
  <2>3. Ticks(a) = (d + a.minute) * T + a.tick /\ Ticks(b) = (d + b.minute) * T + b.tick
    BY <2>1 DEF Ticks
  <2> HIDE DEF d, T, Raw
  <2>4. /\ (d + a.minute) * T = d * T + a.minute * T /\ (d + b.minute) * T = d * T + b.minute * T
        /\ d * T \in Nat /\ a.minute * T \in Nat /\ b.minute * T \in Nat
        /\ d * TicksPerSecond \in Nat
    BY <1>1, <2>1
  <2> QED BY <1>1, <2>2, <2>3, <2>4
<1> HIDE DEF Raw
<1>4. WordModulus \in Nat \ {0}
  OBVIOUS
<1>5. ((Raw(a) % WordModulus) - (Raw(b) % WordModulus)) % WordModulus
        = (Raw(a) - Raw(b)) % WordModulus
  BY <1>2, <1>4, RemainderOfDifference
<1> QED BY <1>2, <1>3, <1>5

\* What Timer and Bench print is the number of ticks that passed between the two
\* stamps, as long as both are of the same day.
THEOREM ElapsedRight == WatchSpec => []ElapsedExactWithinDay
<1>1. ASSUME WatchInv PROVE ElapsedExactWithinDay
  <2> SUFFICES ASSUME Printed, before.days = after.days
               PROVE  /\ IsNumeral(shown) /\ Len(shown) <= BufferDigits
                      /\ Meaning(shown) = passed % WordModulus
    BY DEF ElapsedExactWithinDay
  <2> DEFINE x == (StampTicks(after) - StampTicks(before)) % WordModulus
  <2>1. WatchTypeOK /\ shown = PutU32(x) /\ passed = Ticks(after) - Ticks(before)
    BY <1>1 DEF WatchInv, ShownOK, PassedOK
  <2>2. before \in Stamp /\ after \in Stamp /\ passed \in Nat /\ Len(shown) <= BufferDigits
    BY <2>1 DEF WatchTypeOK
  <2>3. x = passed % WordModulus
    BY <2>1, <2>2, StampDifference
  <2>4. x \in Nat
    <3>1. WordModulus \in Nat \ {0} /\ passed \in Int
      BY <2>2
    <3> HIDE DEF x
    <3> QED BY ONLY <2>3, <3>1, Division
  <2> HIDE DEF x
  <2>5. shown \in Seq(Digits) /\ shown # <<>> /\ Meaning(shown) = x
    BY <2>1, <2>4, TextIs
  <2>6. IsNumeral(shown)
    BY <2>5 DEF IsNumeral
  <2> QED BY <2>2, <2>3, <2>5, <2>6
<1> QED BY <1>1, WatchInvariance, PTL
=============================================================================
