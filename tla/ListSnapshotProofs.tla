------------------------- MODULE ListSnapshotProofs -------------------------
(***************************************************************************)
(* Proofs about the snapshot tools and the finders for lists of any        *)
(* length, any limits and any number of changes by other tasks.  IndInv    *)
(* ties the rows copied, or the finder's answer, to the entries visited    *)
(* and keeps, once the walk is over, what the warning says about the rest. *)
(*                                                                         *)
(* The library's induction theorems are out of the provers' reach, so an   *)
(* induction is by the least counterexample (LeastNat).                    *)
(***************************************************************************)
EXTENDS ListSnapshot, SequenceTheorems, WellFoundedInduction, TLAPS

\* dos.library is open, and a volume locked, only where the code has it so;
\* rows that DF has asked for are rows.
HeldOK ==
  /\ lib <=> tool \in DosTools /\ pc \in {"root", "forbid", "walk"}
  /\ pc \in {"open", "root"} => tool \in DosTools
  /\ forbid <=> pc = "walk" /\ tool # "Residents"
  /\ locks = IF pc = "info" THEN 1 ELSE 0
  /\ printed <= Len(rows) /\ (pc = "info" => printed < Len(rows))
  /\ pc \in {"lock", "info"} => tool = "DF"
  /\ pc # "done" => rc = Running

\* Only WatchPort walks more than once.
SamplesOK ==
  /\ pc # "done" => samples > 0
  /\ seen + samples <= MaxSamples
  /\ tool # "WatchPort" => samples <= 1

Got == Picked(snap, rule.wanted)[visits]

\* What a walk has so far.  RexxPorts goes on after its table is full.
CopyOK ==
  /\ pc \in {"start", "open", "root", "forbid"} => rows = <<>> /\ ~dropped /\ ~found
  /\ tool \in Finders => rows = <<>>
  /\ tool \notin Finders => ~found
  /\ tool # "RexxPorts" => ~dropped
  /\ pc = "walk" => list = snap
  /\ pc = "walk" \/ Walked =>
       IF tool \in Finders THEN found <=> Got # <<>>
       ELSE IF dropped THEN /\ Len(rows) = MaxRows /\ Len(Got) > MaxRows
                            /\ \A i \in 1..MaxRows : rows[i] = Got[i]
       ELSE rows = Got

\* What is known when the walk is over, whatever becomes of the list.
VerdictOK ==
  Walked =>
    /\ warned \/ (visits = Len(snap) /\ ~dropped) \/ (tool \in Finders /\ found)
    /\ tool = "RexxPorts" /\ warned => dropped \/ Len(snap) > MaxVisits
    /\ pc = "done" /\ tool = "RexxPorts" /\ rc = 5 => warned

IndInv == TypeOK /\ HeldOK /\ SamplesOK /\ CopyOK /\ VerdictOK

-----------------------------------------------------------------------------
USE LimitsAssumption DEF LimitsAssumption

\* A set of naturals that is not empty has a smallest element.
LEMMA LeastNat ==
  ASSUME NEW T, T \subseteq Nat, T # {}
  PROVE  \E m \in T : \A n \in T : m <= n
<1>1. PICK m \in T : \A n \in T : ~(<<n, m>> \in OpToRel(<, Nat))
  BY NatLessThanWellFounded, WFMin
<1>2. \A n \in T : ~(n < m)
  BY <1>1 DEF OpToRel
<1>3. QED BY <1>2

\* What the n-th value of Picked is, given the function itself.
PickStep(g, s, W, n) ==
  IF n = 0 THEN <<>>
  ELSE IF s[n] \in W THEN Append(g[n - 1], s[n]) ELSE g[n - 1]

Fits(g, s, W, m) == g = [n \in 0..m |-> PickStep(g, s, W, n)]

\* A function with the values of Picked exists on every 0..m.
LEMMA PickedExists ==
  ASSUME NEW s, NEW W
  PROVE  \A m \in Nat : \E g : Fits(g, s, W, m)
<1> DEFINE T == {m \in Nat : ~\E g : Fits(g, s, W, m)}
<1> SUFFICES ASSUME T # {} PROVE FALSE
  OBVIOUS
<1>1. PICK m \in T : \A n \in T : m <= n
  <2>1. T \subseteq Nat
    OBVIOUS
  <2> HIDE DEF T
  <2>2. QED BY <2>1, LeastNat
<1>2. CASE m = 0
  <2>1. Fits([n \in 0..0 |-> <<>>], s, W, 0)
    BY DEF Fits, PickStep
  <2>2. QED BY <1>2, <2>1
<1>3. CASE m # 0
  <2>1. m \in Nat /\ m - 1 \in Nat /\ m - 1 \notin T
    BY <1>1, <1>3
  <2>2. PICK g : Fits(g, s, W, m - 1)
    BY <2>1
  <2> DEFINE h == [n \in 0..m |-> IF n = m THEN PickStep(g, s, W, m) ELSE g[n]]
  <2>3. ASSUME NEW n \in 0..m PROVE h[n] = PickStep(h, s, W, n)
    <3>1. n # m => n \in 0..(m - 1)
      BY <2>1
    <3>2. n # 0 => n - 1 \in 0..m /\ n - 1 # m
      BY <2>1
    <3>3. h[n] = PickStep(g, s, W, n)
      BY <2>2, <3>1 DEF Fits
    <3>4. n # 0 => h[n - 1] = g[n - 1]
      BY <3>2
    <3> HIDE DEF h
    <3>5. QED BY <3>3, <3>4 DEF PickStep
  <2>4. h = [n \in 0..m |-> h[n]]
    OBVIOUS
  <2> HIDE DEF h
  <2>5. Fits(h, s, W, m)
    BY <2>3, <2>4 DEF Fits
  <2>6. QED BY <1>1, <2>5
<1>4. QED BY <1>2, <1>3

\* Picked satisfies its recursive definition.
LEMMA PickedDef ==
  ASSUME NEW S, NEW s \in Seq(S), NEW W, NEW n \in 0..Len(s)
  PROVE  Picked(s, W)[n] = PickStep(Picked(s, W), s, W, n)
<1>1. Picked(s, W) = CHOOSE g : Fits(g, s, W, Len(s))
  BY DEF Picked, PickStep, Fits
<1>2. Len(s) \in Nat
  OBVIOUS
<1>3. Fits(Picked(s, W), s, W, Len(s))
  BY <1>1, <1>2, PickedExists
<1>4. QED BY <1>3 DEF Fits

Continues(q, p) == Len(p) <= Len(q) /\ \A i \in 1..Len(p) : q[i] = p[i]

\* A longer part of the list has the same wanted entries, and maybe more.
LEMMA PickedGrows ==
  ASSUME NEW S, NEW s \in Seq(S), NEW W, NEW m \in 0..Len(s), NEW n \in m..Len(s),
         Picked(s, W)[m] \in Seq(S)
  PROVE  Picked(s, W)[n] \in Seq(S) /\ Continues(Picked(s, W)[n], Picked(s, W)[m])
<1> DEFINE p == Picked(s, W)
           Good(k) == /\ p[k] \in Seq(S) /\ Len(p[m]) <= Len(p[k])
                      /\ \A i \in 1..Len(p[m]) : p[k][i] = p[m][i]
           T == {k \in m..Len(s) : ~Good(k)}
<1> SUFFICES ASSUME T # {} PROVE FALSE
  BY DEF Continues
<1>0. Len(s) \in Nat /\ m \in Nat /\ m..Len(s) \subseteq Nat
  OBVIOUS
<1>1. PICK k \in T : \A l \in T : k <= l
  <2>1. T \subseteq Nat
    BY <1>0
  <2> HIDE DEF T
  <2>2. QED BY <2>1, LeastNat
<1>2. k \in m..Len(s) /\ ~Good(k)
  OBVIOUS
<1>3. k # m
  BY <1>2
<1>4. k - 1 \in m..Len(s) /\ k \in 1..Len(s) /\ k # 0
  BY <1>0, <1>2, <1>3
<1>5. Good(k - 1)
  <2>1. k - 1 \notin T
    BY <1>1, <1>4
  <2>2. QED BY <1>4, <2>1
<1>6. p[k] = IF s[k] \in W THEN Append(p[k - 1], s[k]) ELSE p[k - 1]
  BY <1>4, PickedDef, SMTT(30) DEF PickStep
<1>7. s[k] \in S
  BY <1>4
<1> HIDE DEF p
<1>8. CASE s[k] \notin W
  BY <1>2, <1>5, <1>6, <1>8
<1>9. CASE s[k] \in W
  <2>1. /\ Append(p[k - 1], s[k]) \in Seq(S)
        /\ Len(Append(p[k - 1], s[k])) = Len(p[k - 1]) + 1
        /\ \A i \in 1..Len(p[k - 1]) : Append(p[k - 1], s[k])[i] = p[k - 1][i]
    BY ONLY <1>5, <1>7, AppendProperties
  <2>2. Len(p[m]) \in Nat /\ Len(p[k - 1]) \in Nat
    BY <1>5, SMTT(30)
  <2>3. p[k] = Append(p[k - 1], s[k])
    BY <1>6, <1>9
  <2>4. Len(p[m]) <= Len(p[k - 1])
    BY <1>5
  <2>5. \A i \in 1..Len(p[m]) : i \in 1..Len(p[k - 1])
    BY <2>2, <2>4
  <2>6. \A i \in 1..Len(p[m]) : p[k][i] = p[m][i]
    BY <1>5, <2>1, <2>3, <2>5
  <2>7. p[k] \in Seq(S) /\ Len(p[m]) <= Len(p[k])
    BY ONLY <2>1, <2>2, <2>3, <2>4
  <2>8. QED BY <1>2, <2>6, <2>7
<1>10. QED BY <1>8, <1>9

\* What has been picked is a sequence of entries.
LEMMA PickedType ==
  ASSUME NEW S, NEW s \in Seq(S), NEW W, NEW n \in 0..Len(s)
  PROVE  Picked(s, W)[n] \in Seq(S)
<1>0. 0 \in 0..Len(s) /\ n \in 0..Len(s)
  OBVIOUS
<1>1. Picked(s, W)[0] = <<>>
  <2>1. Picked(s, W)[0] = PickStep(Picked(s, W), s, W, 0)
    BY <1>0, PickedDef
  <2>2. QED BY <2>1 DEF PickStep
<1>2. Picked(s, W)[0] \in Seq(S)
  BY <1>1
<1>3. QED BY <1>0, <1>2, PickedGrows

\* A sequence that agrees with a longer one is a prefix of it.
LEMMA PrefixIs ==
  ASSUME NEW S, NEW s \in Seq(S), NEW t \in Seq(S), Len(s) <= Len(t),
         \A i \in 1..Len(s) : s[i] = t[i]
  PROVE  IsPrefix(s, t)
<1>1. Len(s) \in Nat /\ Len(t) \in Nat /\ \A i \in 1..Len(s) : t[i] \in S /\ s[i] \in S
  OBVIOUS
<1>2. /\ SubSeq(s, 1, Len(s)) \in Seq(S) /\ Len(SubSeq(s, 1, Len(s))) = Len(s)
      /\ \A i \in 1..Len(s) : SubSeq(s, 1, Len(s))[i] = s[i]
  BY <1>1, SubSeqProperties
<1>3. /\ SubSeq(t, 1, Len(s)) \in Seq(S) /\ Len(SubSeq(t, 1, Len(s))) = Len(s)
      /\ \A i \in 1..Len(s) : SubSeq(t, 1, Len(s))[i] = t[i]
  BY <1>1, SubSeqProperties
<1>4. SubSeq(s, 1, Len(s)) = SubSeq(t, 1, Len(s))
  BY <1>2, <1>3, SeqEqual
<1>5. QED BY <1>4 DEF IsPrefix

\* What ends the loop of a tool, and when it warns.
LEMMA RuleIs ==
  ASSUME tool \in Tools
  PROVE  /\ tool \in Finders => rule.warns = "not found" /\ "rows" \notin rule.ends
         /\ tool = "RexxPorts" => rule.warns = "dropped" /\ rule.ends = {"visits"}
         /\ tool \notin Finders \cup {"RexxPorts"} =>
              \/ rule.warns = "full" /\ rule.ends = {"rows"}
              \/ /\ rule.warns \in {"full or cut", "left over", "limits"}
                 /\ rule.ends = {"rows", "visits"}
<1>1. CASE tool \in {"Ports", "Libs", "Devices", "Resources", "Residents"}
  <2>1. rule = Rule(ExecKinds, {"rows"}, "full")
    BY <1>1 DEF rule, Ports, Libs, Devices, Resources, Residents
  <2>2. QED BY <1>1, <2>1 DEF Rule, Finders
<1>2. CASE tool \in Finders
  <2>1. rule \in {WatchPort, RexxProbe, InputInfo}
    BY <1>2 DEF rule, Finders
  <2>2. /\ WatchPort.warns = "not found" /\ "rows" \notin WatchPort.ends
        /\ RexxProbe.warns = "not found" /\ "rows" \notin RexxProbe.ends
        /\ InputInfo.warns = "not found" /\ "rows" \notin InputInfo.ends
    BY DEF Rule, WatchPort, RexxProbe, InputInfo
  <2>3. QED BY <1>2, <2>1, <2>2 DEF Finders
<1>3. CASE tool = "RexxPorts"
  <2>1. rule = Rule({"named", "sought"}, {"visits"}, "dropped")
    BY <1>3 DEF rule, RexxPorts
  <2>2. QED BY <1>3, <2>1 DEF Rule, Finders
<1>4. CASE tool \in DosTools
  <2>1. rule \in {Assigns, Mounts, Handlers, DF}
    BY <1>4 DEF rule, DosTools
  <2>2. /\ Assigns.warns = "full or cut" /\ Assigns.ends = {"rows", "visits"}
        /\ Mounts.warns = "full or cut" /\ Mounts.ends = {"rows", "visits"}
        /\ Handlers.warns = "left over" /\ Handlers.ends = {"rows", "visits"}
        /\ DF.warns = "limits" /\ DF.ends = {"rows", "visits"}
    BY DEF Rule, Assigns, Mounts, Handlers, DF
  <2>3. QED BY <1>4, <2>1, <2>2 DEF Finders, DosTools
<1>5. QED BY <1>1, <1>2, <1>3, <1>4 DEF Tools, ExecTools, Finders

\* A walk that ends without a warning has seen the whole list, or has found
\* what it looked for.
LEMMA WarningIs ==
  ASSUME tool \in Tools, ~Leftover \/ found \/ RowsFull \/ AtVisitLimit,
         tool \notin Finders => ~found
  PROVE  /\ Warning \/ (~Leftover /\ (tool = "RexxPorts" => ~dropped))
                    \/ (tool \in Finders /\ found)
         /\ tool = "RexxPorts" /\ Warning => dropped \/ (Leftover /\ AtVisitLimit)
<1>1. CASE tool \in Finders
  BY <1>1, RuleIs DEF Warning, RowsFull, Finders
<1>2. CASE tool = "RexxPorts"
  <2>1. rule.warns = "dropped" /\ rule.ends = {"visits"} /\ tool \notin Finders
    BY <1>2, RuleIs DEF Finders
  <2>2. Warning <=> dropped \/ Leftover
    BY <2>1, Zenon DEF Warning
  <2>3. ~RowsFull
    BY <2>1 DEF RowsFull
  <2>4. QED BY <1>2, <2>1, <2>2, <2>3
<1>3. CASE tool \notin Finders \cup {"RexxPorts"}
  <2>1. CASE rule.warns = "full" /\ rule.ends = {"rows"}
    <3>1. Warning <=> RowsFull
      BY <2>1 DEF Warning
    <3>2. QED BY <1>3, <2>1, <3>1 DEF AtVisitLimit
  <2>2. CASE rule.warns = "full or cut"
    <3>1. Warning <=> RowsFull \/ (Leftover /\ AtVisitLimit)
      BY <2>2, Zenon DEF Warning
    <3>2. QED BY <1>3, <3>1
  <2>3. CASE rule.warns = "left over"
    <3>1. Warning <=> Leftover
      BY <2>3 DEF Warning
    <3>2. QED BY <1>3, <3>1
  <2>4. CASE rule.warns = "limits"
    <3>1. Warning <=> RowsFull \/ AtVisitLimit
      BY <2>4, Zenon DEF Warning
    <3>2. QED BY <1>3, <3>1
  <2>5. QED BY <1>3, <2>1, <2>2, <2>3, <2>4, RuleIs
<1>4. QED BY <1>1, <1>2, <1>3

\* The warning is printed, or it is not.
LEMMA WarningType ==
  ASSUME tool \in Tools, visits \in Nat, Len(list) \in Nat
  PROVE  Warning \in BOOLEAN
<1>1. rule.warns \in {"full", "full or cut", "left over", "limits", "dropped", "not found"}
  BY RuleIs
<1>2. CASE rule.warns = "left over"
  <2>1. Warning = Leftover
    BY <1>2 DEF Warning
  <2>2. Leftover \in BOOLEAN
    BY DEF Leftover
  <2>3. QED BY ONLY <2>1, <2>2
<1> USE DEF Warning, RowsFull
<1>3. CASE rule.warns = "full"
  BY ONLY <1>3
<1>4. CASE rule.warns = "full or cut"
  BY ONLY <1>4
<1>5. CASE rule.warns = "limits"
  BY ONLY <1>5
<1>6. CASE rule.warns = "dropped"
  BY ONLY <1>6
<1>7. CASE rule.warns = "not found"
  BY ONLY <1>7
<1>8. QED BY <1>1, <1>2, <1>3, <1>4, <1>5, <1>6, <1>7

-----------------------------------------------------------------------------
\* The invariant holds before main runs.
LEMMA InitInv == Init => IndInv
<1> SUFFICES ASSUME Init PROVE IndInv
  OBVIOUS
<1>1. list \in Seq(KindsOf(tool)) /\ snap \in Seq(KindsOf(tool)) /\ Len(snap) = 0
  BY DEF Init, BoundedSeq, SeqOf
<1>2. rows \in Seq(KindsOf(tool)) /\ Len(rows) = 0
  BY DEF Init
<1>3. TypeOK
  <2>1. tool \in Tools /\ samples \in 1..MaxSamples /\ changes \in 0..MaxChanges
    BY DEF Init
  <2>2. {dropped, found, warned, lib, forbid} \subseteq BOOLEAN
    BY DEF Init
  <2>3. QED BY <1>1, <1>2, <2>1, <2>2 DEF Init, TypeOK
<1>4. HeldOK /\ SamplesOK
  BY <1>2 DEF Init, HeldOK, SamplesOK, Running
<1>5. CopyOK /\ VerdictOK
  BY DEF Init, CopyOK, VerdictOK, Walked
<1>6. QED BY <1>3, <1>4, <1>5 DEF IndInv

\* The arguments, dos.library and its root, before the list is looked at.
LEMMA PrepareStep == ASSUME IndInv, ParseArgs \/ OpenDos \/ CheckRoot PROVE IndInv'
<1>0. /\ pc \in {"start", "open", "root"} /\ pc' \in {"open", "root", "forbid", "done"}
      /\ rc' \in {rc, 10, 20} /\ lib' \in BOOLEAN
      /\ IF pc' = "done" THEN rc' \in {10, 20} ELSE rc' = rc
      /\ UNCHANGED <<list, changes, tool, visits, rows, dropped, found, warned, samples,
                     seen, locks, forbid, printed, snap>>
  <2>1. lib \in BOOLEAN
    BY DEF IndInv, TypeOK
  <2>2. QED BY <2>1 DEF ParseArgs, OpenDos, CheckRoot
<1>1. TypeOK'
  BY <1>0 DEF IndInv, TypeOK, KindsOf
<1>2. HeldOK'
  <2>1. /\ lib' <=> tool \in DosTools /\ pc' \in {"root", "forbid"}
        /\ pc' \in {"open", "root"} => tool \in DosTools
    BY DEF IndInv, HeldOK, ParseArgs, OpenDos, CheckRoot
  <2>2. QED BY <1>0, <2>1 DEF IndInv, HeldOK
<1>3. SamplesOK' /\ CopyOK' /\ VerdictOK'
  BY <1>0 DEF IndInv, SamplesOK, CopyOK, VerdictOK, Walked
<1>4. QED BY <1>1, <1>2, <1>3 DEF IndInv

\* Forbid: the list is what it is until Permit.
LEMMA BeginStep == ASSUME IndInv, Begin PROVE IndInv'
<1> USE DEF IndInv, Begin
<1>1. TypeOK'
  BY DEF TypeOK, KindsOf
<1>2. HeldOK' /\ SamplesOK' /\ VerdictOK'
  BY DEF HeldOK, SamplesOK, VerdictOK, Walked
<1>3. Got' = <<>>
  <2>1. list \in Seq(KindsOf(tool)) /\ 0 \in 0..Len(list)
    BY DEF TypeOK
  <2>2. Picked(list, rule.wanted)[0] = <<>>
    BY <2>1, PickedDef DEF PickStep
  <2>3. rule' = rule
    BY DEF rule
  <2>4. QED BY <2>2, <2>3 DEF Got
<1>4. CopyOK'
  BY <1>3 DEF CopyOK
<1>5. QED BY <1>1, <1>2, <1>4

\* One entry: it is picked, or it is not wanted, or RexxPorts has no room.
LEMMA VisitStep == ASSUME IndInv, Visit PROVE IndInv'
<1> DEFINE e == list[visits + 1]
           W == rule.wanted
           fits == Len(rows) < MaxRows \/ tool # "RexxPorts"
<1>0. /\ pc = "walk" /\ visits < Len(list) /\ ~found /\ ~RowsFull
      /\ found' = (tool \in Finders /\ e \in W)
      /\ rows' = IF tool \notin Finders /\ e \in W /\ fits THEN Append(rows, e) ELSE rows
      /\ dropped' = (dropped \/ (e \in W /\ ~fits))
      /\ visits' = visits + 1
      /\ UNCHANGED <<list, changes, pc, tool, warned, samples, seen, rc, lib,
                     locks, forbid, printed, snap>>
  BY DEF Visit, Leftover
<1>1. /\ found' <=> tool \in Finders /\ e \in W
      /\ dropped' <=> dropped \/ (e \in W /\ ~fits)
  BY <1>0, Zenon
<1>2. found' \in BOOLEAN /\ dropped' \in BOOLEAN
  <2>1. dropped \in BOOLEAN
    BY DEF IndInv, TypeOK
  <2>2. found' = (tool \in Finders /\ e \in W) /\ dropped' = (dropped \/ (e \in W /\ ~fits))
    BY <1>0
  <2> HIDE DEF e, W, fits
  <2>3. QED BY ONLY <2>1, <2>2
<1>3. /\ list = snap /\ snap \in Seq(KindsOf(tool)) /\ visits \in Nat /\ Len(snap) \in Nat
      /\ visits \in 0..Len(snap) /\ visits + 1 \in 1..Len(snap) /\ visits + 1 \in 0..Len(snap)
      /\ e \in KindsOf(tool)
  <2>1. list = snap /\ snap \in Seq(KindsOf(tool)) /\ visits \in 0..Len(snap)
    BY <1>0 DEF IndInv, TypeOK, CopyOK
  <2>2. QED BY <1>0, <2>1
<1>4. tool \in Tools /\ rows \in Seq(KindsOf(tool)) /\ Len(rows) <= MaxRows /\ Len(rows) \in Nat
  BY DEF IndInv, TypeOK
<1>5. Got \in Seq(KindsOf(tool)) /\ Len(Got) \in Nat
  BY <1>3, PickedType DEF Got
<1>6. Got' = IF e \in W THEN Append(Got, e) ELSE Got
  <2>1. Got' = Picked(snap, W)[visits + 1]
    BY <1>0 DEF Got, rule
  <2>2. Picked(snap, W)[visits + 1] = PickStep(Picked(snap, W), snap, W, visits + 1)
    BY <1>3, PickedDef
  <2>3. visits + 1 # 0 /\ (visits + 1) - 1 = visits /\ snap[visits + 1] = e
    BY <1>3
  <2>4. QED BY <2>1, <2>2, <2>3 DEF PickStep, Got
<1>7. /\ Append(Got, e) \in Seq(KindsOf(tool)) /\ Append(Got, e) # <<>>
      /\ Len(Append(Got, e)) = Len(Got) + 1
      /\ \A i \in 1..Len(Got) : Append(Got, e)[i] = Got[i]
  BY ONLY <1>3, <1>5, AppendProperties
<1>8. /\ Append(rows, e) \in Seq(KindsOf(tool))
      /\ Len(Append(rows, e)) = Len(rows) + 1
  BY ONLY <1>3, <1>4, AppendProperties
<1> HIDE DEF e, W
<1>9. tool \notin Finders /\ fits => Len(rows) < MaxRows
  <2>1. tool \notin Finders \cup {"RexxPorts"} => "rows" \in rule.ends
    BY <1>4, RuleIs
  <2>2. MaxRows \in Nat
    OBVIOUS
  <2>3. QED BY <1>0, <1>4, <2>1, <2>2 DEF RowsFull
<1>10. rows' \in Seq(KindsOf(tool)) /\ Len(rows') <= MaxRows /\ Len(rows) <= Len(rows')
  <2>1. CASE tool \notin Finders /\ e \in W /\ fits
    BY <1>0, <1>4, <1>8, <1>9, <2>1
  <2>2. CASE ~(tool \notin Finders /\ e \in W /\ fits)
    BY <1>0, <1>4, <2>2
  <2>3. QED BY <2>1, <2>2
<1>11. TypeOK'
  <2>1. visits' \in 0..Len(snap') /\ printed' \in 0..MaxRows
    BY <1>0, <1>3 DEF IndInv, TypeOK
  <2>2. {dropped', found', warned', lib', forbid'} \subseteq BOOLEAN
    BY <1>0, <1>2 DEF IndInv, TypeOK
  <2>3. QED BY <1>0, <1>10, <2>1, <2>2 DEF IndInv, TypeOK, KindsOf
<1>12. HeldOK' /\ SamplesOK' /\ VerdictOK'
  <2>1. printed <= Len(rows) /\ printed \in Nat /\ Len(rows') \in Nat
    BY <1>10 DEF IndInv, HeldOK, TypeOK
  <2>2. printed' <= Len(rows')
    BY <1>0, <1>4, <1>10, <2>1
  <2>3. HeldOK'
    BY <1>0, <2>2 DEF IndInv, HeldOK
  <2>4. QED BY <1>0, <2>3 DEF IndInv, SamplesOK, VerdictOK, Walked
<1>13. CopyOK'
  <2>1. CASE tool \in Finders
    <3>1. Got = <<>> /\ rows = <<>> /\ tool # "RexxPorts"
      BY <1>0, <2>1 DEF IndInv, CopyOK, Finders
    <3>2. found' <=> Got' # <<>>
      BY <1>1, <1>6, <1>7, <2>1, <3>1
    <3>3. QED BY <1>0, <1>1, <2>1, <3>1, <3>2 DEF IndInv, CopyOK
  <2>2. CASE tool \notin Finders /\ dropped
    <3>1. /\ Len(rows) = MaxRows /\ Len(Got) > MaxRows /\ tool = "RexxPorts"
          /\ \A i \in 1..MaxRows : rows[i] = Got[i]
      BY <1>0, <2>2 DEF IndInv, CopyOK
    <3>2. ~fits /\ rows' = rows /\ dropped'
      BY <1>0, <1>1, <2>2, <3>1
    <3>3. \A i \in 1..MaxRows : i \in 1..Len(Got)
      BY <1>5, <3>1
    <3>4. Len(Got') > MaxRows /\ \A i \in 1..MaxRows : rows'[i] = Got'[i]
      <4>1. CASE e \in W
        BY <1>5, <1>6, <1>7, <3>1, <3>2, <3>3, <4>1
      <4>2. CASE e \notin W
        BY <1>6, <3>1, <3>2, <4>2
      <4>3. QED BY <4>1, <4>2
    <3>5. QED BY <1>0, <1>1, <2>2, <3>1, <3>2, <3>4 DEF IndInv, CopyOK
  <2>3. CASE tool \notin Finders /\ ~dropped
    <3>1. rows = Got
      BY <1>0, <2>3 DEF IndInv, CopyOK
    <3>2. CASE e \in W /\ ~fits
      <4>1. rows' = rows /\ dropped' /\ tool = "RexxPorts" /\ Got' = Append(Got, e)
        BY <1>0, <1>1, <1>6, <3>2
      <4>2. Len(rows) = MaxRows
        BY <1>4, <3>2
      <4>3. Len(Got') > MaxRows /\ \A i \in 1..MaxRows : rows'[i] = Got'[i]
        BY <1>7, <3>1, <4>1, <4>2
      <4>4. QED BY <1>0, <1>1, <2>3, <4>1, <4>2, <4>3 DEF IndInv, CopyOK
    <3>3. CASE ~(e \in W /\ ~fits)
      <4>1. rows' = Got' /\ ~dropped' /\ ~found'
        BY <1>0, <1>1, <1>6, <2>3, <3>1, <3>3
      <4>2. QED BY <1>0, <2>3, <4>1 DEF IndInv, CopyOK
    <3>4. QED BY <3>2, <3>3
  <2>4. QED BY <2>1, <2>2, <2>3
<1>14. QED BY <1>11, <1>12, <1>13 DEF IndInv

\* The end of the loop: the warning is about the rest of this list.
LEMMA FinishStep == ASSUME IndInv, Finish PROVE IndInv'
<1>0. /\ pc = "walk" /\ (~Leftover \/ found \/ RowsFull \/ AtVisitLimit)
      /\ warned' = Warning /\ lib' = FALSE /\ forbid' = FALSE
      /\ pc' = IF tool = "DF" THEN "lock" ELSE "print"
      /\ UNCHANGED <<list, changes, tool, visits, rows, dropped, found, samples,
                     seen, rc, locks, printed, snap>>
  BY DEF Finish
<1>1. warned' \in BOOLEAN
  <2>1. Warning \in BOOLEAN
    BY WarningType DEF IndInv, TypeOK
  <2>2. QED BY <1>0, <2>1
<1>2. TypeOK'
  BY <1>0, <1>1 DEF IndInv, TypeOK, KindsOf
<1>3. HeldOK' /\ SamplesOK'
  BY <1>0 DEF IndInv, HeldOK, SamplesOK
<1>4. Got' = Got
  BY <1>0 DEF Got, rule
<1>5. CopyOK'
  BY <1>0, <1>4 DEF IndInv, CopyOK, Walked
<1>6. VerdictOK'
  <2>1. /\ Warning \/ (~Leftover /\ (tool = "RexxPorts" => ~dropped))
                   \/ (tool \in Finders /\ found)
        /\ tool = "RexxPorts" /\ Warning => dropped \/ (Leftover /\ AtVisitLimit)
    BY <1>0, WarningIs DEF IndInv, TypeOK, CopyOK
  <2>2. /\ ~Leftover => visits = Len(snap)
        /\ Leftover /\ AtVisitLimit => Len(snap) > MaxVisits
    BY <1>0 DEF IndInv, TypeOK, CopyOK, Leftover, AtVisitLimit
  <2>3. tool # "RexxPorts" => ~dropped
    BY DEF IndInv, CopyOK
  <2>4. QED BY <1>0, <2>1, <2>2, <2>3 DEF VerdictOK
<1>7. QED BY <1>2, <1>3, <1>5, <1>6 DEF IndInv

\* DF locks a volume and asks it, after Permit.
LEMMA VolumeStep == ASSUME IndInv, LockVolume \/ InfoVolume PROVE IndInv'
<1>0. /\ pc \in {"lock", "info"} /\ tool = "DF" /\ pc' \in {"lock", "info", "print"}
      /\ UNCHANGED <<list, changes, tool, visits, rows, dropped, found, warned, samples,
                     seen, rc, lib, forbid, snap>>
  BY DEF IndInv, HeldOK, LockVolume, InfoVolume
<1>1. /\ printed' \in Nat /\ printed' <= Len(rows) /\ (pc' = "info" => printed' < Len(rows))
      /\ locks' = IF pc' = "info" THEN 1 ELSE 0
  <2>1. printed \in Nat /\ Len(rows) \in Nat /\ printed <= Len(rows)
    BY DEF IndInv, TypeOK, HeldOK
  <2>2. QED BY <2>1 DEF IndInv, HeldOK, LockVolume, InfoVolume
<1>2. TypeOK'
  <2>1. printed' \in 0..MaxRows /\ locks' \in 0..1
    BY <1>1 DEF IndInv, TypeOK
  <2>2. QED BY <1>0, <2>1 DEF IndInv, TypeOK, KindsOf
<1>3. HeldOK' /\ SamplesOK'
  BY <1>0, <1>1 DEF IndInv, HeldOK, SamplesOK
<1>4. Got' = Got
  BY <1>0 DEF Got, rule
<1>5. CopyOK' /\ VerdictOK'
  BY <1>0, <1>4 DEF IndInv, CopyOK, VerdictOK, Walked
<1>6. QED BY <1>2, <1>3, <1>5 DEF IndInv

\* Output: the end, or WatchPort's next sample.
LEMMA PrintStep == ASSUME IndInv, PrintRows PROVE IndInv'
<1>0. /\ pc = "print" /\ samples' = samples - 1
      /\ seen' = IF found THEN seen + 1 ELSE seen
      /\ \/ samples' > 0 /\ pc' = "forbid" /\ found' = FALSE /\ rc' = rc
         \/ ~(samples' > 0) /\ pc' = "done" /\ rc' = ExitCode /\ found' = found
      /\ UNCHANGED <<list, changes, tool, visits, rows, dropped, warned, lib, locks,
                     forbid, printed, snap>>
  BY DEF PrintRows
<1>1. rc = Running /\ samples \in Nat /\ samples > 0 /\ samples <= MaxSamples /\ tool \in Tools
  BY <1>0 DEF IndInv, TypeOK, HeldOK, SamplesOK
<1>2. /\ seen' \in 0..MaxSamples /\ samples' \in 0..MaxSamples
      /\ seen' + samples' <= MaxSamples /\ samples' < samples
  <2>1. seen \in Nat /\ seen + samples <= MaxSamples /\ MaxSamples \in Nat
    BY <1>1, LimitsAssumption DEF IndInv, TypeOK, SamplesOK
  <2>2. samples' = samples - 1 /\ (seen' = seen + 1 \/ seen' = seen)
    BY <1>0
  <2> QED BY ONLY <1>1, <2>1, <2>2
<1>3. ExitCode \in {0, 5} /\ (tool = "RexxPorts" /\ ExitCode = 5 => warned)
  BY <1>1 DEF ExitCode
<1>4. pc' = "forbid" => tool = "WatchPort" /\ rows = <<>> /\ ~dropped
  BY <1>0, <1>1 DEF IndInv, SamplesOK, CopyOK, Finders
<1>5. TypeOK'
  <2>1. rc' \in {Running, 0, 5, 10, 20} /\ found' \in BOOLEAN
    BY <1>0, <1>1, <1>3 DEF IndInv, TypeOK
  <2>2. QED BY <1>0, <1>2, <2>1 DEF IndInv, TypeOK, KindsOf
<1>6. HeldOK' /\ SamplesOK'
  <2>1. "WatchPort" \notin DosTools
    BY DEF DosTools
  <2>2. QED BY <1>0, <1>1, <1>2, <1>4, <2>1 DEF IndInv, HeldOK, SamplesOK
<1>7. Got' = Got
  BY <1>0 DEF Got, rule
<1>8. CopyOK'
  BY <1>0, <1>1, <1>4, <1>7 DEF IndInv, CopyOK, Walked, Finders, Running
<1>9. VerdictOK'
  BY <1>0, <1>1, <1>3 DEF IndInv, VerdictOK, Walked, Running
<1>10. QED BY <1>5, <1>6, <1>8, <1>9 DEF IndInv

\* Another task changes the list, but not during the walk.
LEMMA ChangeStep == ASSUME IndInv, ListChanges PROVE IndInv'
<1>0. /\ pc # "done" /\ pc # "walk" /\ changes < MaxChanges /\ changes' = changes + 1
      /\ UNCHANGED <<pc, tool, visits, rows, dropped, found, warned, samples, seen,
                     rc, lib, locks, forbid, printed, snap>>
  BY DEF ListChanges, Forbidden, IndInv, HeldOK
<1>1. list \in Seq(KindsOf(tool))
  BY DEF IndInv, TypeOK
<1>2. list' \in Seq(KindsOf(tool))
  <2>1. CASE \E k \in KindsOf(tool) : list' = <<k>> \o list
    BY <1>1, <2>1
  <2>2. CASE \E i \in DOMAIN list : list' = RemoveAt(list, i)
    <3>1. PICK i \in DOMAIN list : list' = SubSeq(list, 1, i - 1) \o SubSeq(list, i + 1, Len(list))
      BY <2>2 DEF RemoveAt
    <3>2. SubSeq(list, 1, i - 1) \in Seq(KindsOf(tool))
      BY <1>1, <3>1, SubSeqProperties
    <3>3. SubSeq(list, i + 1, Len(list)) \in Seq(KindsOf(tool))
      BY <1>1, <3>1, SubSeqProperties
    <3>4. QED BY ONLY <3>1, <3>2, <3>3, ConcatProperties
  <2>3. QED BY <2>1, <2>2 DEF ListChanges
<1>3. TypeOK'
  BY <1>0, <1>2 DEF IndInv, TypeOK, KindsOf
<1>4. Got' = Got
  BY <1>0 DEF Got, rule
<1>5. HeldOK' /\ SamplesOK' /\ CopyOK' /\ VerdictOK'
  BY <1>0, <1>4 DEF IndInv, HeldOK, SamplesOK, CopyOK, VerdictOK, Walked
<1>6. QED BY <1>3, <1>5 DEF IndInv

\* Every step of the tool and of the other tasks keeps the invariant.
LEMMA NextInv == IndInv /\ [Next]_vars => IndInv'
<1> SUFFICES ASSUME IndInv, [Next]_vars PROVE IndInv'
  OBVIOUS
<1>1. CASE UNCHANGED vars
  <2>1. Got' = Got
    BY <1>1 DEF vars, Got, rule
  <2>2. QED
    BY <1>1, <2>1 DEF vars, IndInv, TypeOK, KindsOf, HeldOK, SamplesOK, CopyOK,
                      VerdictOK, Walked
<1>2. CASE Next
  BY <1>2, PrepareStep, BeginStep, VisitStep, FinishStep, VolumeStep, PrintStep,
     ChangeStep DEF Next
<1>3. QED BY <1>1, <1>2

\* The inductive invariant holds in every reachable state.
LEMMA Invariance == Spec => []IndInv
BY InitInv, NextInv, PTL DEF Spec

\* How the entries visited stand to all of the list.
LEMMA GotIs ==
  ASSUME TypeOK
  PROVE  /\ Got \in Seq(KindsOf(tool)) /\ All \in Seq(KindsOf(tool))
         /\ Len(Got) \in Nat /\ Len(All) \in Nat /\ Len(Got) <= Len(All)
         /\ \A i \in 1..Len(Got) : All[i] = Got[i]
         /\ visits = Len(snap) => Got = All
         /\ Got # <<>> => All # <<>>
<1>1. snap \in Seq(KindsOf(tool)) /\ visits \in 0..Len(snap) /\ Len(snap) \in Nat
  BY DEF TypeOK
<1>2. Got \in Seq(KindsOf(tool))
  BY <1>1, PickedType DEF Got
<1>3. Len(snap) \in visits..Len(snap)
  BY <1>1
<1>4. /\ All \in Seq(KindsOf(tool)) /\ Len(Got) <= Len(All)
      /\ \A i \in 1..Len(Got) : All[i] = Got[i]
  <2> DEFINE W == rule.wanted
             K == KindsOf(tool)
             last == Len(snap)
  <2>1. Got = Picked(snap, W)[visits] /\ All = Picked(snap, W)[last]
    BY DEF Got, All
  <2>2. /\ snap \in Seq(K) /\ visits \in 0..Len(snap) /\ last \in visits..Len(snap)
        /\ Picked(snap, W)[visits] \in Seq(K)
    BY <1>1, <1>2, <1>3, <2>1
  <2> HIDE DEF W, K, last
  <2>3. /\ Picked(snap, W)[last] \in Seq(K)
        /\ Continues(Picked(snap, W)[last], Picked(snap, W)[visits])
    BY ONLY <2>2, PickedGrows
  <2>4. QED BY <2>1, <2>3 DEF K, Continues
<1>5. visits = Len(snap) => Got = All
  BY DEF Got, All
<1>6. Got # <<>> => All # <<>>
  <2>1. Got # <<>> => Len(Got) > 0
    BY <1>2, EmptySeq
  <2>2. QED BY <1>2, <1>4, <2>1
<1>7. QED BY <1>2, <1>4, <1>5, <1>6

-----------------------------------------------------------------------------
\* Every variable of the tool keeps its type: rows[] is never overrun, and no
\* entry behind the end of the list is visited.
THEOREM TypeCorrect == Spec => []TypeOK
<1>1. IndInv => TypeOK
  BY DEF IndInv
<1>2. QED BY <1>1, Invariance, PTL

\* Every ending has closed dos.library, released every volume lock and called
\* Permit, whichever way the loop or the preparations ended.
THEOREM NoLeak == Spec => []NothingHeldAtExit
<1>1. IndInv => NothingHeldAtExit
  BY DEF IndInv, HeldOK, NothingHeldAtExit
<1>2. QED BY <1>1, Invariance, PTL

\* The rows printed are the first wanted entries of the list at Forbid.
THEOREM OneMoment == Spec => []RowsAreOneMoment
<1>1. ASSUME IndInv, Walked, tool \notin Finders
      PROVE  IsPrefix(rows, All) /\ Len(rows) <= MaxRows
  <2>1. /\ rows \in Seq(KindsOf(tool)) /\ Len(rows) \in Nat /\ Len(rows) <= MaxRows
        /\ TypeOK /\ MaxRows \in Nat
    BY <1>1 DEF IndInv, TypeOK
  <2>2. Len(rows) <= Len(Got) /\ \A i \in 1..Len(rows) : rows[i] = Got[i]
    <3>1. CASE dropped
      BY <1>1, <2>1, <3>1, GotIs DEF IndInv, CopyOK
    <3>2. CASE ~dropped
      BY <1>1, <2>1, <3>2 DEF IndInv, CopyOK
    <3>3. QED BY <3>1, <3>2
  <2>3. Len(rows) <= Len(All) /\ \A i \in 1..Len(rows) : rows[i] = All[i]
    <3>1. /\ Len(Got) \in Nat /\ Len(All) \in Nat /\ Len(Got) <= Len(All)
          /\ \A i \in 1..Len(Got) : All[i] = Got[i]
      BY <2>1, GotIs
    <3>2. \A i \in 1..Len(rows) : i \in 1..Len(Got)
      BY <2>1, <2>2, <3>1
    <3>3. QED BY <2>1, <2>2, <3>1, <3>2
  <2>4. All \in Seq(KindsOf(tool))
    BY <2>1, GotIs
  <2>5. QED BY <2>1, <2>3, <2>4, PrefixIs
<1>2. IndInv => RowsAreOneMoment
  BY <1>1 DEF RowsAreOneMoment
<1>3. QED BY <1>2, Invariance, PTL

\* A wanted entry that is missing, or was not reached, comes with a warning,
\* and RexxPorts fails only when it could not keep or not visit a port.
THEOREM LossIsTold == Spec => []NoSilentLoss
<1>1. ASSUME IndInv, Walked
      PROVE  /\ warned \/ (IF tool \in Finders THEN found = (All # <<>>) ELSE rows = All)
             /\ pc = "done" /\ tool = "RexxPorts" /\ rc = 5 =>
                  Len(All) > MaxRows \/ Len(snap) > MaxVisits
  <2>1. /\ Len(Got) \in Nat /\ Len(All) \in Nat /\ Len(Got) <= Len(All)
        /\ visits = Len(snap) => Got = All
        /\ Got # <<>> => All # <<>>
    BY <1>1, GotIs DEF IndInv
  <2>2. /\ warned \/ (visits = Len(snap) /\ ~dropped) \/ (tool \in Finders /\ found)
        /\ tool = "RexxPorts" /\ warned => dropped \/ Len(snap) > MaxVisits
        /\ pc = "done" /\ tool = "RexxPorts" /\ rc = 5 => warned
    BY <1>1 DEF IndInv, VerdictOK
  <2>3. IF tool \in Finders THEN found <=> Got # <<>>
        ELSE IF dropped THEN Len(Got) > MaxRows ELSE rows = Got
    BY <1>1 DEF IndInv, CopyOK
  <2>4. found \in BOOLEAN /\ MaxRows \in Nat
    BY <1>1 DEF IndInv, TypeOK
  <2>5. ASSUME ~warned, tool \in Finders PROVE found = (All # <<>>)
    <3>1. found <=> All # <<>>
      BY <2>1, <2>2, <2>3, <2>5
    <3>2. QED BY ONLY <2>4, <3>1
  <2>6. ~warned /\ tool \notin Finders => rows = All
    BY <2>1, <2>2, <2>3
  <2>7. pc = "done" /\ tool = "RexxPorts" /\ rc = 5 =>
          Len(All) > MaxRows \/ Len(snap) > MaxVisits
    BY <2>1, <2>2, <2>3, <2>4 DEF Finders
  <2>8. QED BY <2>5, <2>6, <2>7
<1>2. IndInv => NoSilentLoss
  BY <1>1 DEF NoSilentLoss
<1>3. QED BY <1>2, Invariance, PTL
=============================================================================
