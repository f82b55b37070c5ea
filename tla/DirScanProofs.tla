---------------------------- MODULE DirScanProofs ----------------------------
(***************************************************************************)
(* Proofs about DU, Find and Tree: for trees of any size and any limits,   *)
(* the recursion keeps its paths and its locks in order, return code 0     *)
(* means a complete scan, and return code 5 has a cause.                   *)
(***************************************************************************)
EXTENDS DirScan, FiniteSetTheorems, SequenceTheorems, WellFoundedInduction, TLAPS

\* The tree: a node lies below a directory with a smaller number.
TreeOK ==
  /\ node[Root].fits
  /\ \A n \in Nodes : parent[n] <= n
  /\ \A n \in Nodes : Present(n) => Present(parent[n]) /\ node[parent[n]].dir

\* The directory that is about to be opened.
Opening == pc \in {"args", "lock", "examine"}
Waiting == IF Opening THEN {Here} ELSE {}

\* A frame and the one it was called from: its path is still in the caller's
\* buffer, and its entries have either been delivered or are left.
FrameOK(i) ==
  /\ i = 1 => stack[i].node = Root
  /\ i # 1 => /\ stack[i].node \in seen /\ parent[stack[i].node] = stack[i - 1].node
              /\ slot[i - 2] = stack[i].node
  /\ Present(stack[i].node) /\ TreeDepth[stack[i].node] = i - 1
  /\ stack[i].left \subseteq Kids(stack[i].node) /\ stack[i].left \cap seen = {}
  /\ Kids(stack[i].node) \ stack[i].left \subseteq seen
  /\ stack[i].entries = Cardinality(Kids(stack[i].node) \ stack[i].left)

FramesOK == \A i \in 1..Len(stack) : FrameOK(i)

StackOK ==
  /\ pc \in {"args", "report", "done"} => stack = <<>>
  /\ pc = "loop" => stack # <<>>
  /\ Opening => Kids(Here) \cap seen = {}
  /\ Opening /\ stack = <<>> => seen = {}
  /\ Opening /\ stack # <<>> =>
       /\ Len(stack) <= MaxDepth
       /\ Here \in seen /\ parent[Here] = Top.node /\ node[Here].dir
  /\ locks = Len(stack) + IF pc = "examine" THEN 1 ELSE 0

\* What has been delivered lies below what has been delivered.
SeenOK == \A n \in seen : Present(n) /\ (parent[n] = Root \/ parent[n] \in seen)

CodeOK ==
  /\ pc # "done" => rc = Running
  /\ pc = "done" => rc = 10 \/ rc = IF count.errors # 0 THEN 5 ELSE 0

ShapeOK == TypeOK /\ TreeOK /\ FramesOK /\ StackOK /\ SeenOK /\ CodeOK

-----------------------------------------------------------------------------
\* The limits are numbers.
LEMMA Constants ==
  /\ NumNodes \in Nat /\ MaxDepth \in Nat /\ MaxWord \in Nat
  /\ MaxEntries \in Nat /\ MaxEntries >= 1 /\ Sizes \subseteq Int
BY ScanAssumption DEF ScanAssumption

\* A set of naturals that is not empty has a smallest element, which Min is.
LEMMA LeastNat ==
  ASSUME NEW S, S \subseteq Nat, S # {}
  PROVE  Min(S) \in S /\ \A n \in S : Min(S) <= n
<1>1. PICK m \in S : \A n \in S : ~(<<n, m>> \in OpToRel(<, Nat))
  BY NatLessThanWellFounded, WFMin
<1>2. \A n \in S : ~(n < m)
  BY <1>1 DEF OpToRel
<1>3. \A n \in S : m <= n
  BY <1>2
<1>4. QED BY <1>3 DEF Min

USE Constants

\* The tree does not change.
LEMMA DiskFrame ==
  ASSUME UNCHANGED disk
  PROVE  /\ parent' = parent /\ node' = node /\ TreeDepth' = TreeDepth
         /\ Dirs' = Dirs /\ Files' = Files
         /\ \A n : Present(n)' <=> Present(n)
         /\ \A d : Kids(d)' = Kids(d)
         /\ \A S : Total(S)' = Total(S)
<1>1. parent' = parent /\ node' = node
  BY DEF disk
<1>2. TreeDepth' = TreeDepth
  BY <1>1 DEF TreeDepth, Present
<1>3. \A n : Present(n)' <=> Present(n)
  BY <1>1 DEF Present
<1>4. \A d : Kids(d)' = Kids(d)
  BY <1>1 DEF Kids
<1>5. Dirs' = Dirs /\ Files' = Files
  BY <1>1 DEF Dirs, Files, Present
<1>6. \A S : Total(S)' = Total(S)
  BY <1>1 DEF Total, Size
<1> QED BY <1>1, <1>2, <1>3, <1>4, <1>5, <1>6

-----------------------------------------------------------------------------
(***************************************************************************)
(* The depth of a node: the recursion is well founded.                     *)
(***************************************************************************)
DepthStep(g, n) == IF n = Root \/ ~Present(n) THEN 0 ELSE 1 + g[parent[n]]

Deep(g, m) == g = [n \in 0..m |-> DepthStep(g, n)]

LEMMA DepthExists ==
  ASSUME TypeOK, TreeOK
  PROVE  \A m \in All : \E g : Deep(g, m)
<1> DEFINE T == {m \in All : ~\E g : Deep(g, m)}
<1> SUFFICES ASSUME T # {} PROVE FALSE
  OBVIOUS
<1>1. PICK m \in T : \A k \in T : m <= k
  <2>1. T \subseteq Nat
    BY DEF All
  <2> HIDE DEF T
  <2> QED BY <2>1, LeastNat
<1>2. m \in Nat /\ m <= NumNodes
  BY DEF All
<1>3. CASE m = 0
  <2> DEFINE g == [n \in 0..0 |-> 0]
  <2>1. \A n \in 0..0 : DepthStep(g, n) = 0
    BY DEF DepthStep, Root
  <2>2. g = [n \in 0..0 |-> 0]
    OBVIOUS
  <2> HIDE DEF g
  <2>3. Deep(g, 0)
    BY <2>1, <2>2 DEF Deep
  <2> QED BY <1>1, <1>3, <2>3
<1>4. CASE m # 0
  <2>1. m - 1 \in All /\ m - 1 \notin T
    <3>1. m - 1 \in All /\ ~(m <= m - 1)
      BY <1>2, <1>4 DEF All
    <3> HIDE DEF T
    <3> QED BY <1>1, <3>1
  <2>2. PICK g : Deep(g, m - 1)
    BY <2>1
  <2> HIDE DEF T
  <2> DEFINE h == [n \in 0..m |-> IF n = m THEN DepthStep(g, m) ELSE g[n]]
  <2>3. ASSUME NEW n \in 0..m PROVE h[n] = DepthStep(h, n)
    <3>1. n # m => n \in 0..(m - 1)
      BY <1>2
    <3>2. h[n] = DepthStep(g, n)
      BY <2>2, <3>1 DEF Deep
    <3>3. n # Root /\ Present(n) => parent[n] \in 0..m /\ parent[n] # m
      <4> SUFFICES ASSUME n # Root, Present(n) PROVE parent[n] \in 0..m /\ parent[n] # m
        OBVIOUS
      <4>1. n \in Nodes
        BY <1>2 DEF Nodes, Root
      <4>2. parent[n] \in Nat /\ parent[n] <= n /\ parent[n] # n
        BY <4>1 DEF TypeOK, TreeOK, Present, Root, All
      <4> QED BY <1>2, <4>2
    <3>4. n # Root /\ Present(n) => h[parent[n]] = g[parent[n]]
      BY <3>3
    <3> HIDE DEF h
    <3> QED BY <3>2, <3>4 DEF DepthStep
  <2>4. h = [n \in 0..m |-> h[n]]
    OBVIOUS
  <2> HIDE DEF h
  <2>5. Deep(h, m)
    BY <2>3, <2>4 DEF Deep
  <2> QED BY <1>1, <2>5 DEF T
<1> QED BY <1>3, <1>4

\* TreeDepth satisfies its recursive definition.
LEMMA DepthDef ==
  ASSUME TypeOK, TreeOK, NEW n \in All
  PROVE  TreeDepth[n] = IF n = Root \/ ~Present(n) THEN 0 ELSE 1 + TreeDepth[parent[n]]
<1>1. TreeDepth = CHOOSE g : Deep(g, NumNodes)
  BY DEF TreeDepth, Deep, DepthStep, All
<1>2. NumNodes \in All
  BY DEF All
<1>3. Deep(TreeDepth, NumNodes)
  BY <1>1, <1>2, DepthExists
<1> QED BY <1>3 DEF Deep, DepthStep, All

-----------------------------------------------------------------------------
(***************************************************************************)
(* Paths and locks.                                                        *)
(***************************************************************************)
Frame == [node : All, entries : Nat, left : SUBSET Nodes]

\* The entries of a directory are finitely many nodes below it.
LEMMA KidsAre ==
  ASSUME NEW d
  PROVE  /\ Kids(d) \subseteq Nodes /\ IsFiniteSet(Kids(d))
         /\ \A n \in Kids(d) : n # Root /\ Present(n) /\ parent[n] = d
<1>1. Kids(d) \subseteq Nodes
  BY DEF Kids
<1>2. IsFiniteSet(Nodes)
  BY FS_Interval DEF Nodes
<1>3. IsFiniteSet(Kids(d))
  BY <1>1, <1>2, FS_Subset
<1>4. \A n \in Kids(d) : n # Root /\ Present(n) /\ parent[n] = d
  BY DEF Kids, Present, Nodes, Root
<1> QED BY <1>1, <1>3, <1>4

\* No directory is open twice.
LEMMA FramesDiffer ==
  ASSUME ShapeOK, NEW i \in 1..Len(stack), NEW j \in 1..Len(stack),
         stack[i].node = stack[j].node
  PROVE  i = j
<1>1. TreeDepth[stack[i].node] = i - 1 /\ TreeDepth[stack[j].node] = j - 1
  BY DEF ShapeOK, FramesOK, FrameOK
<1>2. i \in Int /\ j \in Int
  OBVIOUS
<1> QED BY <1>1, <1>2

\* The frames that a step leaves alone.
LEMMA FrameKept ==
  ASSUME UNCHANGED disk, NEW i \in Nat, i >= 1, FrameOK(i),
         stack'[i] = stack[i],
         i # 1 => stack'[i - 1].node = stack[i - 1].node /\ slot'[i - 2] = slot[i - 2],
         NEW M, seen' = seen \cup M, M \cap stack[i].left = {}
  PROVE  FrameOK(i)'
<1>1. /\ parent' = parent /\ TreeDepth' = TreeDepth
      /\ \A n : Present(n)' <=> Present(n)
      /\ \A d : Kids(d)' = Kids(d)
  BY DiskFrame
<1>2. (i = 1 => stack[i].node = Root)'
  BY DEF FrameOK
<1>3. (i # 1 => /\ stack[i].node \in seen /\ parent[stack[i].node] = stack[i - 1].node
                /\ slot[i - 2] = stack[i].node)'
  BY <1>1 DEF FrameOK
<1>4. (Present(stack[i].node) /\ TreeDepth[stack[i].node] = i - 1)'
  BY <1>1 DEF FrameOK
<1>5. (stack[i].left \subseteq Kids(stack[i].node) /\ stack[i].left \cap seen = {})'
  BY <1>1 DEF FrameOK
<1>6. (Kids(stack[i].node) \ stack[i].left \subseteq seen)'
  BY <1>1 DEF FrameOK
<1>7. (stack[i].entries = Cardinality(Kids(stack[i].node) \ stack[i].left))'
  BY <1>1 DEF FrameOK
<1> QED BY <1>2, <1>3, <1>4, <1>5, <1>6, <1>7 DEF FrameOK

\* A step that neither opens nor leaves a directory nor reads an entry.
LEMMA SameStack ==
  ASSUME ShapeOK, UNCHANGED <<tool, disk, stack, slot, seen>>
  PROVE  /\ TreeOK' /\ FramesOK' /\ SeenOK' /\ Here' = Here /\ Top' = Top
         /\ (Kids(Here))' = Kids(Here)
<1>1. /\ parent' = parent /\ node' = node
      /\ \A n : Present(n)' <=> Present(n)
      /\ \A d : Kids(d)' = Kids(d)
  BY DiskFrame
<1>2. TreeOK'
  BY <1>1 DEF ShapeOK, TreeOK
<1>3. FramesOK'
  <2> SUFFICES ASSUME NEW i \in 1..Len(stack) PROVE FrameOK(i)'
    BY DEF FramesOK
  <2>1. FrameOK(i) /\ i \in Nat /\ i >= 1
    BY DEF ShapeOK, FramesOK
  <2>2. seen' = seen \cup {} /\ {} \cap stack[i].left = {}
    OBVIOUS
  <2> QED BY <2>1, <2>2, FrameKept
<1>4. SeenOK'
  BY <1>1 DEF ShapeOK, SeenOK
<1>5. Here' = Here /\ Top' = Top
  BY DEF Here, Top, ChildSlot
<1>6. (Kids(Here))' = Kids(Here)
  BY <1>1, <1>5
<1> QED BY <1>2, <1>3, <1>4, <1>5, <1>6

\* What AddSize returns is a word.
LEMMA AddSizeType ==
  ASSUME NEW t \in 0..MaxWord, NEW s \in Int
  PROVE  AddSize(t, s) \in 0..MaxWord
<1>1. CASE s <= 0
  <2>1. AddSize(t, s) = t
    BY <1>1 DEF AddSize
  <2> QED BY <2>1
<1>2. CASE s > 0 /\ MaxWord - t < s
  <2>1. ~(s <= 0)
    BY <1>2
  <2>2. AddSize(t, s) = MaxWord
    BY <1>2, <2>1, Zenon DEF AddSize
  <2> QED BY <2>2
<1>3. CASE s > 0 /\ ~(MaxWord - t < s)
  <2>1. ~(s <= 0)
    BY <1>3
  <2>2. AddSize(t, s) = t + s
    BY <1>3, <2>1, Zenon DEF AddSize
  <2> QED BY <1>3, <2>2
<1> QED BY <1>1, <1>2, <1>3

Counters == [files : Nat, dirs : Nat, hits : Nat, bytes : 0..MaxWord, errors : Nat]

\* What the tools do to their counters.
LEMMA CountersAre ==
  ASSUME NEW c \in Counters, node \in [All -> Attributes], NEW n \in All,
         tool \in {"DU", "Find", "Tree"}
  PROVE  /\ Error(c) \in Counters /\ Error(c).errors = c.errors + 1
         /\ File(c, n) \in Counters /\ File(c, n).errors = c.errors
         /\ Counted(c, n) \in Counters /\ Counted(c, n).errors = c.errors
<1>1. Error(c) \in Counters /\ Error(c).errors = c.errors + 1
  BY DEF Error, Counters
<1>2. File(c, n) \in Counters /\ File(c, n).errors = c.errors
  <2>1. CASE tool = "DU"
    <3>1. File(c, n) = [c EXCEPT !.files = @ + 1, !.bytes = AddSize(@, node[n].size)]
      BY <2>1, Zenon DEF File
    <3>2. node[n].size \in Int /\ c.bytes \in 0..MaxWord
      BY DEF Attributes, Counters
    <3>3. AddSize(c.bytes, node[n].size) \in 0..MaxWord
      BY <3>2, AddSizeType
    <3> DEFINE z == AddSize(c.bytes, node[n].size)
    <3>4. File(c, n) = [c EXCEPT !.files = c.files + 1, !.bytes = z]
      BY <3>1 DEF Counters
    <3>5. z \in 0..MaxWord
      BY <3>3
    <3> HIDE DEF z
    <3>6. File(c, n) = [files |-> c.files + 1, dirs |-> c.dirs, hits |-> c.hits,
                        bytes |-> z, errors |-> c.errors]
      BY <3>4 DEF Counters
    <3>7. c.files \in Nat /\ c.dirs \in Nat /\ c.hits \in Nat /\ c.errors \in Nat
      BY DEF Counters
    <3> QED BY <3>5, <3>6, <3>7 DEF Counters
  <2>2. CASE tool = "Tree"
    <3>1. File(c, n) = [c EXCEPT !.files = @ + 1]
      <4>1. tool # "DU"
        BY <2>2
      <4> QED BY <2>2, <4>1, Zenon DEF File
    <3> QED BY <3>1 DEF Counters
  <2>3. CASE tool = "Find"
    <3>1. File(c, n) = c
      <4>1. tool # "DU" /\ tool # "Tree"
        BY <2>3
      <4> QED BY <2>3, <4>1, Zenon DEF File
    <3> QED BY <3>1
  <2> QED BY <2>1, <2>2, <2>3
<1>3. Counted(c, n) \in Counters /\ Counted(c, n).errors = c.errors
  <2> DEFINE d == [c EXCEPT !.dirs = IF tool = "Tree" /\ node[n].dir THEN @ + 1 ELSE @]
  <2>1. d \in Counters /\ d.errors = c.errors
    <3>1. d = [c EXCEPT !.dirs = c.dirs + 1] \/ d = [c EXCEPT !.dirs = c.dirs]
      OBVIOUS
    <3> HIDE DEF d
    <3> QED BY <3>1 DEF Counters
  <2>2. Counted(c, n) = Match(d, n)
    BY DEF Counted
  <2> HIDE DEF d
  <2>3. Match(d, n) = d \/ Match(d, n) = [d EXCEPT !.hits = d.hits + 1]
    BY DEF Match
  <2> QED BY <2>1, <2>2, <2>3 DEF Counters
<1> QED BY <1>1, <1>2, <1>3

\* The steps that leave the stack as it is: the arguments, Lock, an Examine that
\* does not open a directory, the report.
LEMMA CallStep ==
  ASSUME ShapeOK, UNCHANGED <<tool, disk, stack, slot, seen>>, TypeOK', CodeOK',
         pc' \in {"args", "report", "done"} => stack = <<>>,
         pc' = "loop" => stack # <<>>,
         Opening' => Opening,
         locks' = Len(stack) + IF pc' = "examine" THEN 1 ELSE 0
  PROVE  ShapeOK'
<1>1. /\ TreeOK' /\ FramesOK' /\ SeenOK' /\ Here' = Here /\ Top' = Top
      /\ (Kids(Here))' = Kids(Here) /\ parent' = parent /\ node' = node
  BY SameStack, DiskFrame
<1>2. StackOK'
  BY <1>1 DEF ShapeOK, StackOK
<1> QED BY <1>1, <1>2 DEF ShapeOK

LEMMA ParseArgsStep ==
  ASSUME ShapeOK, ParseArgs
  PROVE  ShapeOK'
<1>1. /\ pc = "args" /\ UNCHANGED <<tool, disk, stack, slot, count, locks, cut, failed, seen>>
      /\ \/ pc' = "lock" /\ rc' = rc
         \/ pc' = "done" /\ rc' = 10
  BY DEF ParseArgs
<1>2. TypeOK' /\ CodeOK'
  BY <1>1 DEF ShapeOK, TypeOK, CodeOK, disk
<1>3. stack = <<>> /\ locks = Len(stack) + 0
  BY <1>1 DEF ShapeOK, StackOK
<1> QED BY <1>1, <1>2, <1>3, CallStep DEF Opening

\* Where scan_dir returns to.
LEMMA ReturnIs ==
  ASSUME NEW s, ReturnTo(s)
  PROVE  /\ stack' = s /\ pc' \in {"report", "loop"}
         /\ pc' = "report" <=> s = <<>>
BY DEF ReturnTo

LEMMA LockDirStep ==
  ASSUME ShapeOK, LockDir
  PROVE  ShapeOK'
<1>1. pc = "lock" /\ UNCHANGED <<tool, disk, slot, cut, seen, rc>>
  BY DEF LockDir
<1>2. /\ count \in Counters /\ locks = Len(stack) + 0 /\ Len(stack) \in Nat
      /\ Len(stack) <= MaxDepth /\ rc = Running /\ node \in [All -> Attributes]
      /\ tool \in {"DU", "Find", "Tree"}
  BY <1>1 DEF ShapeOK, TypeOK, StackOK, CodeOK, Counters, Opening
<1>3. CASE locks' = locks + 1 /\ pc' = "examine" /\ UNCHANGED <<stack, count, failed>>
  <2>1. locks' = Len(stack) + 1
    BY <1>2, <1>3
  <2>2. TypeOK' /\ CodeOK'
    BY <1>1, <1>2, <1>3 DEF ShapeOK, TypeOK, CodeOK, disk
  <2> QED BY <1>1, <1>3, <2>1, <2>2, CallStep DEF Opening
<1>4. CASE count' = Error(count) /\ failed' = TRUE /\ ReturnTo(stack) /\ UNCHANGED locks
  <2>1. stack' = stack /\ pc' \in {"report", "loop"} /\ (pc' = "report" <=> stack = <<>>)
    BY <1>4, ReturnIs
  <2>2. count' \in Counters
    BY <1>2, <1>4 DEF Error, Counters
  <2>3. TypeOK' /\ CodeOK'
    BY <1>1, <1>2, <1>4, <2>1, <2>2 DEF ShapeOK, TypeOK, CodeOK, disk, Counters
  <2> QED BY <1>1, <1>2, <1>4, <2>1, <2>3, CallStep DEF Opening
<1> QED BY <1>3, <1>4 DEF LockDir

LEMMA ReportStep ==
  ASSUME ShapeOK, Report
  PROVE  ShapeOK'
<1>1. /\ pc = "report" /\ pc' = "done" /\ rc' = IF count.errors # 0 THEN 5 ELSE 0
      /\ UNCHANGED <<tool, disk, stack, slot, count, locks, cut, failed, seen>>
  BY DEF Report
<1>2. TypeOK' /\ CodeOK'
  BY <1>1 DEF ShapeOK, TypeOK, CodeOK, disk
<1>3. stack = <<>> /\ locks = Len(stack) + 0
  BY <1>1 DEF ShapeOK, StackOK
<1> QED BY <1>1, <1>2, <1>3, CallStep DEF Opening

\* The directory that is about to be opened lies at the depth of its frame.
LEMMA HereIs ==
  ASSUME ShapeOK, Opening
  PROVE  /\ Here \in All /\ Present(Here) /\ TreeDepth[Here] = Len(stack)
         /\ stack = <<>> => Here = Root
         /\ stack # <<>> => /\ Len(stack) \in 1..Len(stack) /\ parent[Here] = stack[Len(stack)].node
                            /\ Here \in seen /\ slot[Len(stack) - 1] = Here /\ node[Here].dir
         /\ Len(stack) <= MaxDepth
<1>0. stack \in Seq(Frame) /\ Len(stack) \in Nat
  BY DEF ShapeOK, TypeOK, Frame
<1>1. CASE stack = <<>>
  <2>1. Here = Root /\ Root \in All /\ Present(Root) /\ Len(stack) = 0
    BY <1>1 DEF Here, Root, All, Present
  <2>2. TreeDepth[Root] = 0
    BY <2>1, DepthDef DEF ShapeOK
  <2> QED BY <1>1, <2>1, <2>2
<1>2. CASE stack # <<>>
  <2>1. Len(stack) \in 1..Len(stack)
    BY <1>0, <1>2, EmptySeq
  <2>2. Here \in seen /\ parent[Here] = Top.node /\ node[Here].dir /\ Len(stack) <= MaxDepth
    BY <1>2 DEF ShapeOK, StackOK
  <2>3. slot[Len(stack) - 1] = Here
    BY <1>2 DEF Here, ChildSlot
  <2>4. Here \in Nodes /\ Here \in All /\ Here # Root /\ Present(Here)
    BY <2>2 DEF ShapeOK, TypeOK, SeenOK, Nodes, All, Root
  <2>5. TreeDepth[Here] = 1 + TreeDepth[parent[Here]]
    BY <2>4, DepthDef DEF ShapeOK
  <2>6. TreeDepth[Top.node] = Len(stack) - 1
    BY <2>1 DEF ShapeOK, FramesOK, FrameOK, Top
  <2>7. TreeDepth[Here] = Len(stack)
    BY <1>0, <2>2, <2>5, <2>6
  <2> QED BY <1>2, <2>1, <2>2, <2>3, <2>4, <2>7 DEF Top
<1> QED BY <1>1, <1>2

\* scan_dir opens a directory.
LEMMA OpenStep ==
  ASSUME ShapeOK, pc = "examine", pc' = "loop", UNCHANGED <<tool, disk, slot, seen, locks>>,
         stack' = Append(stack, [node |-> Here, entries |-> 0, left |-> Kids(Here)]),
         TypeOK', CodeOK'
  PROVE  ShapeOK'
<1> DEFINE f == [node |-> Here, entries |-> 0, left |-> Kids(Here)]
           L == Len(stack)
<1>1. stack \in Seq(Frame) /\ L \in Nat
  BY DEF ShapeOK, TypeOK, Frame
<1>2. /\ Here \in All /\ Present(Here) /\ TreeDepth[Here] = L
      /\ stack = <<>> => Here = Root
      /\ stack # <<>> => /\ L \in 1..L /\ parent[Here] = stack[L].node
                         /\ Here \in seen /\ slot[L - 1] = Here
      /\ L <= MaxDepth
  BY HereIs DEF Opening
<1>3. f \in Frame
  BY <1>2, KidsAre DEF Frame
<1>4. /\ f.node = Here /\ f.entries = 0 /\ f.left = Kids(Here)
  OBVIOUS
<1> HIDE DEF f
<1>5. /\ Len(Append(stack, f)) = L + 1 /\ Append(stack, f)[L + 1] = f
      /\ \A k \in 1..L : Append(stack, f)[k] = stack[k]
  BY ONLY <1>1, <1>3, AppendProperties
<1>6. stack' = Append(stack, f)
  BY DEF f
<1>7. /\ parent' = parent /\ node' = node /\ TreeDepth' = TreeDepth
      /\ \A n : Present(n)' <=> Present(n)
      /\ \A d : Kids(d)' = Kids(d)
  BY DiskFrame
<1>8. TreeOK' /\ SeenOK'
  BY <1>7 DEF ShapeOK, TreeOK, SeenOK
<1> HIDE DEF L
<1>9. /\ stack'[L + 1] = f /\ Len(stack') = L + 1
      /\ \A k \in 1..L : stack'[k] = stack[k]
  BY <1>5, <1>6
<1>10. FramesOK'
  <2> SUFFICES ASSUME NEW k \in 1..(L + 1) PROVE FrameOK(k)'
    BY <1>9 DEF FramesOK
  <2>1. CASE k \in 1..L
    <3>1. FrameOK(k) /\ k \in Nat /\ k >= 1
      BY <2>1 DEF ShapeOK, FramesOK, L
    <3>2. k # 1 => k - 1 \in 1..L
      BY <1>1, <2>1
    <3>3. stack'[k] = stack[k] /\ (k # 1 => stack'[k - 1].node = stack[k - 1].node)
      BY <1>9, <2>1, <3>2
    <3>4. seen' = seen \cup {} /\ {} \cap stack[k].left = {}
      OBVIOUS
    <3> QED BY <3>1, <3>3, <3>4, FrameKept
  <2>2. CASE k = L + 1
    <3>1. stack'[k] = f
      BY <1>9, <2>2
    <3>2. Kids(Here) \cap seen = {}
      BY DEF ShapeOK, StackOK, Opening
    <3>3. Kids(Here) \ Kids(Here) = {} /\ Cardinality({}) = 0
      BY FS_EmptySet
    <3>4. k = 1 <=> stack = <<>>
      BY <1>1, <2>2, EmptySeq DEF L
    <3>5. k - 1 = L /\ k - 2 = L - 1
      BY <1>1, <2>2
    <3>6. k # 1 => stack'[k - 1].node = parent[Here]
      BY <1>2, <1>9, <3>4, <3>5
    <3>7. (k = 1 => stack[k].node = Root)'
      BY <1>2, <1>4, <3>1, <3>4
    <3>8. (k # 1 => /\ stack[k].node \in seen /\ parent[stack[k].node] = stack[k - 1].node
                    /\ slot[k - 2] = stack[k].node)'
      BY <1>2, <1>4, <1>7, <3>1, <3>4, <3>5, <3>6
    <3>9. (Present(stack[k].node) /\ TreeDepth[stack[k].node] = k - 1)'
      BY <1>2, <1>4, <1>7, <3>1, <3>5
    <3>10. (stack[k].left \subseteq Kids(stack[k].node) /\ stack[k].left \cap seen = {})'
      BY <1>4, <1>7, <3>1, <3>2
    <3>11. (Kids(stack[k].node) \ stack[k].left \subseteq seen)'
      BY <1>4, <1>7, <3>1
    <3>12. (stack[k].entries = Cardinality(Kids(stack[k].node) \ stack[k].left))'
      BY <1>4, <1>7, <3>1, <3>3
    <3> QED BY <3>7, <3>8, <3>9, <3>10, <3>11, <3>12 DEF FrameOK
  <2> QED BY <1>1, <2>1, <2>2
<1>11. StackOK'
  <2>1. locks = L + 1
    BY DEF ShapeOK, StackOK, L
  <2>2. stack' # <<>>
    BY <1>1, <1>9
  <2>3. locks' = Len(stack') + 0
    BY <1>1, <1>9, <2>1
  <2> QED BY <2>2, <2>3 DEF StackOK, Opening
<1> QED BY <1>8, <1>10, <1>11 DEF ShapeOK

LEMMA ExamineStep ==
  ASSUME ShapeOK, Examine
  PROVE  ShapeOK'
<1>0. /\ pc = "examine" /\ UNCHANGED <<tool, disk, slot, cut, seen, rc>>
      /\ \/ /\ count' = Error(count) /\ failed' = TRUE /\ locks' = locks - 1 /\ ReturnTo(stack)
         \/ /\ tool = "DU" /\ ~node[Here].dir
            /\ count' = File(count, Here) /\ locks' = locks - 1
            /\ ReturnTo(stack) /\ UNCHANGED failed
         \/ /\ stack' = Append(stack, [node |-> Here, entries |-> 0, left |-> Kids(Here)])
            /\ count' = [count EXCEPT !.dirs = IF tool = "DU" THEN @ + 1 ELSE @]
            /\ pc' = "loop" /\ UNCHANGED <<locks, failed>>
  BY DEF Examine, ExamineDir
<1>1. /\ count \in Counters /\ locks = Len(stack) + 1 /\ Len(stack) \in Nat
      /\ rc = Running /\ node \in [All -> Attributes]
      /\ tool \in {"DU", "Find", "Tree"} /\ stack \in Seq(Frame)
      /\ locks - 1 = Len(stack)
  BY <1>0, SMTT(30) DEF ShapeOK, TypeOK, StackOK, CodeOK, Counters, Frame
<1>2. Here \in All /\ Len(stack) <= MaxDepth
  BY <1>0, HereIs DEF Opening
<1>3. ASSUME count' = Error(count) \/ count' = File(count, Here),
             locks' = locks - 1, ReturnTo(stack), failed' \in BOOLEAN
      PROVE  ShapeOK'
  <2>1. stack' = stack /\ pc' \in {"report", "loop"} /\ (pc' = "report" <=> stack = <<>>)
    BY <1>3, ReturnIs
  <2>2. count' \in Counters
    BY <1>1, <1>2, <1>3, CountersAre
  <2>3. TypeOK' /\ CodeOK'
    <3>1. locks' \in 0..(MaxDepth + 2)
      BY <1>1, <1>2, <1>3
    <3> QED BY <1>0, <1>1, <1>3, <2>1, <2>2, <3>1 DEF ShapeOK, TypeOK, CodeOK, disk, Counters
  <2>4. locks' = Len(stack) + 0
    BY <1>1, <1>3
  <2> QED BY <1>0, <2>1, <2>3, <2>4, CallStep DEF Opening
<1>4. ASSUME stack' = Append(stack, [node |-> Here, entries |-> 0, left |-> Kids(Here)]),
             count' = [count EXCEPT !.dirs = IF tool = "DU" THEN @ + 1 ELSE @],
             pc' = "loop", UNCHANGED <<locks, failed>>
      PROVE  ShapeOK'
  <2>1. count' \in Counters
    <3>1. count' = [count EXCEPT !.dirs = count.dirs + 1] \/ count' = [count EXCEPT !.dirs = count.dirs]
      BY <1>4
    <3> QED BY <1>1, <3>1 DEF Counters
  <2> DEFINE f == [node |-> Here, entries |-> 0, left |-> Kids(Here)]
  <2>2. f \in Frame
    BY <1>2, KidsAre DEF Frame
  <2>3. stack' = Append(stack, f)
    BY <1>4
  <2> HIDE DEF f
  <2>4. Append(stack, f) \in Seq(Frame) /\ Len(Append(stack, f)) = Len(stack) + 1
    BY ONLY <1>1, <2>2, AppendProperties
  <2>5. stack' \in Seq(Frame) /\ Len(stack') <= MaxDepth + 1
    BY <1>1, <1>2, <2>3, <2>4
  <2>6. TypeOK' /\ CodeOK'
    BY <1>0, <1>1, <1>4, <2>1, <2>5 DEF ShapeOK, TypeOK, CodeOK, disk, Counters, Frame
  <2> QED BY <1>0, <1>4, <2>6, OpenStep
<1>5. failed \in BOOLEAN
  BY DEF ShapeOK, TypeOK
<1> QED BY <1>0, <1>3, <1>4, <1>5

\* ExNext has delivered n: what becomes of the stack.
LEMMA EntryIs ==
  ASSUME ShapeOK, NEW n \in Nodes, NextEntry(n)
  PROVE  LET L == Len(stack) IN
         /\ L \in Nat /\ L >= 1 /\ L <= MaxDepth + 1 /\ Len(stack') = L
         /\ stack \in Seq(Frame) /\ stack' \in Seq(Frame)
         /\ \A k \in 1..L : k # L => stack'[k] = stack[k]
         /\ stack'[L].node = stack[L].node
         /\ stack'[L].entries = stack[L].entries + 1
         /\ stack'[L].left = stack[L].left \ {n}
         /\ n \in stack[L].left /\ FrameOK(L)
         /\ n \in Kids(stack[L].node) /\ n \notin seen
<1> DEFINE L == Len(stack)
<1>1. /\ pc = "loop" /\ n \in stack[L].left
      /\ stack' = [stack EXCEPT ![L] =
                    [node |-> stack[L].node, entries |-> stack[L].entries + 1,
                     left |-> stack[L].left \ {n}]]
  BY DEF NextEntry, Top
<1>2. stack \in Seq(Frame) /\ L \in Nat /\ L <= MaxDepth + 1
  BY DEF ShapeOK, TypeOK, Frame
<1>3. L \in 1..L /\ L >= 1
  BY <1>1, <1>2, EmptySeq DEF ShapeOK, StackOK
<1>4. FrameOK(L)
  BY <1>3 DEF ShapeOK, FramesOK
<1>5. n \in Kids(stack[L].node) /\ n \notin seen
  BY <1>1, <1>4 DEF FrameOK
<1> DEFINE g == [node |-> stack[L].node, entries |-> stack[L].entries + 1, left |-> stack[L].left \ {n}]
<1>6. stack[L] \in Frame
  BY <1>2, <1>3
<1>7. g \in Frame
  BY <1>6 DEF Frame
<1>8. stack' = [stack EXCEPT ![L] = g]
  BY <1>1
<1>9. g.node = stack[L].node /\ g.entries = stack[L].entries + 1 /\ g.left = stack[L].left \ {n}
  OBVIOUS
<1> HIDE DEF g
<1>10. [stack EXCEPT ![L] = g] \in Seq(Frame) /\ Len([stack EXCEPT ![L] = g]) = L
  BY ONLY <1>2, <1>3, <1>7, ExceptSeq
<1>11. [stack EXCEPT ![L] = g][L] = g /\ \A k \in 1..L : k # L => [stack EXCEPT ![L] = g][k] = stack[k]
  BY <1>2, <1>3
<1> QED BY <1>1, <1>2, <1>3, <1>4, <1>5, <1>8, <1>9, <1>10, <1>11

LEMMA NextEntryStep ==
  ASSUME ShapeOK, NEW n \in Nodes, NextEntry(n)
  PROVE  ShapeOK'
<1>0. PICK L : L = Len(stack)
  OBVIOUS
<1>1. /\ L \in Nat /\ L >= 1 /\ L <= MaxDepth + 1 /\ Len(stack') = L
      /\ stack \in Seq(Frame) /\ stack' \in Seq(Frame)
      /\ \A k \in 1..L : k # L => stack'[k] = stack[k]
      /\ stack'[L].node = stack[L].node
      /\ stack'[L].entries = stack[L].entries + 1
      /\ stack'[L].left = stack[L].left \ {n}
      /\ n \in stack[L].left /\ FrameOK(L)
      /\ n \in Kids(stack[L].node) /\ n \notin seen
  BY <1>0, EntryIs
<1>2. /\ pc = "loop" /\ UNCHANGED <<tool, disk, locks, cut, failed, rc>>
      /\ seen' = seen \cup {n}
      /\ slot' = [slot EXCEPT ![L - 1] = AppendName(n)]
      /\ pc' = pc \/ (pc' = "lock" /\ node[n].fits /\ node[n].dir /\ L - 1 < MaxDepth)
  BY <1>0 DEF NextEntry, ChildSlot, Depth
<1>3. /\ parent' = parent /\ node' = node /\ TreeDepth' = TreeDepth
      /\ \A m : Present(m)' <=> Present(m)
      /\ \A d : Kids(d)' = Kids(d)
  BY <1>2, DiskFrame
<1>4. /\ parent[n] = stack[L].node /\ Present(n) /\ n # Root
  BY <1>1, KidsAre
<1>5. L \in 1..L /\ L - 1 \in 0..MaxDepth
  BY <1>1
<1>6. /\ slot \in [0..MaxDepth -> All \cup {NoPath}] /\ n \in All
      /\ count \in Counters /\ node \in [All -> Attributes] /\ tool \in {"DU", "Find", "Tree"}
      /\ seen \subseteq Nodes /\ rc = Running /\ locks = L + 0
  BY <1>0, <1>2, SMTT(30) DEF ShapeOK, TypeOK, Counters, Nodes, All, CodeOK, StackOK
<1>7. /\ slot'[L - 1] = AppendName(n) /\ slot' \in [0..MaxDepth -> All \cup {NoPath}]
      /\ \A j : j # L - 1 => slot'[j] = slot[j]
  <2>1. AppendName(n) \in All \cup {NoPath}
    BY <1>6 DEF AppendName
  <2>2. slot'[L - 1] = AppendName(n)
    BY <1>2, <1>5, <1>6
  <2>3. slot' \in [0..MaxDepth -> All \cup {NoPath}]
    BY <1>2, <1>5, <1>6, <2>1
  <2>4. ASSUME NEW j, j # L - 1 PROVE slot'[j] = slot[j]
    BY <1>2, <1>6, <2>4
  <2> QED BY <2>2, <2>3, <2>4
<1>8. count' \in Counters
  <2>1. Counted(count, n) \in Counters
    BY <1>6, CountersAre
  <2>2. \/ count' = Error(count) \/ count' = File(Counted(count, n), n)
        \/ count' = Counted(count, n) \/ count' = Error(Counted(count, n))
    BY DEF NextEntry
  <2> QED BY <1>6, <2>1, <2>2, CountersAre
<1>9. TypeOK' /\ CodeOK'
  <2>1. seen' \subseteq Nodes
    BY <1>2, <1>6
  <2>2. Len(stack') <= MaxDepth + 1
    BY <1>1
  <2> QED BY <1>1, <1>2, <1>6, <1>7, <1>8, <2>1, <2>2 DEF ShapeOK, TypeOK, CodeOK, disk, Counters, Frame
<1>10. TreeOK'
  BY <1>3 DEF ShapeOK, TreeOK
<1>11. SeenOK'
  <2>1. stack[L].node = Root \/ stack[L].node \in seen
    BY <1>1 DEF FrameOK
  <2> QED BY <1>2, <1>3, <1>4, <2>1 DEF ShapeOK, SeenOK
<1>12. ASSUME NEW k \in 1..L, k # L PROVE FrameOK(k)'
  <2>1. FrameOK(k) /\ k \in Nat /\ k >= 1
    BY <1>0 DEF ShapeOK, FramesOK
  <2>2. k # 1 => k - 1 \in 1..L /\ k - 1 # L
    BY <1>1, <1>12
  <2>3. k - 2 # L - 1
    BY <1>1
  <2>4. /\ stack'[k] = stack[k]
        /\ k # 1 => stack'[k - 1].node = stack[k - 1].node /\ slot'[k - 2] = slot[k - 2]
    BY <1>1, <1>7, <1>12, <2>2, <2>3
  <2>5. {n} \cap stack[k].left = {}
    <3> SUFFICES ASSUME n \in stack[k].left PROVE FALSE
      OBVIOUS
    <3>1. n \in Kids(stack[k].node)
      BY <2>1 DEF FrameOK
    <3>2. stack[k].node = stack[L].node
      BY <1>4, <3>1, KidsAre
    <3> QED BY <1>0, <1>5, <1>12, <3>2, FramesDiffer
  <2> QED BY <1>2, <2>1, <2>4, <2>5, FrameKept
<1>13. FrameOK(L)'
  <2> DEFINE f == stack[L]
             K == Kids(f.node)
  <2>1. /\ f.left \subseteq K /\ f.left \cap seen = {} /\ K \ f.left \subseteq seen
        /\ f.entries = Cardinality(K \ f.left)
        /\ Present(f.node) /\ TreeDepth[f.node] = L - 1
        /\ L = 1 => f.node = Root
        /\ L # 1 => f.node \in seen /\ parent[f.node] = stack[L - 1].node /\ slot[L - 2] = f.node
    BY <1>1 DEF FrameOK
  <2>2. L # 1 => /\ L - 1 \in 1..L /\ L - 1 # L /\ L - 2 # L - 1
    BY <1>1
  <2>3. L # 1 => stack'[L - 1] = stack[L - 1] /\ slot'[L - 2] = slot[L - 2]
    BY <1>1, <1>7, <2>2
  <2>4. IsFiniteSet(K \ f.left)
    <3>1. IsFiniteSet(K) /\ K \ f.left \subseteq K
      BY KidsAre
    <3> QED BY <3>1, FS_Subset
  <2>5. K \ (f.left \ {n}) = (K \ f.left) \cup {n} /\ n \notin K \ f.left
    BY <1>1
  <2> HIDE DEF K
  <2>6. Cardinality((K \ f.left) \cup {n}) = Cardinality(K \ f.left) + 1
    BY <2>4, <2>5, FS_AddElement
  <2>7. (Kids(stack[L].node))' = K
    BY <1>1, <1>3 DEF K
  <2>8. (L = 1 => stack[L].node = Root)'
    BY <1>1, <2>1
  <2>9. (L # 1 => /\ stack[L].node \in seen /\ parent[stack[L].node] = stack[L - 1].node
                  /\ slot[L - 2] = stack[L].node)'
    BY <1>1, <1>2, <1>3, <2>1, <2>3
  <2>10. (Present(stack[L].node) /\ TreeDepth[stack[L].node] = L - 1)'
    BY <1>1, <1>3, <2>1
  <2>11. (stack[L].left \subseteq Kids(stack[L].node) /\ stack[L].left \cap seen = {})'
    BY <1>1, <1>2, <2>1, <2>7
  <2>12. (Kids(stack[L].node) \ stack[L].left \subseteq seen)'
    BY <1>1, <1>2, <2>1, <2>5, <2>7
  <2>13. (stack[L].entries = Cardinality(Kids(stack[L].node) \ stack[L].left))'
    BY <1>1, <2>1, <2>5, <2>6, <2>7
  <2> QED BY <2>8, <2>9, <2>10, <2>11, <2>12, <2>13 DEF FrameOK
<1>14. FramesOK'
  BY <1>1, <1>12, <1>13 DEF FramesOK
<1>15. StackOK'
  <2>1. stack' # <<>> /\ locks' = Len(stack') + 0
    BY <1>1, <1>2, <1>6
  <2>2. CASE pc' = pc
    BY <1>2, <2>1, <2>2 DEF StackOK, Opening
  <2>3. CASE pc' = "lock" /\ node[n].fits /\ node[n].dir /\ L - 1 < MaxDepth
    <3>1. Here' = n
      BY <1>1, <1>7, <2>1, <2>3 DEF Here, ChildSlot, AppendName
    <3>2. Top'.node = stack[L].node /\ Len(stack') <= MaxDepth
      BY <1>1, <2>3 DEF Top
    <3>3. Kids(n) \cap (seen \cup {n}) = {}
      <4> SUFFICES ASSUME NEW m \in Kids(n), m \in seen \cup {n} PROVE FALSE
        OBVIOUS
      <4>1. parent[m] = n /\ Present(m) /\ m # Root
        BY KidsAre
      <4>2. CASE m \in seen
        BY <1>1, <1>4, <4>1, <4>2 DEF ShapeOK, SeenOK
      <4>3. CASE m = n
        BY <1>4, <4>1, <4>3 DEF Present
      <4> QED BY <4>2, <4>3
    <3>4. (Kids(Here) \cap seen = {})'
      BY <1>2, <1>3, <3>1, <3>3
    <3>5. (Here \in seen /\ parent[Here] = Top.node /\ node[Here].dir)'
      BY <1>2, <1>3, <1>4, <2>3, <3>1, <3>2
    <3> QED BY <2>1, <2>3, <3>2, <3>4, <3>5 DEF StackOK
  <2> QED BY <1>2, <2>2, <2>3
<1> QED BY <1>9, <1>10, <1>11, <1>14, <1>15 DEF ShapeOK

\* UnLock and return.
LEMMA EndDirStep ==
  ASSUME ShapeOK, EndDir
  PROVE  ShapeOK'
<1>0. PICK L : L = Len(stack)
  OBVIOUS
<1>1. /\ pc = "loop" /\ locks' = locks - 1 /\ ReturnTo(SubSeq(stack, 1, L - 1))
      /\ UNCHANGED <<tool, disk, slot, seen, rc>>
      /\ count' = Error(count) \/ count' = count
      /\ \/ UNCHANGED <<cut, failed>>
         \/ cut' = TRUE /\ failed' = TRUE
  BY <1>0 DEF EndDir, Leave, Depth
<1>2. stack \in Seq(Frame) /\ L \in Nat /\ L <= MaxDepth + 1
  BY <1>0 DEF ShapeOK, TypeOK, Frame
<1>3. L \in 1..L /\ L >= 1
  BY <1>0, <1>1, <1>2, EmptySeq DEF ShapeOK, StackOK
<1>4. /\ count \in Counters /\ rc = Running /\ locks = L + 0
  BY <1>0, <1>1 DEF ShapeOK, TypeOK, Counters, CodeOK, StackOK
<1> DEFINE s == SubSeq(stack, 1, L - 1)
<1>5. s \in Seq(Frame) /\ Len(s) = L - 1 /\ \A k \in 1..(L - 1) : s[k] = stack[k]
  <2>1. \A k \in 1..(L - 1) : k \in 1..L /\ 1 + k - 1 = k
    BY <1>2
  <2>2. s = [k \in 1..(L - 1) |-> stack[k]]
    BY <1>0, <1>2, <1>3, <2>1
  <2>3. [k \in 1..(L - 1) |-> stack[k]] \in Seq(Frame) /\ Len([k \in 1..(L - 1) |-> stack[k]]) = L - 1
    BY <1>0, <1>2, <1>3, <2>1
  <2> QED BY <2>2, <2>3
<1>6. stack' = s /\ pc' \in {"report", "loop"} /\ (pc' = "report" <=> s = <<>>)
  BY <1>1, ReturnIs
<1> HIDE DEF s
<1>7. count' \in Counters
  BY <1>1, <1>4 DEF Error, Counters
<1>8. TypeOK' /\ CodeOK'
  <2>1. locks' \in 0..(MaxDepth + 2) /\ Len(stack') <= MaxDepth + 1
    BY <1>1, <1>2, <1>3, <1>4, <1>5, <1>6
  <2> QED BY <1>1, <1>4, <1>5, <1>6, <1>7, <2>1 DEF ShapeOK, TypeOK, CodeOK, disk, Counters, Frame
<1>9. /\ parent' = parent /\ node' = node /\ \A m : Present(m)' <=> Present(m)
  BY <1>1, DiskFrame
<1>10. TreeOK' /\ SeenOK'
  BY <1>1, <1>9 DEF ShapeOK, TreeOK, SeenOK
<1>11. FramesOK'
  <2> SUFFICES ASSUME NEW k \in 1..(L - 1) PROVE FrameOK(k)'
    BY <1>5, <1>6 DEF FramesOK
  <2>1. k \in 1..L /\ k \in Nat /\ k >= 1 /\ (k # 1 => k - 1 \in 1..(L - 1))
    BY <1>2
  <2>2. FrameOK(k)
    BY <1>0, <2>1 DEF ShapeOK, FramesOK
  <2>3. stack'[k] = stack[k] /\ (k # 1 => stack'[k - 1].node = stack[k - 1].node)
    BY <1>5, <1>6, <2>1
  <2>4. seen' = seen \cup {} /\ {} \cap stack[k].left = {} /\ slot' = slot
    BY <1>1
  <2> QED BY <1>1, <2>1, <2>2, <2>3, <2>4, FrameKept
<1>12. StackOK'
  <2>1. locks' = Len(stack') + 0
    BY <1>1, <1>2, <1>4, <1>5, <1>6
  <2> QED BY <1>6, <2>1 DEF StackOK, Opening
<1> QED BY <1>8, <1>10, <1>11, <1>12 DEF ShapeOK

LEMMA InitShape == Init => ShapeOK
<1> SUFFICES ASSUME Init PROVE ShapeOK
  OBVIOUS
<1>1. PICK k \in 0..NumNodes :
        /\ parent \in [Nodes -> All]
        /\ \A n \in Nodes : IF n > k THEN parent[n] = n ELSE parent[n] < n
        /\ node \in [All -> Attributes]
  <2>1. PICK k \in 0..NumNodes :
          /\ parent \in {f \in [Nodes -> All] : \A n \in Nodes :
                           IF n > k THEN f[n] = n
                           ELSE f[n] < n /\ (n > 1 => f[n - 1] <= f[n])}
          /\ node \in [All -> {a \in Attributes :
                                 /\ a.hit => tool = "Find"
                                 /\ a.size # Min(Sizes) => tool = "DU" /\ ~a.dir}]
    BY DEF Init
  <2>2. parent \in [Nodes -> All] /\ \A n \in Nodes : IF n > k THEN parent[n] = n ELSE parent[n] < n
    BY <2>1
  <2>3. node \in [All -> Attributes]
    BY <2>1
  <2> QED BY <2>2, <2>3
<1>2. /\ pc = "args" /\ stack = <<>> /\ slot = [d \in 0..MaxDepth |-> NoPath]
      /\ count = [files |-> 0, dirs |-> 0, hits |-> 0, bytes |-> 0, errors |-> 0]
      /\ locks = 0 /\ cut = FALSE /\ failed = FALSE /\ seen = {} /\ rc = Running
      /\ tool \in {"DU", "Find", "Tree"}
      /\ node[Root].fits /\ \A n \in Nodes : Present(n) => node[parent[n]].dir
  BY DEF Init
<1>3. TypeOK
  <2>1. stack \in Seq(Frame) /\ Len(stack) = 0
    BY <1>2
  <2>2. count \in Counters
    BY <1>2 DEF Counters
  <2>3. slot \in [0..MaxDepth -> All \cup {NoPath}]
    BY <1>2
  <2>4. cut \in BOOLEAN /\ failed \in BOOLEAN
    BY <1>2
  <2>5. seen \subseteq Nodes /\ locks \in 0..(MaxDepth + 2)
    BY <1>2
  <2> QED BY <1>1, <1>2, <2>1, <2>2, <2>3, <2>4, <2>5 DEF TypeOK, Counters, Frame
<1>4. TreeOK
  <2>1. ASSUME NEW n \in Nodes, Present(n) PROVE Present(parent[n])
    <3>1. n \in Nat /\ n >= 1 /\ parent[n] # n /\ parent[n] \in Nat
      BY <1>1, <2>1 DEF Nodes, Present, All, Root
    <3>2. n <= k /\ parent[n] < n
      BY <1>1, <3>1
    <3>3. CASE parent[n] = 0
      BY <3>3 DEF Present, Root
    <3>4. CASE parent[n] # 0
      <4>1. parent[n] \in Nodes /\ ~(parent[n] > k)
        BY <3>1, <3>2, <3>4 DEF Nodes
      <4>2. parent[parent[n]] < parent[n]
        BY <1>1, <4>1
      <4>3. parent[parent[n]] # parent[n]
        BY <1>1, <3>1, <4>1, <4>2 DEF All
      <4> QED BY <4>3 DEF Present
    <3> QED BY <3>3, <3>4
  <2>2. \A n \in Nodes : parent[n] <= n
    BY <1>1 DEF Nodes, All
  <2> QED BY <1>2, <2>1, <2>2 DEF TreeOK
<1>5. FramesOK
  BY <1>2 DEF FramesOK
<1>6. StackOK
  BY <1>2 DEF StackOK, Opening
<1>7. SeenOK /\ CodeOK
  BY <1>2 DEF SeenOK, CodeOK
<1> QED BY <1>3, <1>4, <1>5, <1>6, <1>7 DEF ShapeOK

LEMMA ShapeStep == ShapeOK /\ [Next]_vars => ShapeOK'
<1> SUFFICES ASSUME ShapeOK, [Next]_vars PROVE ShapeOK'
  OBVIOUS
<1>1. CASE UNCHANGED vars
  <2>1. /\ UNCHANGED <<tool, disk, stack, slot, seen, pc, locks, count, cut, failed, rc>>
    BY <1>1 DEF vars, disk
  <2>2. TypeOK' /\ CodeOK'
    BY <2>1 DEF ShapeOK, TypeOK, CodeOK, disk
  <2> QED BY <2>1, <2>2, CallStep DEF ShapeOK, StackOK, Opening
<1> QED
  BY <1>1, ParseArgsStep, LockDirStep, ExamineStep, NextEntryStep, EndDirStep, ReportStep DEF Next

LEMMA ShapeInvariance == Spec => []ShapeOK
BY InitShape, ShapeStep, PTL DEF Spec

\* The variables keep their types: no directory is opened below MAX_DEPTH, and
\* the path buffers are used within their bounds.
THEOREM TypeCorrect == Spec => []TypeOK
BY ShapeInvariance, PTL DEF ShapeOK

\* The path of an open directory stays in its buffer, however deep the recursion
\* goes below it.
THEOREM PathsKept == Spec => []PathsIntact
<1>1. ASSUME ShapeOK PROVE PathsIntact
  <2> SUFFICES ASSUME NEW i \in 2..Len(stack) PROVE slot[ChildSlot(i - 2)] = stack[i].node
    BY DEF PathsIntact
  <2>1. Len(stack) \in Nat
    BY <1>1 DEF ShapeOK, TypeOK
  <2>2. i \in 1..Len(stack) /\ i # 1
    BY <2>1
  <2> QED BY <1>1, <2>2 DEF ShapeOK, FramesOK, FrameOK, ChildSlot
<1> QED BY <1>1, ShapeInvariance, PTL

\* Every lock is released when the tool returns.
THEOREM NoLeak == Spec => []NothingHeldAtExit
<1>1. ShapeOK => NothingHeldAtExit
  BY DEF ShapeOK, StackOK, NothingHeldAtExit
<1> QED BY <1>1, ShapeInvariance, PTL

-----------------------------------------------------------------------------
(***************************************************************************)
(* Return code 5 has a cause.                                              *)
(***************************************************************************)
CauseOK == count.errors # 0 => Cause

LEMMA CauseKept ==
  ASSUME UNCHANGED <<tool, disk>>, failed => failed', Cause
  PROVE  Cause'
<1>1. /\ parent' = parent /\ node' = node /\ TreeDepth' = TreeDepth /\ Dirs' = Dirs
      /\ \A n : Present(n)' <=> Present(n)
      /\ \A d : Kids(d)' = Kids(d)
  BY DiskFrame
<1> QED BY <1>1 DEF Cause

LEMMA CauseStep == ShapeOK /\ CauseOK /\ [Next]_vars => CauseOK'
<1> SUFFICES ASSUME ShapeOK, CauseOK, [Next]_vars, count'.errors # 0 PROVE Cause'
  BY DEF CauseOK
<1>0. /\ count \in Counters /\ node \in [All -> Attributes] /\ tool \in {"DU", "Find", "Tree"}
  BY DEF ShapeOK, TypeOK, Counters
<1>1. UNCHANGED <<tool, disk>>
  BY DEF Next, ParseArgs, LockDir, Examine, ExamineDir, NextEntry, EndDir, Leave, Report, vars, disk
<1>2. failed => failed'
  BY DEF Next, ParseArgs, LockDir, Examine, ExamineDir, NextEntry, EndDir, Leave, Report, vars
<1>3. ASSUME count'.errors = count.errors PROVE Cause'
  BY <1>1, <1>2, <1>3, CauseKept DEF CauseOK
<1>4. ASSUME failed' PROVE Cause'
  BY <1>4 DEF Cause
<1>5. ASSUME Cause PROVE Cause'
  BY <1>1, <1>2, <1>5, CauseKept
<1>6. CASE ParseArgs \/ Report \/ UNCHANGED vars
  BY <1>3, <1>6 DEF ParseArgs, Report, vars
<1>7. CASE LockDir
  BY <1>3, <1>4, <1>7 DEF LockDir
<1>8. CASE Examine
  <2>1. Here \in All
    BY <1>8, HereIs DEF Opening, Examine, ExamineDir
  <2>2. File(count, Here).errors = count.errors
    BY <1>0, <2>1, CountersAre
  <2>3. [count EXCEPT !.dirs = IF tool = "DU" THEN @ + 1 ELSE @].errors = count.errors
    BY <1>0 DEF Counters
  <2> QED BY <1>3, <1>4, <1>8, <2>2, <2>3 DEF Examine, ExamineDir
<1>9. ASSUME NEW n \in Nodes, NextEntry(n) PROVE Cause'
  <2>0. PICK L : L = Len(stack)
    OBVIOUS
  <2>1. /\ L \in Nat /\ L >= 1 /\ FrameOK(L) /\ n \in Kids(stack[L].node)
    BY <1>9, <2>0, EntryIs
  <2>2. n \in All /\ Present(n) /\ n # Root /\ parent[n] = stack[L].node
    BY <2>1, KidsAre DEF Nodes, All
  <2>3. Counted(count, n) \in Counters /\ Counted(count, n).errors = count.errors
    BY <1>0, <2>2, CountersAre
  <2>4. File(Counted(count, n), n).errors = count.errors
    BY <1>0, <2>2, <2>3, CountersAre
  <2>5. \/ ~node[n].fits
        \/ count' = File(Counted(count, n), n)
        \/ count' = Counted(count, n)
        \/ node[n].dir /\ L - 1 >= MaxDepth
    BY <1>9, <2>0 DEF NextEntry, Depth
  <2>6. CASE ~node[n].fits
    BY <1>5, <2>2, <2>6 DEF Cause
  <2>7. CASE node[n].dir /\ L - 1 >= MaxDepth
    <3>1. TreeDepth[n] = 1 + TreeDepth[parent[n]] /\ TreeDepth[stack[L].node] = L - 1
      BY <2>1, <2>2, DepthDef DEF FrameOK, ShapeOK
    <3>2. TreeDepth[n] > MaxDepth
      BY <2>1, <2>2, <2>7, <3>1
    <3>3. n \in Dirs
      BY <2>2, <2>7 DEF Dirs
    <3> QED BY <1>5, <3>2, <3>3 DEF Cause
  <2> QED BY <1>3, <2>3, <2>4, <2>5, <2>6, <2>7
<1>10. CASE EndDir
  <2>1. \/ AtMax \/ count' = count \/ failed'
    BY <1>10 DEF EndDir, Leave
  <2>2. CASE AtMax
    <3>0. PICK L : L = Len(stack)
      OBVIOUS
    <3>1. tool # "Tree" /\ stack[L].entries >= MaxEntries
      BY <2>2, <3>0 DEF AtMax, Top
    <3>2. stack \in Seq(Frame) /\ L \in 1..L
      BY <1>10, <3>0, EmptySeq DEF ShapeOK, TypeOK, StackOK, EndDir, Leave, Frame
    <3> DEFINE f == stack[L]
               K == Kids(f.node)
    <3>3. FrameOK(L) /\ f \in Frame
      BY <3>0, <3>2 DEF ShapeOK, FramesOK
    <3>4. /\ f.entries = Cardinality(K \ f.left) /\ Present(f.node) /\ f.node \in All /\ f.entries \in Nat
      BY <3>3 DEF FrameOK, Frame
    <3>5. IsFiniteSet(K)
      BY KidsAre
    <3> HIDE DEF K
    <3>6. Cardinality(K \ f.left) <= Cardinality(K) /\ Cardinality(K) \in Nat
      <4>1. K \ f.left \subseteq K
        OBVIOUS
      <4> QED BY <3>5, <4>1, FS_Subset, FS_CardinalityType
    <3>7. Cardinality(K) >= MaxEntries
      BY <3>1, <3>4, <3>6
    <3>8. K # {}
      BY <3>7, FS_EmptySet
    <3>9. node[f.node].dir
      <4>1. PICK n \in K : TRUE
        BY <3>8
      <4>2. n \in Nodes /\ Present(n) /\ parent[n] = f.node
        BY <4>1, KidsAre DEF K
      <4> QED BY <4>2 DEF ShapeOK, TreeOK
    <3>10. f.node \in Dirs
      BY <3>4, <3>9 DEF Dirs
    <3> QED BY <1>5, <3>1, <3>7, <3>10 DEF Cause, K
  <2> QED BY <1>3, <1>4, <2>1, <2>2
<1> QED BY <1>6, <1>7, <1>8, <1>9, <1>10 DEF Next

LEMMA CauseInvariance == Spec => []CauseOK
<1>1. Init => CauseOK
  BY DEF Init, CauseOK
<1> QED BY <1>1, CauseStep, ShapeInvariance, PTL DEF Spec

-----------------------------------------------------------------------------
(***************************************************************************)
(* Return code 0 means a complete scan.  First the sum of sizes.           *)
(***************************************************************************)
LEMMA SizeIs ==
  ASSUME node \in [All -> Attributes], NEW n \in All
  PROVE  /\ Size(n) \in Nat
         /\ node[n].size \in Int
         /\ node[n].size <= 0 => Size(n) = 0
         /\ node[n].size > 0 => Size(n) = node[n].size
<1> DEFINE z == node[n].size
<1>1. z \in Int
  BY DEF Attributes
<1>2. Size(n) = CHOOSE x \in {0, z} : \A y \in {0, z} : x >= y
  BY DEF Size, Max
<1> HIDE DEF z
<1>3. \E x \in {0, z} : \A y \in {0, z} : x >= y
  <2>1. CASE z <= 0
    BY <1>1, <2>1
  <2>2. CASE z > 0
    BY <1>1, <2>2
  <2> QED BY <1>1, <2>1, <2>2
<1>4. Size(n) \in {0, z} /\ \A y \in {0, z} : Size(n) >= y
  BY <1>2, <1>3
<1>5. (Size(n) = 0 \/ Size(n) = z) /\ Size(n) >= 0 /\ Size(n) >= z
  BY <1>4
<1>6. /\ Size(n) \in Nat /\ (z <= 0 => Size(n) = 0) /\ (z > 0 => Size(n) = z)
  BY <1>1, <1>5
<1> QED BY <1>1, <1>6 DEF z

SumStep(g, S, n) == (IF n \in S THEN Size(n) ELSE 0) + (IF n = 0 THEN 0 ELSE g[n - 1])

Sums(g, S, m) == g = [n \in 0..m |-> SumStep(g, S, n)]

UpTo(S) == CHOOSE g : Sums(g, S, NumNodes)

LEMMA SumExists ==
  ASSUME NEW S
  PROVE  \A m \in All : \E g : Sums(g, S, m)
<1> DEFINE T == {m \in All : ~\E g : Sums(g, S, m)}
<1> SUFFICES ASSUME T # {} PROVE FALSE
  OBVIOUS
<1>1. PICK m \in T : \A k \in T : m <= k
  <2>1. T \subseteq Nat
    BY DEF All
  <2> HIDE DEF T
  <2> QED BY <2>1, LeastNat
<1>2. m \in Nat /\ m <= NumNodes
  BY DEF All
<1>3. CASE m = 0
  <2> DEFINE g == [n \in 0..0 |-> (IF n \in S THEN Size(n) ELSE 0) + 0]
  <2>1. \A n \in 0..0 : n = 0
    OBVIOUS
  <2>2. \A n \in 0..0 : SumStep(g, S, n) = (IF n \in S THEN Size(n) ELSE 0) + 0
    BY <2>1 DEF SumStep
  <2>3. g = [n \in 0..0 |-> (IF n \in S THEN Size(n) ELSE 0) + 0]
    OBVIOUS
  <2> HIDE DEF g
  <2>4. Sums(g, S, 0)
    BY <2>2, <2>3 DEF Sums
  <2> QED BY <1>1, <1>3, <2>4
<1>4. CASE m # 0
  <2>1. m - 1 \in All /\ m - 1 \notin T
    <3>1. m - 1 \in All /\ ~(m <= m - 1)
      BY <1>2, <1>4 DEF All
    <3> HIDE DEF T
    <3> QED BY <1>1, <3>1
  <2>2. PICK g : Sums(g, S, m - 1)
    BY <2>1
  <2> HIDE DEF T
  <2> DEFINE h == [n \in 0..m |-> IF n = m THEN SumStep(g, S, m) ELSE g[n]]
  <2>3. ASSUME NEW n \in 0..m PROVE h[n] = SumStep(h, S, n)
    <3>1. n # m => n \in 0..(m - 1)
      BY <1>2
    <3>2. h[n] = SumStep(g, S, n)
      BY <2>2, <3>1 DEF Sums
    <3>3. n # 0 => n - 1 \in 0..m /\ n - 1 # m
      BY <1>2
    <3>4. n # 0 => h[n - 1] = g[n - 1]
      BY <3>3
    <3> HIDE DEF h
    <3> QED BY <3>2, <3>4 DEF SumStep
  <2>4. h = [n \in 0..m |-> h[n]]
    OBVIOUS
  <2> HIDE DEF h
  <2>5. Sums(h, S, m)
    BY <2>3, <2>4 DEF Sums
  <2> QED BY <1>1, <2>5 DEF T
<1> QED BY <1>3, <1>4

\* The sum up to a node is the sum up to the node before it and its size.
LEMMA UpToDef ==
  ASSUME NEW S
  PROVE  /\ Total(S) = UpTo(S)[NumNodes]
         /\ \A n \in All : UpTo(S)[n] = SumStep(UpTo(S), S, n)
<1>1. Total(S) = UpTo(S)[NumNodes]
  BY DEF Total, UpTo, Sums, SumStep, All
<1>2. NumNodes \in All
  BY DEF All
<1>3. Sums(UpTo(S), S, NumNodes)
  BY <1>2, SumExists DEF UpTo
<1> QED BY <1>1, <1>3 DEF Sums, All

\* Nothing has no size, and a further node adds its own.
LEMMA TotalIs ==
  ASSUME node \in [All -> Attributes], NEW S
  PROVE  /\ Total(S) \in Nat /\ Total({}) = 0
         /\ \A n \in All : n \notin S => Total(S \cup {n}) = Total(S) + Size(n)
<1>0. NumNodes \in All /\ 0 \in All
  BY DEF All
<1>1. \A A : \A m \in All : UpTo(A)[m] \in Nat
  <2> SUFFICES ASSUME NEW A PROVE \A m \in All : UpTo(A)[m] \in Nat
    OBVIOUS
  <2> DEFINE T == {m \in All : UpTo(A)[m] \notin Nat}
  <2> SUFFICES ASSUME T # {} PROVE FALSE
    OBVIOUS
  <2>1. PICK m \in T : \A k \in T : m <= k
    <3>1. T \subseteq Nat
      BY DEF All
    <3> HIDE DEF T
    <3> QED BY <3>1, LeastNat
  <2>2. m \in Nat /\ m <= NumNodes /\ m \in All /\ UpTo(A)[m] \notin Nat
    BY DEF All
  <2>3. m # 0 => UpTo(A)[m - 1] \in Nat
    <3>1. m # 0 => m - 1 \in All /\ ~(m <= m - 1)
      BY <2>2 DEF All
    <3>2. m # 0 => m - 1 \notin T
      <4> HIDE DEF T
      <4> QED BY <2>1, <3>1
    <3> QED BY <3>1, <3>2
  <2> HIDE DEF T
  <2>4. UpTo(A)[m] = (IF m \in A THEN Size(m) ELSE 0) + (IF m = 0 THEN 0 ELSE UpTo(A)[m - 1])
    BY <2>2, UpToDef DEF SumStep
  <2>5. Size(m) \in Nat
    BY <2>2, SizeIs
  <2> QED BY <2>2, <2>3, <2>4, <2>5
<1>2. Total(S) \in Nat
  BY <1>0, <1>1, UpToDef
<1>3. ASSUME NEW n \in All, n \notin S PROVE Total(S \cup {n}) = Total(S) + Size(n)
  <2> DEFINE A == S \cup {n}
             z(m) == IF n <= m THEN Size(n) ELSE 0
             T == {m \in All : UpTo(A)[m] # UpTo(S)[m] + z(m)}
  <2>1. ASSUME T # {} PROVE FALSE
    <3>1. PICK m \in T : \A k \in T : m <= k
      <4>1. T \subseteq Nat
        BY DEF All
      <4> HIDE DEF T
      <4> QED BY <2>1, <4>1, LeastNat
    <3>2. m \in Nat /\ m <= NumNodes /\ m \in All /\ UpTo(A)[m] # UpTo(S)[m] + z(m)
      BY DEF All
    <3>3. m # 0 => m - 1 \in All /\ UpTo(A)[m - 1] = UpTo(S)[m - 1] + z(m - 1)
      <4>1. m # 0 => m - 1 \in All /\ ~(m <= m - 1)
        BY <3>2 DEF All
      <4>2. m # 0 => m - 1 \notin T
        <5> HIDE DEF T
        <5> QED BY <3>1, <4>1
      <4> QED BY <4>1, <4>2
    <3> HIDE DEF T
    <3>4. /\ UpTo(A)[m] = (IF m \in A THEN Size(m) ELSE 0) + (IF m = 0 THEN 0 ELSE UpTo(A)[m - 1])
          /\ UpTo(S)[m] = (IF m \in S THEN Size(m) ELSE 0) + (IF m = 0 THEN 0 ELSE UpTo(S)[m - 1])
      BY <3>2, UpToDef DEF SumStep
    <3>5. Size(m) \in Nat /\ Size(n) \in Nat /\ n \in Nat
      BY <3>2, SizeIs DEF All
    <3>6. m # 0 => UpTo(S)[m - 1] \in Nat /\ UpTo(A)[m - 1] \in Nat
      BY <1>1, <3>3
    <3>7. m \in A <=> m \in S \/ m = n
      OBVIOUS
    <3> HIDE DEF A
    <3>8. CASE m = n
      <4>1. z(m) = Size(n) /\ m \in A /\ m \notin S /\ z(m - 1) = 0
        BY <1>3, <3>2, <3>5, <3>7, <3>8
      <4> HIDE DEF z
      <4>2. CASE m = 0
        BY <3>2, <3>4, <3>5, <3>8, <4>1, <4>2
      <4>3. CASE m # 0
        BY <3>2, <3>3, <3>4, <3>5, <3>6, <3>8, <4>1, <4>3
      <4> QED BY <4>2, <4>3
    <3>9. CASE m # n
      <4>1. (m \in A <=> m \in S) /\ (m # 0 => z(m) = z(m - 1)) /\ (m = 0 => z(m) = 0) /\ z(m) \in Nat
        BY <3>2, <3>5, <3>7, <3>9
      <4> HIDE DEF z
      <4>2. CASE m = 0
        BY <3>2, <3>4, <3>5, <4>1, <4>2
      <4>3. CASE m # 0
        BY <3>2, <3>3, <3>4, <3>5, <3>6, <4>1, <4>3
      <4> QED BY <4>2, <4>3
    <3> QED BY <3>8, <3>9
  <2>2. UpTo(A)[NumNodes] = UpTo(S)[NumNodes] + z(NumNodes)
    BY <1>0, <2>1
  <2>3. z(NumNodes) = Size(n)
    BY DEF All
  <2> QED BY <2>2, <2>3, UpToDef
<1>4. Total({}) = 0
  <2> DEFINE T == {m \in All : UpTo({})[m] # 0}
  <2>1. ASSUME T # {} PROVE FALSE
    <3>1. PICK m \in T : \A k \in T : m <= k
      <4>1. T \subseteq Nat
        BY DEF All
      <4> HIDE DEF T
      <4> QED BY <2>1, <4>1, LeastNat
    <3>2. m \in Nat /\ m <= NumNodes /\ m \in All /\ UpTo({})[m] # 0
      BY DEF All
    <3>3. m # 0 => UpTo({})[m - 1] = 0
      <4>1. m # 0 => m - 1 \in All /\ ~(m <= m - 1)
        BY <3>2 DEF All
      <4>2. m # 0 => m - 1 \notin T
        <5> HIDE DEF T
        <5> QED BY <3>1, <4>1
      <4> QED BY <4>1, <4>2
    <3> HIDE DEF T
    <3>4. UpTo({})[m] = 0 + (IF m = 0 THEN 0 ELSE UpTo({})[m - 1])
      BY <3>2, UpToDef DEF SumStep
    <3> QED BY <3>2, <3>3, <3>4
  <2> QED BY <1>0, <2>1, UpToDef
<1> QED BY <1>2, <1>3, <1>4

-----------------------------------------------------------------------------
(***************************************************************************)
(* The counters.  DU counts a directory when it has opened it, the others  *)
(* when they have its entry; as long as there was no error, they count     *)
(* exactly what has been scanned.                                          *)
(***************************************************************************)
FileNodes == {n \in All : ~node[n].dir}
DirNodes == {n \in All : node[n].dir}
HitNodes == {n \in All : node[n].hit}

\* What DU has counted.
Scanned == (seen \cup {Root}) \ Waiting

\* The counters c, where DU has counted R and the others S.
Tally(c, R, S) ==
  /\ tool = "DU" => /\ c.files = Cardinality(R \cap FileNodes)
                    /\ c.dirs = Cardinality(R \cap DirNodes)
                    /\ c.bytes = Min({MaxWord, Total(R \cap FileNodes)})
  /\ tool = "Tree" => /\ c.files = Cardinality(S \cap FileNodes)
                      /\ c.dirs = Cardinality(S \cap DirNodes)
  /\ tool = "Find" => c.hits = Cardinality(S \cap HitNodes)

TallyOK == count.errors = 0 /\ rc # 10 => Tally(count, Scanned, seen)

\* The smaller of two numbers.
LEMMA MinOfTwo ==
  ASSUME NEW a \in Nat, NEW b \in Nat
  PROVE  /\ a <= b => Min({a, b}) = a
         /\ b <= a => Min({a, b}) = b
<1>1. {a, b} \subseteq Nat /\ {a, b} # {}
  OBVIOUS
<1>2. Min({a, b}) \in {a, b} /\ \A n \in {a, b} : Min({a, b}) <= n
  BY ONLY <1>1, LeastNat
<1>3. (Min({a, b}) = a \/ Min({a, b}) = b) /\ Min({a, b}) <= a /\ Min({a, b}) <= b
  BY <1>2
<1> QED BY <1>3

\* The saturating sum of the sizes is the smaller of the true sum and the
\* largest word, in whatever order the sizes come.
LEMMA AddSizeIs ==
  ASSUME node \in [All -> Attributes], NEW n \in All, NEW t \in Nat
  PROVE  AddSize(Min({MaxWord, t}), node[n].size) = Min({MaxWord, t + Size(n)})
<1> DEFINE s == node[n].size
           z == Size(n)
           m == Min({MaxWord, t})
<1>1. s \in Int /\ z \in Nat /\ (s <= 0 => z = 0) /\ (s > 0 => z = s)
  BY SizeIs
<1>2. (MaxWord <= t => m = MaxWord) /\ (t <= MaxWord => m = t)
  BY MinOfTwo
<1>3. t + z \in Nat
  BY <1>1
<1>4. /\ MaxWord <= t + z => Min({MaxWord, t + z}) = MaxWord
      /\ t + z <= MaxWord => Min({MaxWord, t + z}) = t + z
  BY <1>3, MinOfTwo
<1> HIDE DEF m, s, z
<1>5. CASE s <= 0
  <2>0. ~(s > 0)
    BY <1>1, <1>5
  <2>1. AddSize(m, s) = m
    BY <1>5, <2>0, Zenon DEF AddSize
  <2>2. z = 0 /\ t + z = t
    BY <1>1, <1>5
  <2> QED BY <2>1, <2>2 DEF m, s, z
<1>6. CASE s > 0 /\ MaxWord - m < s
  <2>1. ~(s <= 0)
    BY <1>1, <1>6
  <2>2. AddSize(m, s) = MaxWord
    BY <1>6, <2>1, Zenon DEF AddSize
  <2>3. MaxWord <= t + z
    BY <1>1, <1>2, <1>6
  <2> QED BY <1>4, <2>2, <2>3 DEF m, s, z
<1>7. CASE s > 0 /\ ~(MaxWord - m < s)
  <2>1. ~(s <= 0)
    BY <1>1, <1>7
  <2>2. AddSize(m, s) = m + s
    BY <1>7, <2>1, Zenon DEF AddSize
  <2>3. t <= MaxWord /\ t + z <= MaxWord /\ m + s = t + z
    BY <1>1, <1>2, <1>7
  <2> QED BY <1>4, <2>2, <2>3 DEF m, s, z
<1> QED BY <1>1, <1>2, <1>5, <1>6, <1>7

\* One more node.
LEMMA CardAdd ==
  ASSUME NEW S, S \subseteq All, NEW n \in All, n \notin S, NEW D
  PROVE  /\ Cardinality(S \cap D) \in Nat
         /\ n \in D => Cardinality((S \cup {n}) \cap D) = Cardinality(S \cap D) + 1
         /\ n \notin D => (S \cup {n}) \cap D = S \cap D
<1>1. IsFiniteSet(All)
  BY FS_Interval DEF All
<1>2. S \cap D \subseteq All
  OBVIOUS
<1>3. IsFiniteSet(S \cap D)
  BY <1>1, <1>2, FS_Subset
<1>4. Cardinality(S \cap D) \in Nat
  BY <1>3, FS_CardinalityType
<1>5. ASSUME n \in D PROVE Cardinality((S \cup {n}) \cap D) = Cardinality(S \cap D) + 1
  <2>1. (S \cup {n}) \cap D = (S \cap D) \cup {n} /\ n \notin S \cap D
    BY <1>5
  <2> QED BY <1>3, <2>1, FS_AddElement
<1>6. ASSUME n \notin D PROVE (S \cup {n}) \cap D = S \cap D
  BY <1>6
<1> QED BY <1>4, <1>5, <1>6

\* What a file and an entry add to each counter.
LEMMA FieldsAre ==
  ASSUME NEW c \in Counters, node \in [All -> Attributes], NEW n \in All,
         tool \in {"DU", "Find", "Tree"}
  PROVE  /\ File(c, n).files = IF tool = "Find" THEN c.files ELSE c.files + 1
         /\ File(c, n).bytes = IF tool = "DU" THEN AddSize(c.bytes, node[n].size) ELSE c.bytes
         /\ File(c, n).dirs = c.dirs /\ File(c, n).hits = c.hits
         /\ Counted(c, n).files = c.files /\ Counted(c, n).bytes = c.bytes
         /\ Counted(c, n).dirs = IF tool = "Tree" /\ node[n].dir THEN c.dirs + 1 ELSE c.dirs
         /\ Counted(c, n).hits = IF tool = "Find" /\ node[n].hit THEN c.hits + 1 ELSE c.hits
<1>1. /\ File(c, n).files = IF tool = "Find" THEN c.files ELSE c.files + 1
      /\ File(c, n).bytes = IF tool = "DU" THEN AddSize(c.bytes, node[n].size) ELSE c.bytes
      /\ File(c, n).dirs = c.dirs /\ File(c, n).hits = c.hits
  <2>1. CASE tool = "DU"
    <3>1. File(c, n) = [c EXCEPT !.files = @ + 1, !.bytes = AddSize(@, node[n].size)]
      BY <2>1, Zenon DEF File
    <3> DEFINE z == AddSize(c.bytes, node[n].size)
    <3>2. File(c, n) = [c EXCEPT !.files = c.files + 1, !.bytes = z]
      BY <3>1 DEF Counters
    <3> HIDE DEF z
    <3>3. File(c, n) = [files |-> c.files + 1, dirs |-> c.dirs, hits |-> c.hits,
                        bytes |-> z, errors |-> c.errors]
      BY <3>2 DEF Counters
    <3> QED BY <2>1, <3>3 DEF z
  <2>2. CASE tool = "Tree"
    <3>1. File(c, n) = [c EXCEPT !.files = @ + 1]
      <4>1. tool # "DU"
        BY <2>2
      <4> QED BY <2>2, <4>1, Zenon DEF File
    <3> QED BY <2>2, <3>1 DEF Counters
  <2>3. CASE tool = "Find"
    <3>1. File(c, n) = c
      <4>1. tool # "DU" /\ tool # "Tree"
        BY <2>3
      <4> QED BY <2>3, <4>1, Zenon DEF File
    <3> QED BY <2>3, <3>1
  <2> QED BY <2>1, <2>2, <2>3
<1>2. /\ Counted(c, n).files = c.files /\ Counted(c, n).bytes = c.bytes
      /\ Counted(c, n).dirs = IF tool = "Tree" /\ node[n].dir THEN c.dirs + 1 ELSE c.dirs
      /\ Counted(c, n).hits = IF tool = "Find" /\ node[n].hit THEN c.hits + 1 ELSE c.hits
  <2> DEFINE d == [c EXCEPT !.dirs = IF tool = "Tree" /\ node[n].dir THEN @ + 1 ELSE @]
  <2>1. /\ d.files = c.files /\ d.bytes = c.bytes /\ d.hits = c.hits
        /\ d.dirs = IF tool = "Tree" /\ node[n].dir THEN c.dirs + 1 ELSE c.dirs
        /\ d \in [files : Nat, dirs : Nat, hits : Nat, bytes : 0..MaxWord, errors : Nat]
    BY DEF Counters
  <2>2. Counted(c, n) = Match(d, n)
    BY DEF Counted
  <2> HIDE DEF d
  <2>3. Match(d, n) = IF tool = "Find" /\ node[n].hit THEN [d EXCEPT !.hits = d.hits + 1] ELSE d
    BY DEF Match
  <2> QED BY <2>1, <2>2, <2>3
<1> QED BY <1>1, <1>2

\* An entry is counted once.
LEMMA TallyEntry ==
  ASSUME NEW c \in Counters, node \in [All -> Attributes], NEW n \in All,
         tool \in {"DU", "Find", "Tree"}, NEW R, NEW S, R \subseteq All, S \subseteq All,
         n \notin R, n \notin S, Tally(c, R, S)
  PROVE  /\ ~node[n].dir => Tally(File(Counted(c, n), n), R \cup {n}, S \cup {n})
         /\ node[n].dir => Tally(Counted(c, n), R, S \cup {n})
<1> DEFINE d == Counted(c, n)
           e == File(d, n)
<1>1. /\ d \in Counters /\ d.files = c.files /\ d.bytes = c.bytes
      /\ d.dirs = IF tool = "Tree" /\ node[n].dir THEN c.dirs + 1 ELSE c.dirs
      /\ d.hits = IF tool = "Find" /\ node[n].hit THEN c.hits + 1 ELSE c.hits
  BY CountersAre, FieldsAre
<1> HIDE DEF d
<1>2. /\ e.files = IF tool = "Find" THEN d.files ELSE d.files + 1
      /\ e.bytes = IF tool = "DU" THEN AddSize(d.bytes, node[n].size) ELSE d.bytes
      /\ e.dirs = d.dirs /\ e.hits = d.hits
  BY <1>1, FieldsAre
<1> HIDE DEF e
<1>3. /\ n \in FileNodes <=> ~node[n].dir
      /\ n \in DirNodes <=> node[n].dir
      /\ n \in HitNodes <=> node[n].hit
  BY DEF FileNodes, DirNodes, HitNodes
<1>4. \A D : /\ n \in D => Cardinality((S \cup {n}) \cap D) = Cardinality(S \cap D) + 1
             /\ n \notin D => (S \cup {n}) \cap D = S \cap D
  BY CardAdd
<1>5. \A D : /\ n \in D => Cardinality((R \cup {n}) \cap D) = Cardinality(R \cap D) + 1
             /\ n \notin D => (R \cup {n}) \cap D = R \cap D
  BY CardAdd
<1>6. CASE tool = "DU"
  <2>1. /\ c.files = Cardinality(R \cap FileNodes)
        /\ c.dirs = Cardinality(R \cap DirNodes)
        /\ c.bytes = Min({MaxWord, Total(R \cap FileNodes)})
    BY <1>6 DEF Tally
  <2>2. d.files = c.files /\ d.bytes = c.bytes /\ d.dirs = c.dirs
    BY <1>1, <1>6
  <2>3. Tally(d, R, S \cup {n})
    BY <1>6, <2>1, <2>2 DEF Tally
  <2>4. ASSUME ~node[n].dir PROVE Tally(e, R \cup {n}, S \cup {n})
    <3>1. n \in FileNodes /\ n \notin DirNodes
      BY <1>3, <2>4
    <3>2. /\ Cardinality((R \cup {n}) \cap FileNodes) = Cardinality(R \cap FileNodes) + 1
          /\ (R \cup {n}) \cap DirNodes = R \cap DirNodes
      BY <1>5, <3>1
    <3>3. (R \cup {n}) \cap FileNodes = (R \cap FileNodes) \cup {n} /\ n \notin R \cap FileNodes
      BY <3>1
    <3>4. /\ Total((R \cup {n}) \cap FileNodes) = Total(R \cap FileNodes) + Size(n)
          /\ Total(R \cap FileNodes) \in Nat
      BY <3>3, TotalIs
    <3>5. AddSize(c.bytes, node[n].size) = Min({MaxWord, Total((R \cup {n}) \cap FileNodes)})
      BY <2>1, <3>4, AddSizeIs
    <3>6. e.files = c.files + 1 /\ e.dirs = c.dirs /\ e.bytes = AddSize(c.bytes, node[n].size)
      BY <1>2, <1>6, <2>2
    <3> QED BY <1>6, <2>1, <3>2, <3>5, <3>6 DEF Tally
  <2> QED BY <2>3, <2>4 DEF d, e
<1>7. CASE tool = "Tree"
  <2>1. c.files = Cardinality(S \cap FileNodes) /\ c.dirs = Cardinality(S \cap DirNodes)
    BY <1>7 DEF Tally
  <2>2. ASSUME node[n].dir PROVE Tally(d, R, S \cup {n})
    <3>1. n \notin FileNodes /\ n \in DirNodes
      BY <1>3, <2>2
    <3>2. d.files = c.files /\ d.dirs = c.dirs + 1
      BY <1>1, <1>7, <2>2
    <3>3. /\ (S \cup {n}) \cap FileNodes = S \cap FileNodes
          /\ Cardinality((S \cup {n}) \cap DirNodes) = Cardinality(S \cap DirNodes) + 1
      BY <1>4, <3>1
    <3> QED BY <1>7, <2>1, <3>2, <3>3 DEF Tally
  <2>3. ASSUME ~node[n].dir PROVE Tally(e, R \cup {n}, S \cup {n})
    <3>1. n \in FileNodes /\ n \notin DirNodes
      BY <1>3, <2>3
    <3>2. e.files = c.files + 1 /\ e.dirs = c.dirs
      BY <1>1, <1>2, <1>7, <2>3
    <3>3. /\ (S \cup {n}) \cap DirNodes = S \cap DirNodes
          /\ Cardinality((S \cup {n}) \cap FileNodes) = Cardinality(S \cap FileNodes) + 1
      BY <1>4, <3>1
    <3> QED BY <1>7, <2>1, <3>2, <3>3 DEF Tally
  <2> QED BY <2>2, <2>3 DEF d, e
<1>8. CASE tool = "Find"
  <2>1. c.hits = Cardinality(S \cap HitNodes)
    BY <1>8 DEF Tally
  <2>2. d.hits = Cardinality((S \cup {n}) \cap HitNodes)
    <3>1. CASE node[n].hit
      BY <1>1, <1>3, <1>4, <1>8, <2>1, <3>1
    <3>2. CASE ~node[n].hit
      BY <1>1, <1>3, <1>4, <1>8, <2>1, <3>2
    <3> QED BY <3>1, <3>2
  <2>3. e.hits = d.hits
    BY <1>2
  <2>4. Tally(d, R, S \cup {n}) /\ Tally(e, R \cup {n}, S \cup {n})
    BY <1>8, <2>2, <2>3 DEF Tally
  <2> QED BY <2>4 DEF d, e
<1> QED BY <1>6, <1>7, <1>8

\* DU opens a directory.
LEMMA TallyOpen ==
  ASSUME NEW c \in Counters, node \in [All -> Attributes], NEW n \in All,
         tool \in {"DU", "Find", "Tree"}, NEW R, NEW S, R \subseteq All,
         n \notin R, Tally(c, R, S), tool = "DU" => node[n].dir
  PROVE  Tally([c EXCEPT !.dirs = IF tool = "DU" THEN @ + 1 ELSE @], R \cup {n}, S)
<1> DEFINE d == [c EXCEPT !.dirs = IF tool = "DU" THEN @ + 1 ELSE @]
<1>1. /\ d.files = c.files /\ d.bytes = c.bytes /\ d.hits = c.hits
      /\ d.dirs = IF tool = "DU" THEN c.dirs + 1 ELSE c.dirs
  BY DEF Counters
<1> HIDE DEF d
<1>2. CASE tool = "DU"
  <2>1. /\ c.files = Cardinality(R \cap FileNodes)
        /\ c.dirs = Cardinality(R \cap DirNodes)
        /\ c.bytes = Min({MaxWord, Total(R \cap FileNodes)})
    BY <1>2 DEF Tally
  <2>2. n \notin FileNodes /\ n \in DirNodes
    BY <1>2 DEF FileNodes, DirNodes
  <2>3. /\ (R \cup {n}) \cap FileNodes = R \cap FileNodes
        /\ Cardinality((R \cup {n}) \cap DirNodes) = Cardinality(R \cap DirNodes) + 1
    BY <2>2, CardAdd
  <2>4. Tally(d, R \cup {n}, S)
    BY <1>1, <1>2, <2>1, <2>3 DEF Tally
  <2> QED BY <2>4 DEF d
<1>3. CASE tool # "DU"
  <2>1. Tally(d, R \cup {n}, S)
    BY <1>1, <1>3 DEF Tally
  <2> QED BY <2>1 DEF d
<1> QED BY <1>2, <1>3

\* DU was called with a file.
LEMMA TallyFile ==
  ASSUME NEW c \in Counters, node \in [All -> Attributes], NEW n \in All,
         tool = "DU", NEW R, NEW S, R \subseteq All,
         n \notin R, Tally(c, R, S), ~node[n].dir
  PROVE  Tally(File(c, n), R \cup {n}, S)
<1> DEFINE e == File(c, n)
<1>1. e.files = c.files + 1 /\ e.dirs = c.dirs /\ e.bytes = AddSize(c.bytes, node[n].size)
  BY FieldsAre
<1> HIDE DEF e
<1>2. /\ c.files = Cardinality(R \cap FileNodes)
      /\ c.dirs = Cardinality(R \cap DirNodes)
      /\ c.bytes = Min({MaxWord, Total(R \cap FileNodes)})
  BY DEF Tally
<1>3. n \in FileNodes /\ n \notin DirNodes
  BY DEF FileNodes, DirNodes
<1>4. /\ Cardinality((R \cup {n}) \cap FileNodes) = Cardinality(R \cap FileNodes) + 1
      /\ (R \cup {n}) \cap DirNodes = R \cap DirNodes
  BY <1>3, CardAdd
<1>5. (R \cup {n}) \cap FileNodes = (R \cap FileNodes) \cup {n} /\ n \notin R \cap FileNodes
  BY <1>3
<1>6. /\ Total((R \cup {n}) \cap FileNodes) = Total(R \cap FileNodes) + Size(n)
      /\ Total(R \cap FileNodes) \in Nat
  BY <1>5, TotalIs
<1>7. AddSize(c.bytes, node[n].size) = Min({MaxWord, Total((R \cup {n}) \cap FileNodes)})
  BY <1>2, <1>6, AddSizeIs
<1>8. Tally(e, R \cup {n}, S)
  BY <1>1, <1>2, <1>4, <1>7 DEF Tally
<1> QED BY <1>8 DEF e

\* The counters mean the same after a step.
LEMMA TallyFrame ==
  ASSUME UNCHANGED <<tool, disk>>
  PROVE  \A c, R, S : Tally(c, R, S)' <=> Tally(c, R, S)
<1>1. node' = node /\ tool' = tool /\ \A S : Total(S)' = Total(S)
  BY DiskFrame
<1>2. FileNodes' = FileNodes /\ DirNodes' = DirNodes /\ HitNodes' = HitNodes
  BY <1>1 DEF FileNodes, DirNodes, HitNodes
<1> QED BY <1>1, <1>2 DEF Tally

\* No step takes an error back.
LEMMA ErrorsStay ==
  ASSUME ShapeOK, [Next]_vars, count'.errors = 0, rc' # 10
  PROVE  count.errors = 0 /\ rc # 10
<1>0. /\ count \in Counters /\ node \in [All -> Attributes] /\ tool \in {"DU", "Find", "Tree"}
      /\ count.errors \in Nat
  BY DEF ShapeOK, TypeOK, Counters
<1>1. \A n \in All : /\ File(count, n).errors = count.errors
                     /\ Counted(count, n) \in Counters
                     /\ Counted(count, n).errors = count.errors
                     /\ File(Counted(count, n), n).errors = count.errors
                     /\ Error(Counted(count, n)).errors = count.errors + 1
  <2> SUFFICES ASSUME NEW n \in All
               PROVE  /\ File(count, n).errors = count.errors
                      /\ Counted(count, n) \in Counters
                      /\ Counted(count, n).errors = count.errors
                      /\ File(Counted(count, n), n).errors = count.errors
                      /\ Error(Counted(count, n)).errors = count.errors + 1
    OBVIOUS
  <2>1. /\ File(count, n).errors = count.errors
        /\ Counted(count, n) \in Counters
        /\ Counted(count, n).errors = count.errors
    BY <1>0, CountersAre
  <2> QED BY <1>0, <2>1, CountersAre
<1>2. Error(count).errors = count.errors + 1 /\ count.errors + 1 # 0
  BY <1>0 DEF Error, Counters
<1>3. \A n \in All : Error(Counted(count, n)).errors # 0
  BY <1>0, <1>1
<1>4. CASE ParseArgs \/ Report \/ UNCHANGED vars
  <2>1. count' = count /\ (rc' = rc \/ pc # "done")
    BY <1>4 DEF ParseArgs, Report, vars
  <2> QED BY <2>1 DEF ShapeOK, CodeOK, Running
<1>5. CASE LockDir
  BY <1>2, <1>5 DEF LockDir
<1>6. CASE Examine
  <2>1. Here \in All
    BY <1>6, HereIs DEF Opening, Examine, ExamineDir
  <2>2. [count EXCEPT !.dirs = IF tool = "DU" THEN @ + 1 ELSE @].errors = count.errors
    BY <1>0 DEF Counters
  <2> QED BY <1>1, <1>2, <1>6, <2>1, <2>2 DEF Examine, ExamineDir
<1>7. ASSUME NEW n \in Nodes, NextEntry(n) PROVE count.errors = 0 /\ rc # 10
  <2>1. n \in All
    BY DEF Nodes, All
  <2>2. \/ count' = Error(count) \/ count' = File(Counted(count, n), n)
        \/ count' = Counted(count, n) \/ count' = Error(Counted(count, n))
    BY <1>7 DEF NextEntry
  <2>3. rc' = rc
    BY <1>7 DEF NextEntry
  <2> QED BY <1>1, <1>2, <1>3, <2>1, <2>2, <2>3
<1>8. CASE EndDir
  <2>1. (count' = Error(count) \/ count' = count) /\ rc' = rc
    BY <1>8 DEF EndDir, Leave
  <2> QED BY <1>2, <2>1
<1> QED BY <1>4, <1>5, <1>6, <1>7, <1>8 DEF Next

LEMMA TallyStep == ShapeOK /\ TallyOK /\ [Next]_vars => TallyOK'
<1> SUFFICES ASSUME ShapeOK, TallyOK, [Next]_vars, count'.errors = 0, rc' # 10
             PROVE  Tally(count, Scanned, seen)'
  BY DEF TallyOK
<1>0. /\ count \in Counters /\ node \in [All -> Attributes] /\ tool \in {"DU", "Find", "Tree"}
      /\ seen \subseteq All /\ Scanned \subseteq All /\ count.errors \in Nat
  <2>1. /\ count \in Counters /\ node \in [All -> Attributes] /\ tool \in {"DU", "Find", "Tree"}
        /\ seen \subseteq Nodes
    BY DEF ShapeOK, TypeOK, Counters
  <2>2. Nodes \subseteq All /\ Root \in All
    BY DEF Nodes, All, Root
  <2>3. Scanned \subseteq All
    BY <2>1, <2>2 DEF Scanned
  <2>4. count.errors \in Nat
    BY <2>1 DEF Counters
  <2> QED BY <2>1, <2>2, <2>3, <2>4
<1>1. UNCHANGED <<tool, disk>>
  BY DEF Next, ParseArgs, LockDir, Examine, ExamineDir, NextEntry, EndDir, Leave, Report, vars, disk
<1>2. Tally(count, Scanned, seen)
  BY ErrorsStay DEF TallyOK
<1>3. ASSUME NEW c, NEW R, NEW S, Tally(c, R, S), count' = c, Scanned' = R, seen' = S
      PROVE  Tally(count, Scanned, seen)'
  <2>1. Tally(c, R, S)'
    BY <1>1, <1>3, TallyFrame
  <2> QED BY <1>3, <2>1 DEF Tally
<1>4. Error(count).errors # 0 /\ \A n \in All : Error(Counted(count, n)).errors # 0
  <2>1. Error(count).errors # 0
    BY <1>0 DEF Error, Counters
  <2>2. ASSUME NEW n \in All PROVE Error(Counted(count, n)).errors # 0
    <3>1. Counted(count, n) \in Counters /\ Counted(count, n).errors = count.errors
      BY <1>0, CountersAre
    <3>2. Error(Counted(count, n)).errors = count.errors + 1
      BY <1>0, <3>1, CountersAre
    <3> QED BY <1>0, <3>2
  <2> QED BY <2>1, <2>2
<1>5. Opening => Here \in All /\ Here \in seen \cup {Root} /\ Here \notin Scanned
  BY HereIs DEF Scanned, Waiting
<1>6. ASSUME Opening, ~Opening', seen' = seen PROVE Scanned' = Scanned \cup {Here}
  BY <1>5, <1>6 DEF Scanned, Waiting
<1>7. ASSUME UNCHANGED <<stack, slot, seen>>, Opening' <=> Opening
      PROVE  Scanned' = Scanned
  <2>1. Here' = Here
    BY <1>7 DEF Here, ChildSlot
  <2> QED BY <1>7, <2>1 DEF Scanned, Waiting
<1>8. CASE ParseArgs \/ Report \/ UNCHANGED vars
  <2>1. UNCHANGED <<stack, slot, seen, count>> /\ (Opening' <=> Opening)
    BY <1>8 DEF ParseArgs, Report, vars, Opening
  <2> QED BY <1>2, <1>3, <1>7, <2>1
<1>9. CASE LockDir
  <2>1. count' = count /\ UNCHANGED <<stack, slot, seen>> /\ pc = "lock" /\ pc' = "examine"
    BY <1>4, <1>9 DEF LockDir
  <2> QED BY <1>2, <1>3, <1>7, <2>1 DEF Opening
<1>10. CASE Examine
  <2>1. pc = "examine" /\ seen' = seen
    BY <1>10 DEF Examine, ExamineDir
  <2>2. Here \in All /\ Here \notin Scanned
    BY <1>5, <2>1 DEF Opening
  <2>3. CASE tool = "DU" /\ ~node[Here].dir /\ count' = File(count, Here) /\ ReturnTo(stack)
    <3>1. Scanned' = Scanned \cup {Here}
      BY <1>6, <2>1, <2>3, ReturnIs DEF Opening
    <3>2. Tally(File(count, Here), Scanned \cup {Here}, seen)
      BY <1>0, <1>2, <2>2, <2>3, TallyFile
    <3> QED BY <1>3, <2>1, <2>3, <3>1, <3>2
  <2>4. CASE /\ tool = "DU" => node[Here].dir
             /\ count' = [count EXCEPT !.dirs = IF tool = "DU" THEN @ + 1 ELSE @]
             /\ pc' = "loop"
    <3>1. Scanned' = Scanned \cup {Here}
      BY <1>6, <2>1, <2>4 DEF Opening
    <3>2. Tally([count EXCEPT !.dirs = IF tool = "DU" THEN @ + 1 ELSE @], Scanned \cup {Here}, seen)
      BY <1>0, <1>2, <2>2, <2>4, TallyOpen
    <3> QED BY <1>3, <2>1, <2>4, <3>1, <3>2
  <2> QED BY <1>4, <1>10, <2>3, <2>4 DEF Examine, ExamineDir
<1>11. ASSUME NEW n \in Nodes, NextEntry(n) PROVE Tally(count, Scanned, seen)'
  <2>1. n \in All /\ n # Root /\ n \notin seen
    BY <1>11, EntryIs DEF Nodes, All, Root
  <2>2. pc = "loop" /\ seen' = seen \cup {n}
    BY <1>11 DEF NextEntry
  <2>3. Scanned = seen \cup {Root} /\ n \notin Scanned
    BY <2>1, <2>2 DEF Scanned, Waiting, Opening
  <2>4. CASE ~node[n].dir /\ count' = File(Counted(count, n), n) /\ pc' = pc
    <3>1. Scanned' = Scanned \cup {n}
      BY <2>2, <2>3, <2>4 DEF Scanned, Waiting, Opening
    <3>2. Tally(File(Counted(count, n), n), Scanned \cup {n}, seen \cup {n})
      BY <1>0, <1>2, <2>1, <2>3, <2>4, TallyEntry
    <3> QED BY <1>3, <2>2, <2>4, <3>1, <3>2
  <2>5. CASE node[n].fits /\ node[n].dir /\ count' = Counted(count, n) /\ pc' = "lock"
    <3>0. PICK L : L = Len(stack)
      OBVIOUS
    <3>1. L \in Nat /\ L >= 1 /\ L <= MaxDepth + 1 /\ Len(stack') = L
      BY <1>11, <3>0, EntryIs
    <3>2. slot' = [slot EXCEPT ![L - 1] = n]
      BY <1>11, <2>5, <3>0 DEF NextEntry, ChildSlot, Depth, AppendName
    <3>3. slot \in [0..MaxDepth -> All \cup {NoPath}] /\ L - 1 \in 0..MaxDepth
      BY <3>1 DEF ShapeOK, TypeOK
    <3>4. slot'[L - 1] = n /\ stack' # <<>>
      BY <3>1, <3>2, <3>3
    <3>5. Here' = n
      BY <3>1, <3>4 DEF Here, ChildSlot
    <3>6. Scanned' = Scanned
      BY <2>1, <2>2, <2>3, <2>5, <3>5 DEF Scanned, Waiting, Opening
    <3>7. Tally(Counted(count, n), Scanned, seen \cup {n})
      BY <1>0, <1>2, <2>1, <2>3, <2>5, TallyEntry
    <3> QED BY <1>3, <2>2, <2>5, <3>6, <3>7
  <2> QED BY <1>4, <1>11, <2>1, <2>4, <2>5 DEF NextEntry
<1>12. CASE EndDir
  <2>1. count' = count /\ seen' = seen /\ pc = "loop" /\ ReturnTo(SubSeq(stack, 1, Depth))
    BY <1>4, <1>12 DEF EndDir, Leave
  <2>2. pc' \in {"report", "loop"}
    BY <2>1, ReturnIs
  <2>3. Scanned' = Scanned
    BY <2>1, <2>2 DEF Scanned, Waiting, Opening
  <2> QED BY <1>2, <1>3, <2>1, <2>3
<1> QED BY <1>8, <1>9, <1>10, <1>11, <1>12 DEF Next

LEMMA TallyInvariance == Spec => []TallyOK
<1>1. ASSUME Init PROVE TallyOK
  <2>1. node \in [All -> Attributes]
    BY <1>1, InitShape DEF ShapeOK, TypeOK
  <2>2. seen = {} /\ Scanned = {}
    BY <1>1 DEF Init, Scanned, Waiting, Opening, Here
  <2>3. count.files = 0 /\ count.dirs = 0 /\ count.hits = 0 /\ count.bytes = 0
    BY <1>1 DEF Init
  <2>4. \A D : {} \cap D = {}
    OBVIOUS
  <2>5. Cardinality({}) = 0 /\ Total({}) = 0
    BY <2>1, FS_EmptySet, TotalIs
  <2>6. Min({MaxWord, 0}) = 0
    BY MinOfTwo
  <2>7. Tally(count, {}, {})
    BY <2>3, <2>4, <2>5, <2>6 DEF Tally
  <2> QED BY <2>2, <2>7 DEF TallyOK
<1> QED BY <1>1, TallyStep, ShapeInvariance, PTL DEF Spec

-----------------------------------------------------------------------------
(***************************************************************************)
(* Nothing is passed over: the entries of a directory have been delivered, *)
(* or it is open, or about to be opened.                                   *)
(***************************************************************************)
Open == {stack[i].node : i \in 1..Len(stack)}

Closed == \A d \in seen \cup {Root} : Kids(d) \subseteq seen \/ d \in Waiting \cup Open

ClosedOK == count.errors = 0 /\ rc # 10 /\ (tool = "Tree" => ~cut) => Closed

LEMMA ClosedStep == ShapeOK /\ ClosedOK /\ [Next]_vars => ClosedOK'
<1> SUFFICES ASSUME ShapeOK, ClosedOK, [Next]_vars, count'.errors = 0, rc' # 10,
                    tool' = "Tree" => ~cut'
             PROVE  Closed'
  BY DEF ClosedOK
<1>0. /\ count \in Counters /\ node \in [All -> Attributes] /\ tool \in {"DU", "Find", "Tree"}
      /\ count.errors \in Nat
  BY DEF ShapeOK, TypeOK, Counters
<1>1. UNCHANGED <<tool, disk>>
  BY DEF Next, ParseArgs, LockDir, Examine, ExamineDir, NextEntry, EndDir, Leave, Report, vars, disk
<1>2. tool = "Tree" => ~cut
  BY <1>1 DEF Next, ParseArgs, LockDir, Examine, ExamineDir, NextEntry, EndDir, Leave, Report, vars
<1>3. Closed
  BY <1>2, ErrorsStay DEF ClosedOK
<1>4. \A d : Kids(d)' = Kids(d)
  BY <1>1, DiskFrame
<1>5. Error(count).errors # 0 /\ \A n \in All : Error(Counted(count, n)).errors # 0
  <2>1. Error(count).errors # 0
    BY <1>0 DEF Error, Counters
  <2>2. ASSUME NEW n \in All PROVE Error(Counted(count, n)).errors # 0
    <3>1. Counted(count, n) \in Counters /\ Counted(count, n).errors = count.errors
      BY <1>0, CountersAre
    <3>2. Error(Counted(count, n)).errors = count.errors + 1
      BY <1>0, <3>1, CountersAre
    <3> QED BY <1>0, <3>2
  <2> QED BY <2>1, <2>2
<1>6. ASSUME NEW n, ~node[n].dir PROVE Kids(n) = {}
  <2> SUFFICES ASSUME NEW m \in Kids(n) PROVE FALSE
    OBVIOUS
  <2>1. m \in Nodes /\ Present(m) /\ parent[m] = n
    BY KidsAre
  <2> QED BY <1>6, <2>1 DEF ShapeOK, TreeOK
<1>7. ASSUME seen' = seen, \A d : d \in Waiting \cup Open => d \in Waiting' \cup Open' \/ Kids(d) \subseteq seen
      PROVE  Closed'
  BY <1>3, <1>4, <1>7 DEF Closed
<1>8. ASSUME UNCHANGED <<stack, slot, seen>>, Opening' <=> Opening PROVE Closed'
  <2>1. Here' = Here
    BY <1>8 DEF Here, ChildSlot
  <2>2. Waiting' = Waiting /\ Open' = Open
    BY <1>8, <2>1 DEF Waiting, Open
  <2> QED BY <1>7, <1>8, <2>2
<1>9. CASE ParseArgs \/ Report \/ UNCHANGED vars
  <2>1. UNCHANGED <<stack, slot, seen>> /\ (Opening' <=> Opening)
    BY <1>9 DEF ParseArgs, Report, vars, Opening
  <2> QED BY <1>8, <2>1
<1>10. CASE LockDir
  <2>1. UNCHANGED <<stack, slot, seen>> /\ pc = "lock" /\ pc' = "examine"
    BY <1>5, <1>10 DEF LockDir
  <2> QED BY <1>8, <2>1 DEF Opening
<1>11. CASE Examine
  <2>1. pc = "examine" /\ seen' = seen
    BY <1>11 DEF Examine, ExamineDir
  <2>2. Waiting = {Here}
    BY <2>1 DEF Waiting, Opening
  <2>3. CASE ~node[Here].dir /\ ReturnTo(stack)
    <3>1. Kids(Here) = {} /\ stack' = stack
      BY <1>6, <2>3, ReturnIs
    <3>2. Open' = Open
      BY <3>1 DEF Open
    <3> QED BY <1>7, <2>1, <2>2, <3>1, <3>2
  <2>4. CASE stack' = Append(stack, [node |-> Here, entries |-> 0, left |-> Kids(Here)])
    <3> DEFINE f == [node |-> Here, entries |-> 0, left |-> Kids(Here)]
    <3>0. PICK L : L = Len(stack)
      OBVIOUS
    <3>1. stack \in Seq(Frame) /\ L \in Nat
      BY <3>0 DEF ShapeOK, TypeOK, Frame
    <3>2. Here \in All
      BY <2>1, HereIs DEF Opening
    <3>3. f \in Frame /\ f.node = Here
      BY <3>2, KidsAre DEF Frame
    <3>4. stack' = Append(stack, f)
      BY <2>4
    <3> HIDE DEF f
    <3>5. /\ Len(Append(stack, f)) = L + 1 /\ Append(stack, f)[L + 1] = f
          /\ \A k \in 1..L : Append(stack, f)[k] = stack[k]
      BY ONLY <3>0, <3>1, <3>3, AppendProperties
    <3>6. /\ stack'[L + 1] = f /\ Len(stack') = L + 1
          /\ \A k \in 1..L : stack'[k] = stack[k]
      BY <3>4, <3>5
    <3>7. Here \in Open'
      <4>1. L + 1 \in 1..(L + 1)
        BY <3>1
      <4> QED BY <3>3, <3>6, <4>1 DEF Open
    <3>8. ASSUME NEW d \in Open PROVE d \in Open'
      <4>1. PICK k \in 1..L : d = stack[k].node
        BY <3>0 DEF Open
      <4>2. k \in 1..(L + 1)
        BY <3>1
      <4> QED BY <3>6, <4>1, <4>2 DEF Open
    <3> QED BY <1>7, <2>1, <2>2, <3>7, <3>8
  <2> QED BY <1>5, <1>11, <2>3, <2>4 DEF Examine, ExamineDir
<1>12. ASSUME NEW n \in Nodes, NextEntry(n) PROVE Closed'
  <2>0. PICK L : L = Len(stack)
    OBVIOUS
  <2>1. /\ L \in Nat /\ L >= 1 /\ L <= MaxDepth + 1 /\ Len(stack') = L
        /\ \A k \in 1..L : k # L => stack'[k] = stack[k]
        /\ stack'[L].node = stack[L].node
    BY <1>12, <2>0, EntryIs
  <2>2. pc = "loop" /\ seen' = seen \cup {n} /\ n \in All
    BY <1>12 DEF NextEntry, Nodes, All
  <2>3. Waiting = {}
    BY <2>2 DEF Waiting, Opening
  <2>4. ASSUME NEW d \in Open PROVE d \in Open'
    <3>1. PICK k \in 1..L : d = stack[k].node
      BY <2>0 DEF Open
    <3>2. d = stack'[k].node
      BY <2>1, <3>1
    <3> QED BY <2>1, <3>2 DEF Open
  <2>5. ASSUME NEW d \in seen \cup {Root} PROVE Kids(d) \subseteq seen' \/ d \in Open'
    BY <1>3, <2>2, <2>3, <2>4 DEF Closed
  <2>6. Kids(n) = {} \/ n \in Waiting'
    <3>1. CASE ~node[n].dir
      BY <1>6, <3>1
    <3>2. CASE node[n].fits /\ pc' = "lock"
      <4>1. slot' = [slot EXCEPT ![L - 1] = n]
        BY <1>12, <2>0, <3>2 DEF NextEntry, ChildSlot, Depth, AppendName
      <4>2. slot \in [0..MaxDepth -> All \cup {NoPath}] /\ L - 1 \in 0..MaxDepth
        BY <2>1 DEF ShapeOK, TypeOK
      <4>3. slot'[L - 1] = n /\ stack' # <<>>
        BY <2>1, <4>1, <4>2
      <4>4. Here' = n
        BY <2>1, <4>3 DEF Here, ChildSlot
      <4> QED BY <3>2, <4>4 DEF Waiting, Opening
    <3> QED BY <1>5, <1>12, <2>2, <3>1, <3>2 DEF NextEntry
  <2> QED BY <1>4, <2>2, <2>5, <2>6 DEF Closed
<1>13. CASE EndDir
  <2>0. PICK L : L = Len(stack)
    OBVIOUS
  <2>1. /\ pc = "loop" /\ seen' = seen /\ ReturnTo(SubSeq(stack, 1, L - 1))
        /\ Top.left = {}
    BY <1>1, <1>5, <1>13, <2>0 DEF EndDir, Leave, Depth
  <2>2. stack \in Seq(Frame) /\ L \in Nat
    BY <2>0 DEF ShapeOK, TypeOK, Frame
  <2>3. L \in 1..L /\ L >= 1
    BY <2>0, <2>1, <2>2, EmptySeq DEF ShapeOK, StackOK
  <2>4. FrameOK(L) /\ stack[L].left = {}
    BY <2>0, <2>1, <2>3 DEF ShapeOK, FramesOK, Top
  <2>5. Kids(stack[L].node) \subseteq seen
    BY <2>4 DEF FrameOK
  <2> DEFINE s == SubSeq(stack, 1, L - 1)
  <2>6. Len(s) = L - 1 /\ \A k \in 1..(L - 1) : s[k] = stack[k]
    <3>1. \A k \in 1..(L - 1) : k \in 1..L /\ 1 + k - 1 = k
      BY <2>2
    <3>2. s = [k \in 1..(L - 1) |-> stack[k]]
      BY <2>0, <2>2, <2>3, <3>1
    <3>3. Len([k \in 1..(L - 1) |-> stack[k]]) = L - 1
      BY <2>0, <2>2, <2>3, <3>1
    <3> QED BY <3>2, <3>3
  <2>7. stack' = s
    BY <2>1, ReturnIs
  <2> HIDE DEF s
  <2>8. ASSUME NEW d \in Open PROVE d \in Open' \/ Kids(d) \subseteq seen
    <3>1. PICK k \in 1..L : d = stack[k].node
      BY <2>0 DEF Open
    <3>2. CASE k = L
      BY <2>5, <3>1, <3>2
    <3>3. CASE k # L
      <4>1. k \in 1..(L - 1)
        BY <2>2, <3>3
      <4> QED BY <2>6, <2>7, <3>1, <4>1 DEF Open
    <3> QED BY <3>2, <3>3
  <2>9. Waiting = {}
    BY <2>1 DEF Waiting, Opening
  <2> QED BY <1>7, <2>1, <2>8, <2>9
<1> QED BY <1>9, <1>10, <1>11, <1>12, <1>13 DEF Next

LEMMA ClosedInvariance == Spec => []ClosedOK
<1>1. ASSUME Init PROVE ClosedOK
  <2>1. seen = {} /\ Waiting = {Root}
    BY <1>1 DEF Init, Waiting, Opening, Here
  <2> QED BY <2>1 DEF ClosedOK, Closed
<1> QED BY <1>1, ClosedStep, ShapeInvariance, PTL DEF Spec

\* When no directory is open or waiting, every node has been seen.
LEMMA AllSeen ==
  ASSUME ShapeOK, Closed, pc = "done"
  PROVE  seen = {n \in Nodes : Present(n)}
<1>1. \A d \in seen \cup {Root} : Kids(d) \subseteq seen
  <2>1. stack = <<>> /\ Waiting = {}
    BY DEF ShapeOK, StackOK, Waiting, Opening
  <2>2. Open = {}
    BY <2>1 DEF Open
  <2> QED BY <2>1, <2>2 DEF Closed
<1> DEFINE T == {n \in Nodes : Present(n) /\ n \notin seen}
<1>2. ASSUME T # {} PROVE FALSE
  <2>1. PICK m \in T : \A k \in T : m <= k
    <3>1. T \subseteq Nat
      BY DEF Nodes
    <3> HIDE DEF T
    <3> QED BY <1>2, <3>1, LeastNat
  <2>2. m \in Nodes /\ Present(m) /\ m \notin seen /\ m \in Nat /\ m # Root
    BY DEF Nodes, Root
  <2>3. parent[m] \in All /\ parent[m] <= m /\ parent[m] # m /\ Present(parent[m])
    BY <2>2 DEF ShapeOK, TypeOK, TreeOK, Present
  <2>4. parent[m] \notin T
    <3>1. ~(m <= parent[m])
      BY <2>2, <2>3 DEF All
    <3> HIDE DEF T
    <3> QED BY <2>1, <3>1
  <2>5. parent[m] \in seen \cup {Root}
    <3>1. parent[m] = Root \/ parent[m] \in Nodes
      BY <2>3 DEF All, Nodes, Root
    <3> QED BY <2>3, <2>4, <3>1
  <2>6. m \in Kids(parent[m])
    BY <2>2, <2>3 DEF Kids
  <2> QED BY <1>1, <2>2, <2>5, <2>6
<1>3. seen \subseteq {n \in Nodes : Present(n)}
  BY DEF ShapeOK, TypeOK, SeenOK
<1> QED BY <1>2, <1>3

\* Return code 0 means a complete scan, whatever the tree and the order in which
\* the file system delivers it; return code 5 has a cause.
THEOREM CodeIsTrue == Spec => []ReturnCodeIsTrue
<1>1. ASSUME ShapeOK, CauseOK, TallyOK, ClosedOK PROVE ReturnCodeIsTrue
  <2> SUFFICES ASSUME pc = "done"
               PROVE  /\ rc = 0 /\ (tool = "Tree" => ~cut) => Complete
                      /\ rc = 5 => Cause
    BY DEF ReturnCodeIsTrue
  <2>1. (rc = 0 => count.errors = 0) /\ (rc = 5 => count.errors # 0)
    BY <1>1 DEF ShapeOK, CodeOK
  <2>2. rc = 5 => Cause
    BY <1>1, <2>1 DEF CauseOK
  <2>3. ASSUME rc = 0, tool = "Tree" => ~cut PROVE Complete
    <3>1. Tally(count, Scanned, seen) /\ Closed
      BY <1>1, <2>1, <2>3 DEF TallyOK, ClosedOK
    <3>2. seen = {n \in Nodes : Present(n)}
      BY <1>1, <3>1, AllSeen
    <3>3. Scanned = seen \cup {Root}
      BY DEF Scanned, Waiting, Opening
    <3>4. All = Nodes \cup {Root} /\ Root \notin Nodes /\ Present(Root)
      BY DEF All, Nodes, Root, Present
    <3>5. Scanned = {n \in All : Present(n)}
      BY <3>2, <3>3, <3>4
    <3>6. Scanned \cap FileNodes = Files /\ Scanned \cap DirNodes = Dirs
      BY <3>5 DEF FileNodes, DirNodes, Files, Dirs
    <3>7. seen \cap FileNodes = Files \ {Root} /\ seen \cap DirNodes = Dirs \ {Root}
      BY <3>2, <3>4 DEF FileNodes, DirNodes, Files, Dirs
    <3>8. seen \cap HitNodes = {n \in Nodes : Present(n) /\ node[n].hit}
      BY <3>2, <3>4 DEF HitNodes
    <3>9. CASE tool = "DU"
      <4>1. /\ count.files = Cardinality(Files) /\ count.dirs = Cardinality(Dirs)
            /\ count.bytes = Min({MaxWord, Total(Files)})
        BY <3>1, <3>6, <3>9 DEF Tally
      <4>2. tool # "Tree" /\ tool # "Find"
        BY <3>9
      <4> QED BY <3>9, <4>1, <4>2, Zenon DEF Complete
    <3>10. CASE tool = "Tree"
      <4>1. /\ count.files = Cardinality(Files \ {Root})
            /\ count.dirs = Cardinality(Dirs \ {Root})
        BY <3>1, <3>7, <3>10 DEF Tally
      <4>2. tool # "DU" /\ tool # "Find"
        BY <3>10
      <4> QED BY <3>10, <4>1, <4>2, Zenon DEF Complete
    <3>11. CASE tool = "Find"
      <4>1. count.hits = Cardinality({n \in Nodes : Present(n) /\ node[n].hit})
        BY <3>1, <3>8, <3>11 DEF Tally
      <4>2. tool # "DU" /\ tool # "Tree"
        BY <3>11
      <4> QED BY <3>11, <4>1, <4>2, Zenon DEF Complete
    <3> QED BY <1>1, <3>9, <3>10, <3>11 DEF ShapeOK, TypeOK
  <2> QED BY <2>2, <2>3
<1> QED BY <1>1, ShapeInvariance, CauseInvariance, TallyInvariance, ClosedInvariance, PTL
==============================================================================
