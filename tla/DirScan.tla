------------------------------ MODULE DirScan ------------------------------
(***************************************************************************)
(* scan_dir of DU, Find and Tree: a recursive scan of a directory tree,    *)
(* with one lock per open directory and one static path buffer per depth.  *)
(* The recursion is a stack of frames; every Lock, Examine and ExNext may  *)
(* fail, as it does when others delete what is being scanned.              *)
(*                                                                         *)
(* A path is the node it leads to; whether a path with its last name fits  *)
(* the PATH_LEN characters of a buffer is an attribute of the node.        *)
(***************************************************************************)
EXTENDS Integers, Sequences, FiniteSetsExt

CONSTANTS NumNodes,     \* bound: nodes below the root of the scan
          MaxDepth,     \* MAX_DEPTH
          MaxEntries,   \* MAX_ENTRIES_PER_DIR of DU and Find
          Sizes,        \* fib_Size of files
          MaxWord       \* 0xffffffff

ASSUME ScanAssumption ==
  /\ {NumNodes, MaxDepth, MaxWord} \subseteq Nat
  /\ MaxEntries \in Nat \ {0}
  /\ Sizes \subseteq Int

Root == 0
Nodes == 1..NumNodes
All == 0..NumNodes
NoPath == -1

VARIABLES tool,
          parent, node,   \* the file system: parent[n] = n if there is no n
          pc,
          stack,          \* one frame per open directory
          slot,           \* path_slots: the path in the buffer of each depth
          count,          \* the counters the tools print
          locks,          \* locks held
          cut, failed,    \* history: ExNext failed; some call failed
          seen,           \* history: the entries ExNext has delivered
          rc

vars == <<tool, parent, node, pc, stack, slot, count, locks, cut, failed, seen, rc>>
disk == <<parent, node>>

Running == -1
Attributes == [dir : BOOLEAN, fits : BOOLEAN, hit : BOOLEAN, size : Sizes]
Present(n) == n = Root \/ parent[n] # n
Kids(d) == {n \in Nodes : parent[n] = d /\ parent[n] # n}

TypeOK ==
  /\ tool \in {"DU", "Find", "Tree"}
  /\ parent \in [Nodes -> All] /\ node \in [All -> Attributes]
  /\ pc \in {"args", "lock", "examine", "loop", "report", "done"}
  /\ stack \in Seq([node : All, entries : Nat, left : SUBSET Nodes])
  /\ Len(stack) <= MaxDepth + 1
  /\ slot \in [0..MaxDepth -> All \cup {NoPath}]
  /\ count \in [files : Nat, dirs : Nat, hits : Nat, bytes : 0..MaxWord, errors : Nat]
  /\ locks \in 0..(MaxDepth + 2)
  /\ cut \in BOOLEAN /\ failed \in BOOLEAN /\ seen \subseteq Nodes
  /\ rc \in {Running, 0, 5, 10}

\* Every tree of up to NumNodes nodes below the root, numbered level by level.
\* Attributes a tool does not look at are fixed.
Init ==
  /\ tool \in {"DU", "Find", "Tree"}
  /\ \E k \in 0..NumNodes :
       /\ parent \in {f \in [Nodes -> All] : \A n \in Nodes :
                        IF n > k THEN f[n] = n
                        ELSE f[n] < n /\ (n > 1 => f[n - 1] <= f[n])}
       /\ node \in [All -> {a \in Attributes :
                              /\ a.hit => tool = "Find"
                              /\ a.size # Min(Sizes) => tool = "DU" /\ ~a.dir}]
       /\ \A n \in (k + 1)..NumNodes : ~node[n].dir /\ node[n].fits /\ ~node[n].hit
                                        /\ node[n].size = Min(Sizes)
  /\ node[Root].fits /\ ~node[Root].hit
  /\ \A n \in Nodes : Present(n) => node[parent[n]].dir
  /\ pc = "args" /\ stack = <<>> /\ slot = [d \in 0..MaxDepth |-> NoPath]
  /\ count = [files |-> 0, dirs |-> 0, hits |-> 0, bytes |-> 0, errors |-> 0]
  /\ locks = 0 /\ cut = FALSE /\ failed = FALSE /\ seen = {} /\ rc = Running

-----------------------------------------------------------------------------
\* One buffer for all depths.
ChildSlot_Shared(d) == 0

\* The buffer in which the directory at depth d builds its children's paths.
ChildSlot(d) == d

\* The path scan_dir is called with: the argument, or the caller's buffer.
Here == IF stack = <<>> THEN Root ELSE slot[ChildSlot(Len(stack) - 1)]

Top == stack[Len(stack)]
Depth == Len(stack) - 1

\* The total wraps around.
AddSize_Wraps(total, size) == IF size <= 0 THEN total ELSE (total + size) % (MaxWord + 1)

\* add_size: a saturating sum.
AddSize(total, size) ==
  CASE size <= 0 -> total
    [] size > 0 /\ MaxWord - total < size -> MaxWord
    [] OTHER -> total + size

Error(c) == [c EXCEPT !.errors = @ + 1]

\* One file: DU and Tree count it, DU adds its size.
File(c, n) ==
  CASE tool = "DU" -> [c EXCEPT !.files = @ + 1, !.bytes = AddSize(@, node[n].size)]
    [] tool = "Tree" -> [c EXCEPT !.files = @ + 1]
    [] tool = "Find" -> c

Match(c, n) == IF tool = "Find" /\ node[n].hit THEN [c EXCEPT !.hits = @ + 1] ELSE c

\* What an entry counts for whatever becomes of it.
Counted(c, n) ==
  Match([c EXCEPT !.dirs = IF tool = "Tree" /\ node[n].dir THEN @ + 1 ELSE @], n)

\* append_name: the path of n, or something cut off.
AppendName(n) == IF node[n].fits THEN n ELSE NoPath

\* scan_dir returns, to its caller's loop or to main.
ReturnTo(frames) ==
  stack' = frames /\ pc' = IF frames = <<>> THEN "report" ELSE "loop"

-----------------------------------------------------------------------------
ParseArgs ==
  /\ pc = "args"
  /\ \/ pc' = "lock" /\ UNCHANGED rc
     \/ pc' = "done" /\ rc' = 10
  /\ UNCHANGED <<tool, disk, stack, slot, count, locks, cut, failed, seen>>

\* The test of depth before the Lock never fires: callers make it.
LockDir ==
  /\ pc = "lock"
  /\ \/ locks' = locks + 1 /\ pc' = "examine" /\ UNCHANGED <<stack, count, failed>>
     \/ count' = Error(count) /\ failed' = TRUE /\ ReturnTo(stack) /\ UNCHANGED locks
  /\ UNCHANGED <<tool, disk, slot, cut, seen, rc>>

\* Examine fails, or DU finds that it was called with a file, or the directory
\* is open.
ExamineDir(unlockOnError) ==
  /\ pc = "examine"
  /\ \/ /\ count' = Error(count) /\ failed' = TRUE
        /\ locks' = locks - unlockOnError
        /\ ReturnTo(stack)
     \/ /\ tool = "DU" /\ ~node[Here].dir
        /\ count' = File(count, Here) /\ locks' = locks - 1
        /\ ReturnTo(stack) /\ UNCHANGED failed
     \/ /\ tool = "DU" => node[Here].dir
        /\ stack' = Append(stack, [node |-> Here, entries |-> 0, left |-> Kids(Here)])
        /\ count' = [count EXCEPT !.dirs = IF tool = "DU" THEN @ + 1 ELSE @]
        /\ pc' = "loop" /\ UNCHANGED <<locks, failed>>
  /\ UNCHANGED <<tool, disk, slot, cut, seen, rc>>

\* The lock is kept when Examine fails.
Examine_KeepLock == ExamineDir(0)

Examine == ExamineDir(1)

AtMax == tool # "Tree" /\ Top.entries >= MaxEntries

\* ExNext delivers an entry, in the order the file system likes.
NextEntry(n) ==
  /\ pc = "loop" /\ ~AtMax /\ n \in Top.left
  /\ stack' = [stack EXCEPT ![Len(stack)] =
                 [node |-> Top.node, entries |-> Top.entries + 1, left |-> Top.left \ {n}]]
  /\ slot' = [slot EXCEPT ![ChildSlot(Depth)] = AppendName(n)]
  /\ seen' = seen \cup {n}
  /\ \/ ~node[n].fits /\ count' = Error(count) /\ UNCHANGED pc
     \/ /\ node[n].fits /\ ~node[n].dir
        /\ count' = File(Counted(count, n), n) /\ UNCHANGED pc
     \/ /\ node[n].fits /\ node[n].dir /\ Depth < MaxDepth
        /\ count' = Counted(count, n) /\ pc' = "lock"
     \/ /\ node[n].fits /\ node[n].dir /\ Depth >= MaxDepth
        /\ count' = Error(Counted(count, n)) /\ UNCHANGED pc
  /\ UNCHANGED <<tool, disk, locks, cut, failed, rc>>

\* The loop ends at the entry limit, at the end of the directory, or when
\* ExNext fails; then UnLock and return.
Leave(endIsError) ==
  /\ pc = "loop"
  /\ \/ /\ AtMax
        /\ count' = Error(count) /\ UNCHANGED <<cut, failed>>
     \/ /\ ~AtMax /\ Top.left = {} /\ node[Top.node].dir
        /\ count' = IF endIsError THEN Error(count) ELSE count
        /\ UNCHANGED <<cut, failed>>
     \/ /\ ~AtMax /\ cut' = TRUE /\ failed' = TRUE
        /\ count' = IF tool = "Tree" THEN count ELSE Error(count)
  /\ locks' = locks - 1
  /\ ReturnTo(SubSeq(stack, 1, Depth))
  /\ UNCHANGED <<tool, disk, slot, seen, rc>>

\* Every end of the loop counts as an error.
EndDir_AlwaysError == Leave(TRUE)

\* ERROR_NO_MORE_ENTRIES is no error; Tree does not ask.
EndDir == Leave(FALSE)

Report ==
  /\ pc = "report" /\ pc' = "done"
  /\ rc' = IF count.errors # 0 THEN 5 ELSE 0
  /\ UNCHANGED <<tool, disk, stack, slot, count, locks, cut, failed, seen>>

Next ==
  \/ ParseArgs \/ LockDir \/ Examine \/ EndDir \/ Report
  \/ \E n \in Nodes : NextEntry(n)

Spec == Init /\ [][Next]_vars

-----------------------------------------------------------------------------
(***************************************************************************)
(* Properties.                                                             *)
(***************************************************************************)
\* A directory's path is intact as long as the directory is open: deeper
\* levels build their paths in other buffers.
PathsIntact ==
  \A i \in 2..Len(stack) : slot[ChildSlot(i - 2)] = stack[i].node

\* Every path through the recursion releases its lock.
NothingHeldAtExit == pc = "done" => locks = 0

Files == {n \in All : Present(n) /\ ~node[n].dir}
Dirs == {n \in All : Present(n) /\ node[n].dir}

Size(n) == Max({0, node[n].size})

\* The sizes of the files in S together.
Total(S) ==
  LET upTo[n \in All] == (IF n \in S THEN Size(n) ELSE 0) + (IF n = 0 THEN 0 ELSE upTo[n - 1])
  IN  upTo[NumNodes]

\* How far below the root a node lies.
TreeDepth[n \in All] ==
  IF n = Root \/ ~Present(n) THEN 0 ELSE 1 + TreeDepth[parent[n]]

\* A complete scan: every file, directory, byte or match below the path, each
\* once.
Complete ==
  CASE tool = "DU" ->
         /\ count.files = Cardinality(Files) /\ count.dirs = Cardinality(Dirs)
         /\ count.bytes = Min({MaxWord, Total(Files)})
    [] tool = "Tree" -> /\ count.files = Cardinality(Files \ {Root})
                        /\ count.dirs = Cardinality(Dirs \ {Root})
    [] tool = "Find" -> count.hits = Cardinality({n \in Nodes :
                                                    Present(n) /\ node[n].hit})

\* A call failed, a path or a directory reached a limit of the tool, or a
\* directory lies too deep.
Cause ==
  \/ failed
  \/ \E n \in Nodes : Present(n) /\ ~node[n].fits
  \/ tool # "Tree" /\ \E d \in Dirs : Cardinality(Kids(d)) >= MaxEntries
  \/ \E d \in Dirs : TreeDepth[d] > MaxDepth

\* Return code 0 means a complete scan; for Tree, which does not look at why
\* ExNext ended, as long as no ExNext failed.  Return code 5 has a cause.
ReturnCodeIsTrue ==
  pc = "done" =>
    /\ rc = 0 /\ (tool = "Tree" => ~cut) => Complete
    /\ rc = 5 => Cause
=============================================================================
