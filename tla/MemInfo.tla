------------------------------- MODULE MemInfo -------------------------------
(***************************************************************************)
(* ai_get_exec_info and the tools that print what it returns: Info, Mem,   *)
(* WatchMem, Doctor and Snapshot.  It calls AvailMem six times; every call *)
(* is atomic, but other tasks allocate and free memory between the calls.  *)
(*                                                                         *)
(* Memory is two rows of cells, chip and fast; a cell is free or not.      *)
(***************************************************************************)
EXTENDS Program, FiniteSetsExt

CONSTANTS ChipCells, FastCells,  \* how many cells each kind has
          LongModulus,           \* 2^32, the range of a ULONG
          MaxSamples             \* bound on WatchMem's samples

ASSUME MemAssumption ==
  /\ {ChipCells, FastCells} \subseteq Nat
  /\ MaxSamples \in Nat \ {0}
  /\ LongModulus \in Nat /\ LongModulus > ChipCells + FastCells

VARIABLES free,      \* the free cells of each kind
          samples,
          step,      \* how many of the six figures have been read
          info,      \* struct AIExecInfo
          released,  \* history: memory was freed since the first figure
          changed    \* history: memory was allocated or freed since then

memVars == <<free, pc, rc, tool, samples, step, info, released, changed>>

Cells == ChipCells + FastCells
Kinds == {"chip", "fast"}
Groups == Kinds \cup {"any"}
KindCells(k) == IF k = "chip" THEN 1..ChipCells ELSE 1..FastCells
Figures == [group : Groups, what : {"free", "largest"}]
Tools == {"Info", "Mem", "WatchMem", "Doctor", "Snapshot"}

MemTypeOK ==
  /\ free \in [chip : SUBSET KindCells("chip"), fast : SUBSET KindCells("fast")]
  /\ pc \in {"idle", "read", "print", "done"}
  /\ tool \in Tools /\ samples \in 0..MaxSamples
  /\ step \in 0..6
  /\ info \in [Figures -> 0..Cells]
  /\ rc \in {Running, 0, 5, 10}
  /\ released \in BOOLEAN /\ changed \in BOOLEAN

MemInit ==
  /\ free = [chip |-> KindCells("chip"), fast |-> KindCells("fast")]
  /\ pc = "idle" /\ tool \in Tools
  /\ samples \in IF tool = "WatchMem" THEN 1..MaxSamples ELSE {1}
  /\ step = 0 /\ info = [f \in Figures |-> 0] /\ rc = Running
  /\ released = FALSE /\ changed = FALSE

-----------------------------------------------------------------------------
(***************************************************************************)
(* AvailMem (external): free memory, or its largest piece, of a kind.      *)
(***************************************************************************)
Pieces(S) == {p \in S \X S : p[1] <= p[2] /\ p[1]..p[2] \subseteq S}

LargestOf(S) == Max({0} \cup {p[2] - p[1] + 1 : p \in Pieces(S)})

AvailMem(f) ==
  LET Of(k) == IF f.what = "free" THEN Cardinality(free[k]) ELSE LargestOf(free[k])
  IN  IF f.group # "any" THEN Of(f.group)
      ELSE IF f.what = "free" THEN Of("chip") + Of("fast")
      ELSE Max({Of("chip"), Of("fast")})

Figure(g, w) == [group |-> g, what |-> w]

\* The largest pieces are asked for first.
ReadOrder_LargestFirst ==
  <<Figure("chip", "largest"), Figure("fast", "largest"), Figure("any", "largest"),
    Figure("chip", "free"), Figure("fast", "free"), Figure("any", "free")>>

\* The order of the six calls.
ReadOrder ==
  <<Figure("chip", "free"), Figure("fast", "free"), Figure("any", "free"),
    Figure("chip", "largest"), Figure("fast", "largest"), Figure("any", "largest")>>

-----------------------------------------------------------------------------
\* The command line; only WatchMem has one to refuse.
Start ==
  /\ pc = "idle"
  /\ Goto("read") \/ (tool = "WatchMem" /\ Return(10))
  /\ UNCHANGED <<free, tool, samples, step, info, released, changed>>

\* One AvailMem call of ai_get_exec_info.
ReadFigure ==
  /\ pc = "read" /\ step < 6
  /\ info' = [info EXCEPT ![ReadOrder[step + 1]] = AvailMem(ReadOrder[step + 1])]
  /\ step' = step + 1
  /\ released' = (step > 0 /\ released) /\ changed' = (step > 0 /\ changed)
  /\ pc' = IF step = 5 THEN "print" ELSE "read"
  /\ UNCHANGED <<free, tool, samples, rc>>

\* memory_group of Mem: an unsigned difference.
Fragmented(g) == (info[Figure(g, "free")] - info[Figure(g, "largest")]) % LongModulus

\* Doctor warns of no free memory (ThisTask is never null while a task runs);
\* Snapshot returns 5 for a list that was cut short.
ExitCodes ==
  CASE tool = "Doctor" -> {IF info[Figure("any", "free")] = 0 THEN 5 ELSE 0}
    [] tool = "Snapshot" -> {0, 5}
    [] OTHER -> {0}

\* Printing; WatchMem goes on with its next sample after Delay.
PrintFigures ==
  /\ pc = "print"
  /\ samples' = samples - 1
  /\ step' = 0
  /\ IF samples' > 0 THEN Goto("read") ELSE \E code \in ExitCodes : Return(code)
  /\ UNCHANGED <<free, tool, info, released, changed>>

-----------------------------------------------------------------------------
\* Other tasks (external): a piece of one kind is allocated or freed.
Allocate(k, a, b) ==
  /\ pc # "done" /\ a..b # {} /\ a..b \subseteq free[k]
  /\ free' = [free EXCEPT ![k] = @ \ (a..b)]
  /\ changed' = TRUE
  /\ UNCHANGED <<pc, tool, samples, step, info, rc, released>>

Release(k, a, b) ==
  /\ pc # "done" /\ a..b # {} /\ (a..b) \cap free[k] = {}
  /\ free' = [free EXCEPT ![k] = @ \cup (a..b)]
  /\ changed' = TRUE /\ released' = TRUE
  /\ UNCHANGED <<pc, tool, samples, step, info, rc>>

MemNext ==
  \/ Start \/ ReadFigure \/ PrintFigures
  \/ \E k \in Kinds : \E a, b \in KindCells(k) : Allocate(k, a, b) \/ Release(k, a, b)

MemSpec == MemInit /\ [][MemNext]_memVars

-----------------------------------------------------------------------------
Free(g) == info[Figure(g, "free")]
Largest(g) == info[Figure(g, "largest")]

\* As long as other tasks only allocate, every later figure can only be too
\* small: Largest stays within Free and Fragmented does not wrap.  Figures of a
\* machine at rest fit together: the kinds add up to the total and the largest
\* piece of all is the larger of the two.
FiguresFit ==
  pc = "print" =>
    /\ ~released => \A g \in Groups : Fragmented(g) + Largest(g) = Free(g)
    /\ ~changed =>
         /\ Free("chip") + Free("fast") = Free("any")
         /\ Max({Largest("chip"), Largest("fast")}) = Largest("any")
         /\ \A k \in Kinds : (Free(k) = 0) = (Largest(k) = 0)

\* "`Largest` never exceeds the corresponding `Free` value".
LargestNeverExceedsFree ==
  pc = "print" /\ tool = "Mem" => \A g \in Groups : Largest(g) <= Free(g)
=============================================================================
