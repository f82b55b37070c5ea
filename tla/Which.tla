------------------------------- MODULE Which -------------------------------
(***************************************************************************)
(* main of Which: looks a name up in the current directory, in the         *)
(* directories of the CLI's path and in C:.  The path is a list of locks   *)
(* that belongs to the CLI; nothing protects Which from a list that runs   *)
(* into itself but the components it remembers.                            *)
(*                                                                         *)
(* The list is its length and where its last component leads: to no        *)
(* component (0) or back to one of the list.  The file system is the set   *)
(* of places that have an entry of the name; every Lock, DupLock and       *)
(* Examine may fail all the same.                                          *)
(***************************************************************************)
EXTENDS Startup

CONSTANTS MaxPathEntries,   \* MAX_PATH_ENTRIES
          CandidateLen,     \* CANDIDATE_LEN
          MaxPath           \* bound on the length of the CLI's path

ASSUME WhichAssumption ==
  /\ {MaxPathEntries, CandidateLen} \subseteq Nat \ {0}
  /\ MaxPath \in Nat

VARIABLES path,        \* the CLI's path
          entries,     \* the places that have an entry of the name
          index, component, visited,
          probe,       \* the place that is looked at
          entry, dup,  \* the locks Which holds: of the entry, of the directory
          cwd,
          answer,      \* the place that is printed
          cycle,       \* path_cycle
          failed       \* history: a call failed

search == <<path, entries, index, component, visited, probe, entry, dup, cwd, answer,
            cycle, failed>>

\* Places in the order of the search: the name as it is, the components of the
\* CLI's path, C:.
Named == 0
InC == MaxPath + 1
Places == Named..InC
Nowhere == -1
Home == 0

WhichTypeOK ==
  /\ path \in [length : 0..MaxPath, last : 0..MaxPath, locks : SUBSET (1..MaxPath)]
  /\ entries \subseteq Places
  /\ index \in 0..MaxPathEntries /\ component \in 0..MaxPath
  /\ visited \in [0..(MaxPathEntries - 1) -> 0..MaxPath]
  /\ probe \in Places \cup {Nowhere} /\ answer \in Places \cup {Nowhere}
  /\ {entry, dup, cycle, failed} \subseteq BOOLEAN
  /\ cwd \in Home..MaxPath

WhichInit ==
  /\ path \in [length : 0..MaxPath, last : 0..MaxPath, locks : SUBSET (1..MaxPath)]
  /\ path.last <= path.length /\ path.locks \subseteq 1..path.length
  /\ entries \in SUBSET ({Named, InC} \cup path.locks)
  /\ index = 0 /\ component = 0 /\ visited = [k \in 0..(MaxPathEntries - 1) |-> 0]
  /\ probe = Nowhere /\ entry = FALSE /\ dup = FALSE /\ cwd = Home
  /\ answer = Nowhere /\ cycle = FALSE /\ failed = FALSE

-----------------------------------------------------------------------------
HasPathSyntax(name) == \E k \in DOMAIN name : name[k] = "sep"

\* pc_Next.
NextOf(c) == IF c < path.length THEN c + 1 ELSE path.last

WhichArgs ==
  /\ pc = "main" /\ tool = "Which"
  /\ IF argc # 2 THEN Return(10) /\ UNCHANGED probe
                 ELSE Goto("probe") /\ probe' = Named
  /\ UNCHANGED <<tool, startup, path, entries, index, component, visited, entry, dup,
                 cwd, answer, cycle, failed>>

\* Lock: of the name as it is, of the name in the current directory, of C:name.
LockEntry ==
  /\ pc = "probe"
  /\ \/ /\ probe \in entries /\ entry' = TRUE /\ Goto("examine")
        /\ UNCHANGED failed
     \/ /\ Goto("miss") /\ failed' = (failed \/ probe \in entries)
        /\ UNCHANGED entry
  /\ UNCHANGED <<tool, startup, path, entries, index, component, visited, probe, dup,
                 cwd, answer, cycle>>

\* lock_is_entry, and UnLock.
ExamineEntry ==
  /\ pc = "examine" /\ entry' = FALSE
  /\ \/ Goto("hit") /\ UNCHANGED failed
     \/ Goto("miss") /\ failed' = TRUE
  /\ UNCHANGED <<tool, startup, path, entries, index, component, visited, probe, dup,
                 cwd, answer, cycle>>

\* The copy of the directory's lock stays the current directory of a hit.
LeaveDir_OnMiss == IF pc = "miss" THEN dup' = FALSE /\ cwd' = Home ELSE UNCHANGED <<dup, cwd>>

\* CurrentDir(old) and UnLock(dup).
LeaveDir == dup' = FALSE /\ cwd' = Home

\* The index is incremented before it is printed.
Found_NextIndex ==
  /\ pc = "hit"
  /\ LeaveDir
  /\ answer' = (IF probe \in 1..MaxPath THEN Min({index + 2, MaxPath}) ELSE probe) /\ Return(0)
  /\ UNCHANGED <<tool, startup, path, entries, index, component, visited, probe, entry,
                 cycle, failed>>

\* The place is printed: a component of the path by its index, which is counted
\* from 0.
Found ==
  /\ pc = "hit"
  /\ LeaveDir
  /\ answer' = (IF probe \in 1..MaxPath THEN index + 1 ELSE probe) /\ Return(0)
  /\ UNCHANGED <<tool, startup, path, entries, index, component, visited, probe, entry,
                 cycle, failed>>

\* Where the search goes on: from the name itself, unless it is a path, to
\* the CLI's path; from a component to the next one; from C: to the end.
Missed ==
  /\ pc = "miss"
  /\ LeaveDir
  /\ CASE probe = Named -> /\ IF HasPathSyntax(Arg(1)) THEN Return(5) ELSE Goto("walk")
                           /\ component' = (IF path.length = 0 THEN 0 ELSE 1)
                           /\ UNCHANGED index
       [] probe = InC -> Return(5) /\ UNCHANGED <<component, index>>
       [] OTHER -> Goto("walk") /\ component' = NextOf(component) /\ index' = index + 1
  /\ UNCHANGED <<tool, startup, path, entries, visited, probe, entry, answer, cycle,
                 failed>>

\* path_component_seen.
Seen(c) == \E k \in 0..(index - 1) : visited[k] = c

\* A component without a lock is passed over before the loop advances.
Walk_Continue ==
  /\ pc = "walk" /\ component # 0 /\ index < MaxPathEntries /\ ~Seen(component)
  /\ visited' = [visited EXCEPT ![index] = component]
  /\ probe' = component
  /\ IF component \in path.locks
     THEN dup' = TRUE /\ cwd' = component /\ Goto("probe")
     ELSE UNCHANGED <<pc, rc, dup, cwd>>
  /\ UNCHANGED <<tool, startup, path, entries, index, component, entry, answer, cycle,
                 failed>>

\* CurrentDir(DupLock(c)).
EnterDir(c) == dup' = TRUE /\ cwd' = c

\* One component: one without a lock is passed over; DupLock may fail.
Walk ==
  /\ pc = "walk" /\ component # 0 /\ index < MaxPathEntries /\ ~Seen(component)
  /\ visited' = [visited EXCEPT ![index] = component]
  /\ probe' = component
  /\ \/ /\ component \in path.locks
        /\ EnterDir(component) /\ Goto("probe") /\ UNCHANGED failed
     \/ /\ Goto("miss") /\ failed' = (failed \/ component \in path.locks)
        /\ UNCHANGED <<dup, cwd>>
  /\ UNCHANGED <<tool, startup, path, entries, index, component, entry, answer, cycle>>

\* "C:" and the whole name fit the candidate buffer.
FitsC == Len(Arg(1)) + 2 <= CandidateLen - 1

\* A cycle ends the search.
WalkEnds_NoC ==
  /\ pc = "walk"
  /\ component = 0 \/ index >= MaxPathEntries \/ Seen(component)
  /\ cycle' = (component # 0 /\ index < MaxPathEntries)
  /\ probe' = InC
  /\ Goto(IF cycle' THEN "miss" ELSE "probe")
  /\ UNCHANGED <<tool, startup, path, entries, index, component, visited, entry, dup,
                 cwd, answer, failed>>

\* A path that is too long is taken for a cycle.
WalkEnds_LimitIsCycle ==
  /\ pc = "walk"
  /\ component = 0 \/ index >= MaxPathEntries \/ Seen(component)
  /\ cycle' = (component # 0)
  /\ probe' = InC
  /\ Goto(IF FitsC THEN "probe" ELSE "miss")
  /\ UNCHANGED <<tool, startup, path, entries, index, component, visited, entry, dup,
                 cwd, answer, failed>>

\* The end of the path, its limit, or a cycle: C: is next.
WalkEnds ==
  /\ pc = "walk"
  /\ component = 0 \/ index >= MaxPathEntries \/ Seen(component)
  /\ cycle' = (component # 0 /\ index < MaxPathEntries)
  /\ probe' = InC
  /\ Goto(IF FitsC THEN "probe" ELSE "miss")
  /\ UNCHANGED <<tool, startup, path, entries, index, component, visited, entry, dup,
                 cwd, answer, failed>>

Which ==
  \/ WhichArgs \/ LockEntry \/ ExamineEntry \/ Found \/ Missed \/ Walk \/ WalkEnds

-----------------------------------------------------------------------------
\* "Warning: CLI path traversal limit reached".
Limited == ~cycle /\ index >= MaxPathEntries

WhichDone == pc = "done" /\ tool = "Which" /\ argc = 2

\* The first place of the search that has the name.  An earlier one is passed
\* over only because a call failed or because it lies behind the limit of the
\* walk, which a hit in C: does not mention.
FoundIsFirst ==
  /\ answer \in entries
  /\ failed \/ \A p \in entries : p < answer => p > MaxPathEntries

\* No place of the search has the name: of the path's components none unless
\* the limit is warned of, and C: neither unless the name is too long for the
\* candidate buffer.
NoneHasName ==
  /\ Named \notin entries
  /\ ~HasPathSyntax(Arg(1)) /\ FitsC => InC \notin entries
  /\ ~HasPathSyntax(Arg(1)) /\ ~Limited => entries \subseteq {InC}

\* What Which prints is the first place that has the name; "Not found" without
\* a failed call means that there is none.  The cycle warning that goes with it
\* is given for lists that run into themselves and for no other, unless they
\* are too long to tell.
WhichIsRight ==
  WhichDone =>
    /\ rc = 0 => FoundIsFirst
    /\ rc = 5 /\ ~failed => NoneHasName
    /\ rc = 5 /\ ~HasPathSyntax(Arg(1)) =>
         cycle = (path.last # 0 /\ path.length < MaxPathEntries)
=============================================================================
