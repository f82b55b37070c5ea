------------------------------ MODULE TaskLists ------------------------------
(***************************************************************************)
(* WatchTask, TaskInfo, Tasks, Snapshot and ExecInfo walk Exec's TaskReady *)
(* and TaskWait lists under Forbid.  Forbid stops other tasks, so no task  *)
(* comes, goes or blocks during a walk.  It does not stop interrupts: an   *)
(* interrupt may Signal a waiting task, which moves its node from TaskWait *)
(* to TaskReady under the walker's feet.  A walker that stands on that     *)
(* node follows its new ln_Succ, into the other list.                      *)
(*                                                                         *)
(* A list is the sequence of its task nodes; both list tails look alike to *)
(* a walker (ln_Succ = 0), so End stands for either.  Tasks are named by   *)
(* themselves, and ThisTask is the tool.  Snapshot and ExecInfo go on to   *)
(* LibList, DeviceList and the like, which no interrupt touches: one list  *)
(* stands for them.                                                        *)
(***************************************************************************)
EXTENDS Integers, SequencesExt

CONSTANTS Tasks, Self,        \* the other tasks, and the tool's own task
          Priority,           \* ln_Pri of each other task
          MaxVisits,          \* MAX_TASK_VISITS, MAX_LIST_NODES, LIST_LIMIT
          MaxRows,            \* MAX_TASKS of Tasks
          MaxSamples          \* bound on the samples WatchTask is asked for

Running == -1
End == "end of a list"
Start == "list header"

ASSUME TaskAssumption ==
  /\ IsFiniteSet(Tasks) /\ {Self, End, Start} \cap Tasks = {}
  /\ Priority \in [Tasks -> Int]
  /\ {MaxVisits, MaxRows, MaxSamples} \subseteq Nat \ {0}

VARIABLES ready, wait,        \* TaskReady and TaskWait
          libraries,          \* the length of a list no interrupt touches
          pc, tool, target,   \* the tool's step, which tool, the name it wants
          cursor, visits,     \* the last node visited in this list, how many
          found, truncated,
          rows,               \* rows of Tasks
          count,              \* counts of Snapshot and ExecInfo
          samples, seen, rc,  \* samples left, samples that saw it, return code
          warned,             \* a limit that was reached has been reported
          woken               \* history: tasks signalled during this walk

lists == <<ready, wait, libraries>>
walk == <<cursor, visits, found, truncated, rows, count>>
vars == <<lists, pc, tool, target, walk, samples, seen, rc, warned, woken>>

Finders == {"WatchTask", "TaskInfo"}
Counters == {"Snapshot", "ExecInfo"}
Tools == Finders \cup Counters \cup {"Tasks"}
Counted == {"ready", "wait", "libraries"}
Row == [task : Tasks \cup {Self}, state : {"RUN", "READY", "WAIT"}]
Live == ToSet(ready) \cup ToSet(wait)

TypeOK ==
  /\ ready \in Seq(Tasks) /\ wait \in Seq(Tasks)
  /\ IsInjective(ready) /\ IsInjective(wait) /\ ToSet(ready) \cap ToSet(wait) = {}
  /\ libraries \in 0..(MaxVisits + 1)
  /\ pc \in {"idle", "sample", "ready", "wait", "libraries", "permit", "done"}
  /\ tool \in Tools /\ target \in Tasks \cup {Self}
  /\ cursor \in Tasks \cup {Start}
  /\ visits \in 0..MaxVisits
  /\ found \in BOOLEAN /\ truncated \in BOOLEAN
  /\ rows \in Seq(Row)
  /\ Len(rows) <= MaxRows
  /\ count \in [Counted -> 0..MaxVisits]
  /\ samples \in 0..MaxSamples /\ seen \in 0..MaxSamples
  /\ rc \in {Running, 0, 5, 10} /\ warned \in BOOLEAN
  /\ woken \subseteq Tasks

\* Exec's Enqueue: before the first task of a lower priority.
Enqueue(s, t) ==
  LET lower == {i \in DOMAIN s : Priority[s[i]] < Priority[t]}
  IN  InsertAt(s, IF lower = {} THEN Len(s) + 1 ELSE Min(lower), t)

Sorted(s) == \A i, j \in DOMAIN s : i < j => Priority[s[i]] >= Priority[s[j]]

Init ==
  /\ \E S \in SUBSET Tasks, W \in SUBSET Tasks :
       /\ W \subseteq S
       /\ ready \in {s \in SetToSeqs(S \ W) : Sorted(s)}
       /\ wait \in SetToSeqs(W)
  /\ pc = "idle" /\ tool \in Tools /\ target \in Tasks \cup {Self}
  /\ cursor = Start /\ visits = 0 /\ found = FALSE /\ truncated = FALSE
  /\ rows = <<>> /\ count = [l \in Counted |-> 0]
  /\ samples \in IF tool = "WatchTask" THEN 1..MaxSamples ELSE {1}
  /\ libraries \in IF tool \in Counters THEN 0..(MaxVisits + 1) ELSE {0}
  /\ seen = 0 /\ rc = Running /\ warned = FALSE /\ woken = {}

-----------------------------------------------------------------------------
(***************************************************************************)
(* The walk.                                                               *)
(***************************************************************************)
\* No Forbid at all.
Forbidden_Never == FALSE

\* Between Forbid and Permit.
Forbidden == pc \in {"ready", "wait", "libraries", "permit"}

ListHere == IF pc = "ready" THEN ready ELSE wait

\* ln_Succ of a node, in whichever list the node is now.
Succ(t) ==
  LET l == IF Contains(ready, t) THEN ready ELSE wait
      i == SelectInSeq(l, LAMBDA u : u = t)
  IN  IF i = Len(l) THEN End ELSE l[i + 1]

NextNode == IF cursor # Start THEN Succ(cursor)
            ELSE IF ListHere = <<>> THEN End ELSE ListHere[1]

\* Tasks has no visit limit; the others stop after MaxVisits nodes.
AtLimit == tool # "Tasks" /\ visits = MaxVisits

\* Forbid, and ThisTask first.
BeginWalk ==
  /\ pc = "sample"
  /\ woken' = {}
  /\ found' = (tool \in Finders /\ target = Self)
  /\ rows' = IF tool = "Tasks" THEN <<[task |-> Self, state |-> "RUN"]>> ELSE <<>>
  /\ pc' = IF found' \/ Len(rows') >= MaxRows THEN "permit" ELSE "ready"
  /\ cursor' = Start /\ visits' = 0 /\ truncated' = FALSE
  /\ UNCHANGED <<lists, tool, target, count, samples, seen, rc, warned>>

\* One node: its name is compared, or a row is copied, or it is counted.  The
\* walk stops at a match, and when the row table is full.
VisitNode(matches, rowLimit) ==
  /\ pc \in {"ready", "wait"} /\ NextNode # End /\ ~AtLimit
  /\ cursor' = NextNode
  /\ visits' = IF tool = "Tasks" THEN 0 ELSE visits + 1
  /\ found' = (tool \in Finders /\ matches)
  /\ rows' = IF tool = "Tasks"
             THEN Append(rows, [task |-> NextNode,
                                state |-> IF pc = "ready" THEN "READY" ELSE "WAIT"])
             ELSE rows
  /\ pc' = IF found' \/ Len(rows') >= rowLimit THEN "permit" ELSE pc
  /\ UNCHANGED <<lists, tool, target, truncated, count, samples, seen, rc, warned, woken>>

\* The row limit is tested with > instead of >=.
Visit_OneRowMore == VisitNode(NextNode = target, MaxRows + 1)

\* same_name compares only the first characters: every task matches.
Visit_AnyName == VisitNode(TRUE, MaxRows)

Visit == VisitNode(NextNode = target, MaxRows)

\* The loop ended; leftover tells whether the flag is set.
LoopEnd(leftover) ==
  /\ pc \in {"ready", "wait"} /\ (NextNode = End \/ AtLimit)
  /\ truncated' = (truncated \/ leftover)
  /\ count' = [count EXCEPT ![pc] = visits]
  /\ cursor' = Start /\ visits' = 0
  /\ pc' = CASE pc = "ready" -> "wait"
             [] pc = "wait" /\ tool \in Counters -> "libraries"
             [] OTHER -> "permit"
  /\ UNCHANGED <<lists, tool, target, found, rows, samples, seen, rc, warned, woken>>

\* The test for a left-over node is missing.
EndList_NoFlag == LoopEnd(FALSE)

\* Reaching the limit counts as truncation, even with no node left.
EndList_AtLimit == LoopEnd(AtLimit)

EndList == LoopEnd(NextNode # End)

\* count_list on a list that cannot change before Permit.
CountLibraries ==
  /\ pc = "libraries" /\ pc' = "permit"
  /\ count' = [count EXCEPT !["libraries"] = Min({libraries, MaxVisits})]
  /\ truncated' = (truncated \/ libraries > MaxVisits)
  /\ UNCHANGED <<lists, tool, target, cursor, visits, found, rows, samples, seen, rc,
                 warned, woken>>

-----------------------------------------------------------------------------
\* Tasks does not warn when its table is only full.
Warning_BeyondFull == IF tool = "Tasks" THEN Len(rows) > MaxRows ELSE ~found /\ truncated

\* The warning of a report: Tasks gives it for every full table, the others for
\* a list that was cut short and in which nothing was found.
Warning == IF tool = "Tasks" THEN Len(rows) >= MaxRows ELSE ~found /\ truncated

\* Permit, and the report of one sample.
Sampled == /\ seen' = IF found THEN seen + 1 ELSE seen
           /\ samples' = samples - 1
           /\ warned' = (warned \/ Warning)

ReturnCode ==
  CASE tool = "WatchTask" -> IF seen' > 0 THEN 0 ELSE 5
    [] tool = "TaskInfo" -> IF found THEN 0 ELSE 5
    [] tool = "Snapshot" -> IF truncated THEN 5 ELSE 0
    [] OTHER -> 0

\* A found task is reported without Permit.
Report_StuckWhenFound ==
  /\ pc = "permit" /\ ~found
  /\ Sampled
  /\ IF samples' > 0 THEN pc' = "sample" /\ UNCHANGED rc
                     ELSE pc' = "done" /\ rc' = ReturnCode
  /\ UNCHANGED <<lists, tool, target, walk, woken>>

Report ==
  /\ pc = "permit"
  /\ Sampled
  /\ IF samples' > 0 THEN pc' = "sample" /\ UNCHANGED rc
                     ELSE pc' = "done" /\ rc' = ReturnCode
  /\ UNCHANGED <<lists, tool, target, walk, woken>>

\* The command line: a finder refuses a bad one.
StartTool ==
  /\ pc = "idle"
  /\ \/ pc' = "sample" /\ UNCHANGED rc
     \/ tool \in Finders /\ pc' = "done" /\ rc' = 10
  /\ UNCHANGED <<lists, tool, target, walk, samples, seen, warned, woken>>

-----------------------------------------------------------------------------
(***************************************************************************)
(* The rest of the system (external).                                      *)
(***************************************************************************)
Wake(t) ==
  /\ Contains(wait, t)
  /\ wait' = RemoveFirst(wait, t) /\ ready' = Enqueue(ready, t)
  /\ woken' = IF Forbidden THEN woken \cup {t} ELSE woken
  /\ UNCHANGED <<libraries, pc, tool, target, walk, samples, seen, rc, warned>>

OthersRun ==
  /\ ~Forbidden
  /\ UNCHANGED <<libraries, pc, tool, target, walk, samples, seen, rc, warned, woken>>

Block(t) ==
  /\ OthersRun
  /\ Contains(ready, t)
  /\ ready' = RemoveFirst(ready, t) /\ wait' = Append(wait, t)

AddTask(t) ==
  /\ OthersRun
  /\ t \notin Live
  /\ ready' = Enqueue(ready, t) /\ UNCHANGED wait

RemTask(t) ==
  /\ OthersRun
  /\ t \in Live
  /\ ready' = RemoveFirst(ready, t) /\ wait' = RemoveFirst(wait, t)

-----------------------------------------------------------------------------
Tool == StartTool \/ BeginWalk \/ Visit \/ EndList \/ CountLibraries \/ Report

System == \E t \in Tasks : Wake(t) \/ Block(t) \/ AddTask(t) \/ RemTask(t)

Next == Tool \/ System

\* A walker under Forbid is running; a ready tool is scheduled.
Spec == Init /\ [][Next]_vars /\ WF_vars(Tool)

-----------------------------------------------------------------------------
(***************************************************************************)
(* Properties.                                                             *)
(***************************************************************************)
\* The node a walker stands on is a task that still exists: Forbid suffices
\* for that.
WalksLiveNodes == pc \in {"ready", "wait"} /\ cursor # Start => cursor \in Live

\* PRESENT, and the fields TaskInfo copies, are those of a task that exists.  A
\* walk that no interrupt disturbed reports ABSENT or "Task not found" only for
\* a task that does not exist; a limit that was hit is reported as such.
FindersSound ==
  pc = "permit" /\ tool \in Finders =>
    /\ found => target \in Live \cup {Self}
    /\ ~found /\ ~truncated /\ woken = {} => target \notin Live \cup {Self}

Rows(s, state) == [i \in DOMAIN s |-> [task |-> s[i], state |-> state]]

AllRows ==
  <<[task |-> Self, state |-> "RUN"]>> \o Rows(ready, "READY") \o Rows(wait, "WAIT")

\* Tasks lists the running task, then every ready and waiting task once, in
\* order; it stops only at its row limit.
RowsExact == rows = SubSeq(AllRows, 1, Min({Len(AllRows), MaxRows}))

\* Snapshot and ExecInfo count every list exactly, and flag a truncation
\* exactly if some list is longer than the limit.
CountsExact ==
  /\ count["ready"] = Min({Len(ready), MaxVisits})
  /\ count["wait"] = Min({Len(wait), MaxVisits})
  /\ count["libraries"] = Min({libraries, MaxVisits})
  /\ truncated = (Max({Len(ready), Len(wait), libraries}) > MaxVisits)

\* A walk over the whole of the lists that no interrupt disturbed reports them
\* exactly, up to its limits and not one entry beyond them.  A table that Tasks
\* printed without its warning is complete.
ReportsExact ==
  /\ pc = "permit" /\ woken = {} =>
       /\ tool = "Tasks" => RowsExact /\ (Warning \/ rows = AllRows)
       /\ tool \in Counters => CountsExact
  /\ pc = "done" /\ tool = "Tasks" /\ ~warned => Len(rows) < MaxRows

\* No walk goes on forever, wherever interrupts send it: Permit follows.
WalkEnds == Forbidden ~> ~Forbidden
=============================================================================
