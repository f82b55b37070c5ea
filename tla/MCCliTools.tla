----------------------------- MODULE MCCliTools -----------------------------
(***************************************************************************)
(* A command from its start to its return code: the startup code with main *)
(* of Which, of one of the volume reports, of a tool that prints a table,  *)
(* or of any other tool.                                                   *)
(***************************************************************************)
EXTENDS Which, VolumeReport, VectorReport

CONSTANT ShortLine      \* bound on the command lines that a tool's main sees

vars == <<pc, rc, tool, startup, search, volume, fixed>>

Tools == {"Which", "any"} \cup VolumeTools \cup Argless

TypeOK ==
  /\ tool \in Tools
  /\ pc \in {"entry", "reply", "leave", "skip", "word", "nul", "main", "return", "done",
            "probe", "examine", "hit", "miss", "walk", "lock", "info", "report",
            "stop", "copy", "print"}
  /\ StartupTypeOK /\ WhichTypeOK /\ VolumeTypeOK /\ VectorTypeOK

Init ==
  /\ tool \in Tools
  /\ StartupInit /\ VolumeInit
  /\ tool # "any" => Len(line) <= ShortLine
  /\ tool \in Argless => line = <<>>
  /\ WhichInit
  /\ tool # "Which" => path.length = 0 /\ entries = {}
  /\ VectorInit
  /\ tool \notin VectorTools => table = [k \in 1..TableSize |-> 0]

\* main of any other tool: usage, or its work.
AnyMain ==
  /\ pc = "main" /\ tool = "any"
  /\ \E code \in {0, 5, 10} : Return(code)
  /\ UNCHANGED <<tool, startup, search, volume, fixed>>

Tool ==
  \/ Startup /\ UNCHANGED <<search, volume, fixed>>
  \/ Which /\ UNCHANGED <<volume, fixed>>
  \/ Volume /\ UNCHANGED <<search, fixed>>
  \/ Vector /\ UNCHANGED <<search, volume>>
  \/ AnyMain

Next ==
  \/ Tool
  \/ Workbench /\ UNCHANGED <<search, volume, fixed>>
  \/ TableChanges /\ UNCHANGED <<search, volume>>

Spec == Init /\ [][Next]_vars /\ WF_vars(Tool)

-----------------------------------------------------------------------------
\* Every ending has released all locks, closed dos.library, put the current
\* directory back and let tasks and interrupts run; a Workbench message that
\* was taken has been replied.
NothingHeldAtExit ==
  pc = "done" => /\ ~dos /\ ~entry /\ ~dup /\ ~lock /\ cwd = Home
                 /\ ~forbid /\ ~disabled /\ wbmsg \in {"none", "replied"}

\* A CLI start returns, and so does a start from Workbench once its message has
\* been sent: a path that runs into itself, or one with components to pass over,
\* does not keep Which, and no wait is left that only Workbench could end.
CommandReturns == wbmsg # "due" ~> pc = "done"
=============================================================================
