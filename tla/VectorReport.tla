---------------------------- MODULE VectorReport ----------------------------
(***************************************************************************)
(* main of the tools that copy a table of fixed size and print the copy:   *)
(* fields of ExecBase (Alerts, Patches, BootInfo), the interrupt vectors   *)
(* (Interrupts), the processor's exception vectors (Vectors) and the       *)
(* resident of exec.library (ROMInfo).  The table is changed by other      *)
(* tasks and by interrupts, which Forbid does not keep away.               *)
(*                                                                         *)
(* A field is zero or set; names and number formats are left out.          *)
(***************************************************************************)
EXTENDS Startup

CONSTANTS TableSize,     \* bound on the number of fields
          MaxUpsets      \* bound on the changes of the table

ASSUME VectorAssumption == TableSize \in Nat \ {0} /\ MaxUpsets \in Nat

VARIABLES table, upsets,   \* the system's table; how often it was changed
          rows,            \* the copy
          disabled,        \* interrupts are disabled
          recorded,        \* Alerts: "Exec alert data present"
          moment           \* history: the table when the copying began

fixed == <<table, upsets, rows, disabled, recorded, moment>>

Fields == {0, 1}
Tables == [1..TableSize -> Fields]

VectorTypeOK ==
  /\ table \in Tables /\ moment \in Tables
  /\ upsets \in 0..MaxUpsets
  /\ rows \in Seq(Fields) /\ Len(rows) <= TableSize
  /\ {disabled, recorded} \subseteq BOOLEAN

VectorInit ==
  /\ table \in Tables
  /\ upsets = 0 /\ rows = <<>> /\ disabled = FALSE /\ recorded = FALSE /\ moment = table

-----------------------------------------------------------------------------
(***************************************************************************)
(* What the tools surround the copying with, and their return code when    *)
(* there is nothing to copy.                                               *)
(***************************************************************************)
Guarded(forbids, disables, missing) ==
  [forbids |-> forbids, disables |-> disables, missing |-> missing]

Alerts == Guarded(TRUE, TRUE, 5)
Patches == Guarded(TRUE, TRUE, 5)
BootInfo == Guarded(TRUE, TRUE, 20)
Interrupts == Guarded(TRUE, TRUE, 5)
\* Disable keeps other tasks away, too.
Vectors == Guarded(FALSE, TRUE, 5)
\* A resident in the ROM does not change.
ROMInfo == Guarded(TRUE, FALSE, 5)

guard ==
  [Alerts |-> Alerts, Patches |-> Patches, BootInfo |-> BootInfo,
   Interrupts |-> Interrupts, Vectors |-> Vectors, ROMInfo |-> ROMInfo][tool]

-----------------------------------------------------------------------------
\* SysBase, or the resident and its match word.
FindTable ==
  /\ pc = "main" /\ tool \in VectorTools
  /\ Goto("stop") \/ Return(guard.missing)
  /\ UNCHANGED <<tool, startup, fixed>>

\* Forbid only.
StopOthers_NoDisable ==
  /\ pc = "stop" /\ Goto("copy")
  /\ forbid' = guard.forbids
  /\ moment' = table
  /\ UNCHANGED <<tool, line, i, argc, out, quoted, argv, argbuf, dos, wbmsg, loaded,
                 table, upsets, rows, disabled, recorded>>

\* Forbid and Disable.
StopOthers ==
  /\ pc = "stop" /\ Goto("copy")
  /\ forbid' = guard.forbids /\ disabled' = guard.disables
  /\ moment' = table
  /\ UNCHANGED <<tool, line, i, argc, out, quoted, argv, argbuf, dos, wbmsg, loaded,
                 table, upsets, rows, recorded>>

CopyField ==
  /\ pc = "copy" /\ Len(rows) < TableSize
  /\ rows' = Append(rows, table[Len(rows) + 1])
  /\ UNCHANGED <<pc, rc, tool, startup, table, upsets, disabled, recorded, moment>>

\* Enable and Permit, before any output.
Restore ==
  /\ pc = "copy" /\ Len(rows) = TableSize /\ Goto("print")
  /\ forbid' = FALSE /\ disabled' = FALSE
  /\ UNCHANGED <<tool, line, i, argc, out, quoted, argv, argbuf, dos, wbmsg, loaded,
                 table, upsets, rows, recorded, moment>>

\* Output; Alerts adds a status.
PrintTable ==
  /\ pc = "print" /\ Return(0)
  /\ recorded' = (tool = "Alerts" /\ \E k \in DOMAIN rows : rows[k] # 0)
  /\ UNCHANGED <<tool, startup, table, upsets, rows, disabled, moment>>

Vector == FindTable \/ StopOthers \/ CopyField \/ Restore \/ PrintTable

\* An interrupt, or another task, sets or clears a field (external).
TableChanges ==
  /\ tool \in VectorTools \ {"ROMInfo"} /\ pc # "done" /\ ~disabled
  /\ upsets < MaxUpsets /\ upsets' = upsets + 1
  /\ \E k \in 1..TableSize : table' = [table EXCEPT ![k] = 1 - @]
  /\ UNCHANGED <<pc, rc, tool, startup, rows, disabled, recorded, moment>>

-----------------------------------------------------------------------------
\* The table that is printed is that of one moment, the one at Disable, however
\* it changes before and after; and "No recorded Exec alert" is said if, and
\* only if, that table was clear.  Nothing is claimed of ROMInfo: it runs under
\* Forbid alone, and its resident is taken to be one that nobody changes.
TableIsOneMoment ==
  pc = "done" /\ tool \in VectorTools \ {"ROMInfo"} /\ rc = 0 =>
    /\ rows = moment
    /\ tool = "Alerts" => (recorded <=> \E k \in 1..TableSize : moment[k] # 0)
=============================================================================
