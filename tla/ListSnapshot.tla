---------------------------- MODULE ListSnapshot ----------------------------
(***************************************************************************)
(* The tools that copy rows out of a system list under Forbid and print    *)
(* them after Permit: Ports, Libs, Devices, Resources and RexxPorts (Exec  *)
(* lists), Residents (the ROM module table), Assigns, Mounts, Handlers and *)
(* DF (the DOS DevInfo list); and those that look for one entry in such a  *)
(* list: WatchPort, RexxProbe and InputInfo.                               *)
(*                                                                         *)
(* They differ in which entries they want, in their limits (rows kept,     *)
(* entries visited) and in when they warn.  An entry is its kind; the row  *)
(* limits of 64, 96 and 128 and the visit limits of 256 and 1024 are the   *)
(* two constants.                                                          *)
(***************************************************************************)
EXTENDS Integers, SequencesExt

CONSTANTS MaxRows, MaxVisits,
          MaxLength,           \* bound on the length of a list
          MaxChanges,          \* bound on the changes other tasks make
          MaxSamples           \* bound on the samples WatchPort is asked for

ASSUME LimitsAssumption ==
  /\ {MaxRows, MaxVisits, MaxSamples} \subseteq Nat \ {0}
  /\ {MaxLength, MaxChanges} \subseteq Nat

\* "sought" is the entry a finder looks for: the watched port, input.device.
ExecKinds == {"named", "unnamed", "sought"}

\* dvi_Type and whether dvi_Task is set: not for late (and non-binding)
\* assigns, devices that are not running, volumes that are not in a drive.
DosKinds == {"dir", "late", "device", "deviceDown", "volume", "volumeOff"}

ExecTools == {"Ports", "Libs", "Devices", "Resources", "Residents", "RexxPorts",
              "WatchPort", "RexxProbe", "InputInfo"}
DosTools == {"Assigns", "Mounts", "Handlers", "DF"}
Tools == ExecTools \cup DosTools
Finders == {"WatchPort", "RexxProbe", "InputInfo"}

VARIABLES list, changes,   \* the system's list; how often others changed it
          pc, tool,
          visits,          \* entries looked at
          rows, dropped,   \* rows copied; RexxPorts' truncated flag
          found, warned,   \* a finder's result; the warning of this walk
          samples, seen,   \* samples WatchPort has left, and has found it in
          rc,
          lib, locks,      \* dos.library open; locks held
          forbid,          \* between Forbid and Permit
          printed,         \* rows of DF done
          snap             \* history: the list at Forbid

vars == <<list, changes, pc, tool, visits, rows, dropped, found, warned, samples,
          seen, rc, lib, locks, forbid, printed, snap>>

Running == -1
KindsOf(t) == IF t \in DosTools THEN DosKinds ELSE ExecKinds

TypeOK ==
  /\ list \in Seq(KindsOf(tool)) /\ snap \in Seq(KindsOf(tool))
  /\ changes \in 0..MaxChanges
  /\ pc \in {"start", "open", "root", "forbid", "walk", "print", "lock", "info", "done"}
  /\ tool \in Tools
  /\ visits \in 0..Len(snap)
  /\ rows \in Seq(KindsOf(tool)) /\ Len(rows) <= MaxRows
  /\ {dropped, found, warned, lib, forbid} \subseteq BOOLEAN
  /\ samples \in 0..MaxSamples /\ seen \in 0..MaxSamples
  /\ rc \in {Running, 0, 5, 10, 20}
  /\ locks \in 0..1
  /\ printed \in 0..MaxRows

Init ==
  /\ tool \in Tools
  /\ list \in BoundedSeq(KindsOf(tool), MaxLength)
  /\ samples \in IF tool = "WatchPort" THEN 1..MaxSamples ELSE {1}
  /\ changes = 0 /\ pc = "start" /\ seen = 0
  /\ visits = 0 /\ rows = <<>> /\ dropped = FALSE /\ found = FALSE /\ warned = FALSE
  /\ rc = Running /\ lib = FALSE /\ locks = 0 /\ forbid = FALSE
  /\ printed = 0 /\ snap = <<>>

-----------------------------------------------------------------------------
(***************************************************************************)
(* What sets the tools apart: the entries wanted, what ends the loop (the  *)
(* end of the list always does) and when a warning is printed.             *)
(***************************************************************************)
Rule(wanted, ends, warns) == [wanted |-> wanted, ends |-> ends, warns |-> warns]

Ports == Rule(ExecKinds, {"rows"}, "full")
Libs == Rule(ExecKinds, {"rows"}, "full")
Devices == Rule(ExecKinds, {"rows"}, "full")
Resources == Rule(ExecKinds, {"rows"}, "full")
Residents == Rule(ExecKinds, {"rows"}, "full")

\* A full table does not end the loop: a named port is only noted as dropped.
RexxPorts == Rule({"named", "sought"}, {"visits"}, "dropped")

WatchPort == Rule({"sought"}, {"match", "visits"}, "not found")
\* FindPort looks at every port.
RexxProbe == Rule({"sought"}, {"match"}, "not found")
InputInfo == Rule({"sought"}, {"match", "visits"}, "not found")

Assigns == Rule({"dir", "late"}, {"rows", "visits"}, "full or cut")
Mounts == Rule({"device", "deviceDown"}, {"rows", "visits"}, "full or cut")
Handlers == Rule({"dir", "device", "volume"}, {"rows", "visits"}, "left over")
DF == Rule({"volume"}, {"rows", "visits"}, "limits")

rule ==
  [Ports |-> Ports, Libs |-> Libs, Devices |-> Devices, Resources |-> Resources,
   Residents |-> Residents, RexxPorts |-> RexxPorts, WatchPort |-> WatchPort,
   RexxProbe |-> RexxProbe, InputInfo |-> InputInfo, Assigns |-> Assigns,
   Mounts |-> Mounts, Handlers |-> Handlers, DF |-> DF][tool]

\* The row limit is off by one.
RowsFull_OneMore == "rows" \in rule.ends /\ Len(rows) > MaxRows

RowsFull == "rows" \in rule.ends /\ Len(rows) >= MaxRows

AtVisitLimit == "visits" \in rule.ends /\ visits >= MaxVisits

\* Entries remain when the loop ends.
Leftover == visits < Len(list)

\* A loop that the visit limit ended is not told from one that ran to the end.
Warning_RowsOnly ==
  CASE rule.warns = "not found" -> ~found /\ Leftover
    [] rule.warns = "dropped" -> dropped
    [] OTHER -> RowsFull

\* RexxPorts warns, and fails, as soon as its table is full.
Warning_WhenFull == Len(rows) >= MaxRows \/ Leftover

\* The warning, and WatchPort's UNKNOWN.
Warning ==
  CASE rule.warns = "full" -> RowsFull
    [] rule.warns = "full or cut" -> RowsFull \/ (Leftover /\ AtVisitLimit)
    [] rule.warns = "left over" -> Leftover
    [] rule.warns = "limits" -> RowsFull \/ AtVisitLimit
    [] rule.warns = "dropped" -> dropped \/ Leftover
    [] rule.warns = "not found" -> ~found /\ Leftover

ExitCode ==
  CASE tool = "WatchPort" -> IF seen' > 0 THEN 0 ELSE 5
    [] tool \in {"RexxProbe", "InputInfo"} -> IF found THEN 0 ELSE 5
    [] tool = "RexxPorts" -> IF warned THEN 5 ELSE 0
    [] OTHER -> 0

-----------------------------------------------------------------------------
\* No Forbid around the loop.
Forbidden_Never == FALSE

\* Other tasks are kept off the list.
Forbidden == forbid

\* The arguments, if the tool takes any, or usage.
ParseArgs ==
  /\ pc = "start"
  /\ \/ pc' = (IF tool \in DosTools THEN "open" ELSE "forbid") /\ UNCHANGED rc
     \/ tool \in {"WatchPort", "RexxProbe"} /\ pc' = "done" /\ rc' = 10
  /\ UNCHANGED <<list, changes, tool, visits, rows, dropped, found, warned, samples,
                 seen, lib, locks, forbid, printed, snap>>

\* OpenLibrary may fail.
OpenDos ==
  /\ pc = "open"
  /\ \/ lib' = TRUE /\ pc' = "root" /\ UNCHANGED rc
     \/ UNCHANGED lib /\ pc' = "done" /\ rc' = 20
  /\ UNCHANGED <<list, changes, tool, visits, rows, dropped, found, warned, samples,
                 seen, locks, forbid, printed, snap>>

\* Without a root node dos.library stays open.
CheckRoot_KeepLibrary ==
  /\ pc = "root"
  /\ \/ pc' = "forbid" /\ UNCHANGED rc
     \/ pc' = "done" /\ rc' = 20
  /\ UNCHANGED <<list, changes, tool, visits, rows, dropped, found, warned, samples,
                 seen, lib, locks, forbid, printed, snap>>

\* A missing root closes the library again.
CheckRoot ==
  /\ pc = "root"
  /\ \/ pc' = "forbid" /\ UNCHANGED <<rc, lib>>
     \/ pc' = "done" /\ rc' = 20 /\ lib' = FALSE
  /\ UNCHANGED <<list, changes, tool, visits, rows, dropped, found, warned, samples,
                 seen, locks, forbid, printed, snap>>

\* Forbid, and the head of the list; Residents reads its table without Forbid.
Begin ==
  /\ pc = "forbid" /\ pc' = "walk"
  /\ forbid' = (tool # "Residents") /\ snap' = list /\ visits' = 0
  /\ UNCHANGED <<list, changes, tool, rows, dropped, found, warned, samples, seen,
                 rc, lib, locks, printed>>

\* One entry.  RexxPorts notes a named port that no longer fits; a finder
\* stops at its match.
Visit ==
  /\ pc = "walk" /\ Leftover /\ ~found /\ ~RowsFull /\ ~AtVisitLimit
  /\ LET entry == list[visits + 1]
         fits == Len(rows) < MaxRows \/ tool # "RexxPorts"
     IN  /\ found' = (tool \in Finders /\ entry \in rule.wanted)
         /\ rows' = IF tool \notin Finders /\ entry \in rule.wanted /\ fits
                    THEN Append(rows, entry) ELSE rows
         /\ dropped' = (dropped \/ (entry \in rule.wanted /\ ~fits))
  /\ visits' = visits + 1
  /\ UNCHANGED <<list, changes, pc, tool, warned, samples, seen, rc, lib,
                 locks, forbid, printed, snap>>

\* A walk that was cut short leaves without CloseLibrary.
Finish_KeepLibrary ==
  /\ pc = "walk" /\ (~Leftover \/ found \/ RowsFull \/ AtVisitLimit)
  /\ warned' = Warning
  /\ forbid' = FALSE /\ lib' = (lib /\ Leftover)
  /\ pc' = IF tool = "DF" THEN "lock" ELSE "print"
  /\ UNCHANGED <<list, changes, tool, visits, rows, dropped, found, samples,
                 seen, rc, locks, printed, snap>>

\* A finder returns from its loop without Permit.
Finish_MatchForbids ==
  /\ pc = "walk" /\ (~Leftover \/ found \/ RowsFull \/ AtVisitLimit)
  /\ warned' = Warning
  /\ forbid' = found /\ lib' = FALSE
  /\ pc' = IF tool = "DF" THEN "lock" ELSE "print"
  /\ UNCHANGED <<list, changes, tool, visits, rows, dropped, found, samples,
                 seen, rc, locks, printed, snap>>

\* The loop ends; Permit; CloseLibrary.
Finish ==
  /\ pc = "walk" /\ (~Leftover \/ found \/ RowsFull \/ AtVisitLimit)
  /\ warned' = Warning
  /\ forbid' = FALSE /\ lib' = FALSE
  /\ pc' = IF tool = "DF" THEN "lock" ELSE "print"
  /\ UNCHANGED <<list, changes, tool, visits, rows, dropped, found, samples,
                 seen, rc, locks, printed, snap>>

\* DF asks every volume it listed, after Permit: Lock may wait, or fail.
LockVolume ==
  /\ pc = "lock"
  /\ IF printed = Len(rows)
     THEN pc' = "print" /\ UNCHANGED <<locks, printed>>
     ELSE \/ pc' = "info" /\ locks' = locks + 1 /\ UNCHANGED printed
          \/ pc' = "lock" /\ printed' = printed + 1 /\ UNCHANGED locks
  /\ UNCHANGED <<list, changes, tool, visits, rows, dropped, found, warned, samples,
                 seen, rc, lib, forbid, snap>>

\* Info, with or without an answer, and UnLock.
InfoVolume ==
  /\ pc = "info" /\ pc' = "lock"
  /\ locks' = locks - 1 /\ printed' = printed + 1
  /\ UNCHANGED <<list, changes, tool, visits, rows, dropped, found, warned, samples,
                 seen, rc, lib, forbid, snap>>

\* Output and return; WatchPort goes on with its next sample after Delay.
PrintRows ==
  /\ pc = "print"
  /\ seen' = IF found THEN seen + 1 ELSE seen
  /\ samples' = samples - 1
  /\ IF samples' > 0 THEN pc' = "forbid" /\ found' = FALSE /\ UNCHANGED rc
                     ELSE pc' = "done" /\ rc' = ExitCode /\ UNCHANGED found
  /\ UNCHANGED <<list, changes, tool, visits, rows, dropped, warned, lib, locks,
                 forbid, printed, snap>>

\* Other tasks add an entry at the head or remove one (external).  The
\* resident table is never changed after the boot.
ListChanges ==
  /\ pc # "done" /\ ~Forbidden /\ tool # "Residents" /\ changes < MaxChanges
  /\ changes' = changes + 1
  /\ \/ \E k \in KindsOf(tool) : list' = <<k>> \o list
     \/ \E i \in DOMAIN list : list' = RemoveAt(list, i)
  /\ UNCHANGED <<pc, tool, visits, rows, dropped, found, warned, samples, seen,
                 rc, lib, locks, forbid, printed, snap>>

Next ==
  \/ ParseArgs \/ OpenDos \/ CheckRoot \/ Begin \/ Visit \/ Finish
  \/ LockVolume \/ InfoVolume \/ PrintRows \/ ListChanges

Spec == Init /\ [][Next]_vars

-----------------------------------------------------------------------------
(***************************************************************************)
(* Properties.                                                             *)
(***************************************************************************)
\* The wanted entries among the first n of a list, in their order.
Picked(s, W) ==
  LET f[n \in 0..Len(s)] ==
        IF n = 0 THEN <<>>
        ELSE IF s[n] \in W THEN Append(f[n - 1], s[n]) ELSE f[n - 1]
  IN  f

All == Picked(snap, rule.wanted)[Len(snap)]
Walked == pc \in {"lock", "info", "print", "done"} /\ rc \notin {10, 20}

\* What is printed is one moment of the system: the first wanted entries of
\* the list as it was at Forbid, whatever other tasks do afterwards, and not
\* more of them than the row table has room for.
RowsAreOneMoment ==
  Walked /\ tool \notin Finders => IsPrefix(rows, All) /\ Len(rows) <= MaxRows

\* Nothing is lost in silence: a wanted entry that is not among the rows, and
\* an entry a finder did not reach, is accounted for by a warning (UNKNOWN).
\* RexxPorts returns 5 only for entries it did not look at or could not keep.
NoSilentLoss ==
  Walked =>
    /\ warned \/ (IF tool \in Finders THEN found = (All # <<>>) ELSE rows = All)
    /\ pc = "done" /\ tool = "RexxPorts" /\ rc = 5 =>
         Len(All) > MaxRows \/ Len(snap) > MaxVisits

\* Every ending, that of a tool whose root node is missing too, has closed
\* dos.library, released every volume lock and let tasks run again.
NothingHeldAtExit == pc = "done" => ~lib /\ locks = 0 /\ ~forbid
=============================================================================
