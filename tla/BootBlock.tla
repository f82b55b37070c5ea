------------------------------ MODULE BootBlock ------------------------------
(***************************************************************************)
(* BootSave and BootRestore: runs of the two tools, possibly at the same   *)
(* time from several CLIs, on shared floppy drives and shared files.       *)
(*                                                                         *)
(* A boot block (1024 raw bytes) is an element of Blocks.  The drive is    *)
(* external: trackdisk.device keeps one track in a buffer, CMD_WRITE only  *)
(* changes that buffer, CMD_UPDATE records it on the medium and may leave  *)
(* it valid or not, and a medium may take a record badly without the       *)
(* device noticing.  DoIO is synchronous and the device serves one request *)
(* at a time, so one DoIO is one step.  AmigaDOS files are external too:   *)
(* MODE_NEWFILE opens a file exclusively, MODE_OLDFILE shares it.          *)
(***************************************************************************)
EXTENDS Integers, FiniteSets

CONSTANTS Procs,         \* the CLI processes that run the tools
          NoProc,        \* not a process
          Units,         \* floppy units parse_unit accepts (DF0: .. DF3:)
          NoUnit,        \* what a command line that does not parse names
          Files,         \* file names
          Blocks,        \* contents of a boot block
          NoBlock,       \* "no data"
          MaxRuns        \* bound: how many runs a behaviour has

ASSUME ConstantsAssumption ==
  /\ NoProc \notin Procs /\ NoUnit \notin Units /\ NoBlock \notin Blocks
  /\ MaxRuns \in Nat

VARIABLES medium,    \* what is recorded on the disk in each unit
          track,     \* the device's buffered copy of track 0, or NoBlock
          writer,    \* whose CMD_WRITE the buffer holds and the medium lacks
          file,      \* length class and data of each file
          pc, job,   \* the step each process is at, and its command line
          block,     \* the static bootblock[] of each process
          held,      \* what it owns: signal bit, open device, file handle
          rc,        \* its return code, Running before it returns
          accepted,  \* history: blocks read from whole files, per target unit
          taken,     \* history: the disk took the unit's last record as it was
          runs

device == <<medium, track, writer, taken>>
vars == <<medium, track, writer, taken, file, pc, job, block, held, rc, accepted, runs>>

Running == -1
Lengths == {"absent", "short", "exact", "long"}

Jobs == [tool : {"BootSave", "BootRestore"}, unit : Units \cup {NoUnit},
         file : Files, yes : BOOLEAN]

Labels == {"idle", "saveSetup", "saveDevice", "saveRead", "saveOpen", "saveWrite",
           "saveClose", "delete", "restoreOpen", "load", "restoreSetup",
           "restoreDevice", "write", "update", "verify"}

TypeOK ==
  /\ medium \in [Units -> Blocks]
  /\ track \in [Units -> Blocks \cup {NoBlock}]
  /\ writer \in [Units -> Procs \cup {NoProc}]
  /\ file \in [Files -> [len : Lengths, data : Blocks \cup {NoBlock}]]
  /\ pc \in [Procs -> Labels]
  /\ job \in [Procs -> Jobs]
  /\ block \in [Procs -> Blocks \cup {NoBlock}]
  /\ held \in [Procs -> SUBSET {"sig", "dev", "fh"}]
  /\ rc \in [Procs -> {Running, 0, 5, 10}]
  /\ accepted \in [Units -> SUBSET Blocks]
  /\ taken \in [Units -> BOOLEAN]
  /\ runs \in 0..MaxRuns

\* Drives hold some disk; files hold whatever the user left there.
Init ==
  /\ medium \in [Units -> Blocks]
  /\ track = [u \in Units |-> NoBlock]
  /\ writer = [u \in Units |-> NoProc]
  /\ file \in [Files -> [len : Lengths, data : Blocks]]
  /\ pc = [p \in Procs |-> "idle"]
  /\ \E j \in Jobs : job = [p \in Procs |-> j]
  /\ block = [p \in Procs |-> NoBlock]
  /\ held = [p \in Procs |-> {}]
  /\ rc = [p \in Procs |-> Running]
  /\ accepted = [u \in Units |-> {}]
  /\ taken = [u \in Units |-> TRUE]
  /\ runs = 0

-----------------------------------------------------------------------------
Unit(p) == job[p].unit
File(p) == job[p].file

Goto(p, l) == pc' = [pc EXCEPT ![p] = l] /\ UNCHANGED rc
Return(p, code) == pc' = [pc EXCEPT ![p] = "idle"] /\ rc' = [rc EXCEPT ![p] = code]
Take(p, r) == held' = [held EXCEPT ![p] = @ \cup {r}]
Drop(p, r) == held' = [held EXCEPT ![p] = @ \ r]
Keep == UNCHANGED held

\* teardown_io: CloseDevice and FreeSignal.
Teardown(p) == Drop(p, {"sig", "dev"})

\* AmigaDOS locks, as the open handles imply them.
Writing(f) == \E p \in Procs : pc[p] \in {"saveWrite", "saveClose"} /\ File(p) = f
InUse(f) == Writing(f) \/ \E p \in Procs : pc[p] = "load" /\ File(p) = f

-----------------------------------------------------------------------------
(***************************************************************************)
(* trackdisk.device (external).                                            *)
(***************************************************************************)
\* What CMD_READ of the boot block returns.
ReadResult(u) == IF track[u] = NoBlock THEN medium[u] ELSE track[u]

DeviceRead(u) ==
  /\ track' = [track EXCEPT ![u] = ReadResult(u)]
  /\ UNCHANGED <<medium, writer, taken>>

DeviceWrite(p, u, b) ==
  /\ track' = [track EXCEPT ![u] = b]
  /\ writer' = [writer EXCEPT ![u] = p]
  /\ UNCHANGED <<medium, taken>>

\* A pending buffer is recorded; the disk may come out of it with any data.
Record(u) ==
  /\ writer' = [writer EXCEPT ![u] = NoProc]
  /\ IF writer[u] = NoProc
     THEN UNCHANGED <<medium, taken>>
     ELSE \E b \in Blocks : /\ medium' = [medium EXCEPT ![u] = b]
                            /\ taken' = [taken EXCEPT ![u] = (b = track[u])]

\* The buffer may stay valid: only CMD_CLEAR, which nobody issues, ends that.
DeviceUpdate(u) ==
  /\ Record(u)
  /\ \E t \in {track[u], NoBlock} : track' = [track EXCEPT ![u] = t]

\* The file system needs the buffer for another track of the disk.
ReuseTrack(u) ==
  /\ track[u] # NoBlock
  /\ Record(u)
  /\ track' = [track EXCEPT ![u] = NoBlock]
  /\ UNCHANGED <<file, pc, job, block, held, rc, accepted, runs>>

\* The user puts another disk into the drive; a pending buffer is lost.
ChangeDisk(u) ==
  /\ \E b \in Blocks : medium' = [medium EXCEPT ![u] = b]
  /\ track' = [track EXCEPT ![u] = NoBlock]
  /\ writer' = [writer EXCEPT ![u] = NoProc]
  /\ taken' = [taken EXCEPT ![u] = TRUE]
  /\ UNCHANGED <<file, pc, job, block, held, rc, accepted, runs>>

-----------------------------------------------------------------------------
(***************************************************************************)
(* Both tools: the command line and setup_io.                              *)
(***************************************************************************)
ParseUnit(j) == j.unit # NoUnit
SaveArgsOK(j) == ParseUnit(j)
RestoreArgsOK(j) == ParseUnit(j) /\ j.yes

Invoke(p, j) ==
  /\ pc[p] = "idle" /\ runs < MaxRuns
  /\ runs' = runs + 1
  /\ job' = [job EXCEPT ![p] = j]
  /\ block' = [block EXCEPT ![p] = NoBlock]
  /\ pc' = [pc EXCEPT ![p] =
              CASE j.tool = "BootSave" /\ SaveArgsOK(j) -> "saveSetup"
                [] j.tool = "BootRestore" /\ RestoreArgsOK(j) -> "restoreOpen"
                [] OTHER -> "idle"]
  /\ rc' = [rc EXCEPT ![p] = IF pc'[p] = "idle" THEN 10 ELSE Running]
  /\ UNCHANGED <<device, file, held, accepted>>

\* setup_io: AllocSignal.
AllocSignal(p, from, to) ==
  /\ pc[p] = from
  /\ \/ Take(p, "sig") /\ Goto(p, to)
     \/ Keep /\ Return(p, 5)
  /\ UNCHANGED <<device, file, job, block, accepted, runs>>

\* The error of OpenDevice is returned as it is.
OpenDevice_RawError(p, from, to) ==
  /\ pc[p] = from
  /\ \/ Take(p, "dev") /\ Goto(p, to)
     \/ Drop(p, {"sig"}) /\ Return(p, 32)
  /\ UNCHANGED <<device, file, job, block, accepted, runs>>

\* The failure path has no FreeSignal.
OpenDevice_KeepSignal(p, from, to) ==
  /\ pc[p] = from
  /\ \/ Take(p, "dev") /\ Goto(p, to)
     \/ Keep /\ Return(p, 5)
  /\ UNCHANGED <<device, file, job, block, accepted, runs>>

\* setup_io: OpenDevice, and FreeSignal when it fails.
OpenDevice(p, from, to) ==
  /\ pc[p] = from
  /\ \/ Take(p, "dev") /\ Goto(p, to)
     \/ Drop(p, {"sig"}) /\ Return(p, 5)
  /\ UNCHANGED <<device, file, job, block, accepted, runs>>

-----------------------------------------------------------------------------
(***************************************************************************)
(* BootSave.                                                               *)
(***************************************************************************)
SaveSetup(p) ==
  AllocSignal(p, "saveSetup", "saveDevice") \/ OpenDevice(p, "saveDevice", "saveRead")

\* A read error leaves without teardown_io.
SaveRead_NoTeardown(p) ==
  /\ pc[p] = "saveRead"
  /\ \/ /\ DeviceRead(Unit(p))
        /\ block' = [block EXCEPT ![p] = ReadResult(Unit(p))]
        /\ Teardown(p)
        /\ Goto(p, "saveOpen")
     \/ UNCHANGED <<device, block, held>> /\ Return(p, 5)
  /\ UNCHANGED <<file, job, accepted, runs>>

SaveRead(p) ==
  /\ pc[p] = "saveRead"
  /\ Teardown(p)
  /\ \/ /\ DeviceRead(Unit(p))
        /\ block' = [block EXCEPT ![p] = ReadResult(Unit(p))]
        /\ Goto(p, "saveOpen")
     \/ UNCHANGED <<device, block>> /\ Return(p, 5)
  /\ UNCHANGED <<file, job, accepted, runs>>

\* MODE_NEWFILE truncates the file at once.
SaveOpen(p) ==
  /\ pc[p] = "saveOpen"
  /\ \/ /\ ~InUse(File(p))
        /\ file' = [file EXCEPT ![File(p)] = [len |-> "short", data |-> NoBlock]]
        /\ Take(p, "fh") /\ Goto(p, "saveWrite")
     \/ UNCHANGED <<file, held>> /\ Return(p, 5)
  /\ UNCHANGED <<device, job, block, accepted, runs>>

\* Write stores all 1024 bytes or fewer; the tool looks at the count later.
SaveWrite(p) ==
  /\ pc[p] = "saveWrite"
  /\ \E len \in {"short", "exact"} :
       file' = [file EXCEPT ![File(p)] = [len |-> len, data |-> block[p]]]
  /\ Keep /\ Goto(p, "saveClose")
  /\ UNCHANGED <<device, job, block, accepted, runs>>

\* The count Write returned is not compared with 1024.
SaveClose_IgnoreCount(p) ==
  /\ pc[p] = "saveClose"
  /\ Drop(p, {"fh"})
  /\ UNCHANGED file /\ Return(p, 0)
  /\ UNCHANGED <<device, job, block, accepted, runs>>

\* Close may fail and lose buffered data.
SaveClose(p) ==
  /\ pc[p] = "saveClose"
  /\ Drop(p, {"fh"})
  /\ \/ /\ file[File(p)].len = "exact"
        /\ UNCHANGED file /\ Return(p, 0)
     \/ /\ \E len \in {"short", file[File(p)].len} :
             file' = [file EXCEPT ![File(p)].len = len]
        /\ Goto(p, "delete")
  /\ UNCHANGED <<device, job, block, accepted, runs>>

\* DeleteFile is called for its effect only: its result is not looked at.
SaveDelete(p) ==
  /\ pc[p] = "delete"
  /\ \/ /\ ~InUse(File(p))
        /\ file' = [file EXCEPT ![File(p)] = [len |-> "absent", data |-> NoBlock]]
     \/ UNCHANGED file
  /\ Keep /\ Return(p, 5)
  /\ UNCHANGED <<device, job, block, accepted, runs>>

-----------------------------------------------------------------------------
(***************************************************************************)
(* BootRestore.                                                            *)
(***************************************************************************)
RestoreOpen(p) ==
  /\ pc[p] = "restoreOpen"
  /\ \/ /\ file[File(p)].len # "absent" /\ ~Writing(File(p))
        /\ Take(p, "fh") /\ Goto(p, "load")
     \/ Keep /\ Return(p, 5)
  /\ UNCHANGED <<device, file, job, block, accepted, runs>>

\* Read of 1024 bytes, Read of one more, Close: the shared lock makes it one
\* step.  The history notes what a confirmed run got from a whole file.
Loaded(p, ok) ==
  /\ pc[p] = "load"
  /\ Drop(p, {"fh"})
  /\ \/ /\ ok
        /\ block' = [block EXCEPT ![p] = file[File(p)].data]
        /\ accepted' = IF file[File(p)].len = "exact" /\ job[p].yes
                       THEN [accepted EXCEPT ![Unit(p)] = @ \cup {file[File(p)].data}]
                       ELSE accepted
        /\ Goto(p, "restoreSetup")
     \/ UNCHANGED <<block, accepted>> /\ Return(p, 5)
  /\ UNCHANGED <<device, file, job, runs>>

\* The one-byte Read that finds trailing data is missing.
RestoreLoad_AllowLong(p) == Loaded(p, file[File(p)].len \in {"exact", "long"})

RestoreLoad(p) == Loaded(p, file[File(p)].len = "exact")

RestoreSetup(p) ==
  AllocSignal(p, "restoreSetup", "restoreDevice") \/ OpenDevice(p, "restoreDevice", "write")

\* CMD_WRITE: an error may leave the buffer as it was or already changed.
RestoreWrite(p) ==
  /\ pc[p] = "write"
  /\ \/ DeviceWrite(p, Unit(p), block[p]) /\ Keep /\ Goto(p, "update")
     \/ DeviceWrite(p, Unit(p), block[p]) /\ Teardown(p) /\ Return(p, 5)
     \/ UNCHANGED device /\ Teardown(p) /\ Return(p, 5)
  /\ UNCHANGED <<file, job, block, accepted, runs>>

\* The DoIO of CMD_UPDATE is missing.
RestoreUpdate_Skipped(p) ==
  /\ pc[p] = "update"
  /\ UNCHANGED device /\ Keep /\ Goto(p, "verify")
  /\ UNCHANGED <<file, job, block, accepted, runs>>

\* CMD_UPDATE: on an error the buffer is still pending.
RestoreUpdate(p) ==
  /\ pc[p] = "update"
  /\ \/ DeviceUpdate(Unit(p)) /\ Keep /\ Goto(p, "verify")
     \/ UNCHANGED device /\ Teardown(p) /\ Return(p, 5)
  /\ UNCHANGED <<file, job, block, accepted, runs>>

\* The two blocks are not compared.
RestoreVerify_NoCompare(p) ==
  /\ pc[p] = "verify"
  /\ Teardown(p)
  /\ \/ DeviceRead(Unit(p)) /\ Return(p, 0)
     \/ UNCHANGED device /\ Return(p, 5)
  /\ UNCHANGED <<file, job, block, accepted, runs>>

\* CMD_READ into verifyblock[], blocks_equal, teardown_io on every path.
RestoreVerify(p) ==
  /\ pc[p] = "verify"
  /\ Teardown(p)
  /\ \/ /\ DeviceRead(Unit(p))
        /\ Return(p, IF ReadResult(Unit(p)) = block[p] THEN 0 ELSE 5)
     \/ UNCHANGED device /\ Return(p, 5)
  /\ UNCHANGED <<file, job, block, accepted, runs>>

-----------------------------------------------------------------------------
Save(p) == SaveSetup(p) \/ SaveRead(p) \/ SaveOpen(p) \/ SaveWrite(p)
             \/ SaveClose(p) \/ SaveDelete(p)

Restore(p) == RestoreOpen(p) \/ RestoreLoad(p) \/ RestoreSetup(p)
                \/ RestoreWrite(p) \/ RestoreUpdate(p) \/ RestoreVerify(p)

Next ==
  \/ \E p \in Procs : Save(p) \/ Restore(p)
  \/ \E p \in Procs, j \in Jobs : Invoke(p, j)
  \/ \E u \in Units : ReuseTrack(u) \/ ChangeDisk(u)

Spec == Init /\ [][Next]_vars

-----------------------------------------------------------------------------
(***************************************************************************)
(* Properties.                                                             *)
(***************************************************************************)
\* A tool that has returned owns nothing: every early return of setup_io,
\* the reads, writes and file calls frees the signal, device and handle.
NothingHeldAtExit == \A p \in Procs : pc[p] = "idle" => held[p] = {}

\* Whatever waits in a drive's buffer to be recorded came, whole, from a file
\* of exactly 1024 bytes, for that unit, in a run confirmed with YES.
OnlyWholeFilesReachDisks ==
  \A u \in Units : writer[u] # NoProc => track[u] \in accepted[u]

\* "Saved 1024 raw bytes": when BootSave returns 0 its file holds exactly the
\* block CMD_READ returned.
SavedMeansWhole ==
  [][\A p \in Procs :
       job[p].tool = "BootSave" /\ rc[p] # 0 /\ rc'[p] = 0 =>
         file'[File(p)] = [len |-> "exact", data |-> block[p]]]_vars

\* When BootRestore returns 0, no write of its own is pending, and its block is
\* on the disk or pending from a later run.  The one exception: the disk took
\* the record badly and the verify CMD_READ was served from the buffer, which
\* was still valid after CMD_UPDATE.
RestoredUnlessBuffered ==
  [][\A p \in Procs :
       job[p].tool = "BootRestore" /\ rc[p] # 0 /\ rc'[p] = 0 =>
         \/ writer'[Unit(p)] \notin {NoProc, p} /\ track'[Unit(p)] = block[p]
         \/ writer'[Unit(p)] = NoProc /\ medium'[Unit(p)] = block[p]
         \/ /\ writer'[Unit(p)] = NoProc /\ ~taken[Unit(p)]
            /\ track[Unit(p)] = block[p]]_vars

\* "Restored and verified 1024 raw bytes to DF": the block is on the disk, or
\* pending from a later run.
RestoredMeansRecorded ==
  [][\A p \in Procs :
       job[p].tool = "BootRestore" /\ rc[p] # 0 /\ rc'[p] = 0 =>
         \/ writer'[Unit(p)] \notin {NoProc, p} /\ track'[Unit(p)] = block[p]
         \/ writer'[Unit(p)] = NoProc /\ medium'[Unit(p)] = block[p]]_vars
=============================================================================
