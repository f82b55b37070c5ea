--------------------------- MODULE BootBlockProofs ---------------------------
(***************************************************************************)
(* Proofs about BootSave and BootRestore for any number of processes,      *)
(* drives, files and blocks.  IndInv says, for every step a run can be at, *)
(* what it owns, where its block came from and what the drive holds.       *)
(***************************************************************************)
EXTENDS BootBlock, TLAPS

SaveLabels == {"saveSetup", "saveDevice", "saveRead", "saveOpen", "saveWrite",
               "saveClose", "delete"}
RestoreLabels == {"restoreOpen", "load", "restoreSetup", "restoreDevice", "write",
                  "update", "verify"}

\* A run past its command line is the tool its step belongs to.
JobOK ==
  \A p \in Procs :
    /\ pc[p] # "idle" => Unit(p) \in Units
    /\ pc[p] \in SaveLabels => job[p].tool = "BootSave"
    /\ pc[p] \in RestoreLabels => job[p].tool = "BootRestore" /\ job[p].yes

\* What a run owns is determined by its step.
HeldOK ==
  \A p \in Procs :
    /\ pc[p] \in {"idle", "saveSetup", "saveOpen", "delete", "restoreOpen",
                  "restoreSetup"} => held[p] = {}
    /\ pc[p] \in {"saveDevice", "restoreDevice"} => held[p] = {"sig"}
    /\ pc[p] \in {"saveRead", "write", "update", "verify"} => held[p] = {"sig", "dev"}
    /\ pc[p] \in {"saveWrite", "saveClose", "load"} => held[p] = {"fh"}

\* A whole file has data, and a closing writer finds its own block in it.
FileOK ==
  /\ \A f \in Files : file[f].len \in {"exact", "long"} => file[f].data \in Blocks
  /\ \A p \in Procs :
       /\ pc[p] \in {"saveOpen", "saveWrite", "saveClose"} => block[p] \in Blocks
       /\ pc[p] = "saveClose" => file[File(p)].data = block[p]

\* MODE_NEWFILE is exclusive.
OneWriter ==
  \A p, q \in Procs :
    /\ pc[p] \in {"saveWrite", "saveClose"}
    /\ pc[q] \in {"saveWrite", "saveClose", "load"}
    /\ File(p) = File(q)
    => p = q

\* A restoring run works with a block it read from a whole file.
BlockAccepted ==
  \A p \in Procs :
    pc[p] \in {"restoreSetup", "restoreDevice", "write", "update", "verify"} =>
      block[p] \in accepted[Unit(p)]

\* After its CMD_UPDATE a run's own CMD_WRITE is not pending.
Flushed == \A p \in Procs : pc[p] = "verify" => writer[Unit(p)] # p

\* A clean buffer agrees with the medium, unless the disk took the last record
\* badly.
Coherent ==
  \A u \in Units :
    writer[u] = NoProc /\ track[u] # NoBlock /\ taken[u] => track[u] = medium[u]

IndInv ==
  /\ TypeOK /\ JobOK /\ HeldOK /\ FileOK /\ OneWriter
  /\ BlockAccepted /\ OnlyWholeFilesReachDisks /\ Flushed /\ Coherent

-----------------------------------------------------------------------------
\* setup_io of BootSave: what is owned changes, nothing else.
LEMMA SaveSetupStep == ASSUME IndInv, NEW p \in Procs, SaveSetup(p) PROVE IndInv'
<1> USE ConstantsAssumption DEF IndInv, Unit, File, SaveSetup,
                     AllocSignal, OpenDevice, Take, Drop, Goto, Return, Keep, device
<1>1. TypeOK'
  <2>1. taken' \in [Units -> BOOLEAN]
    BY DEF TypeOK, JobOK, RestoreLabels
  <2>2. QED BY <2>1, SMTT(20) DEF TypeOK, Labels, Lengths, Running, FileOK, JobOK, RestoreLabels
<1>2. JobOK' /\ HeldOK' /\ OneWriter'
  <2>1. JobOK'
    BY DEF JobOK, TypeOK, SaveLabels, RestoreLabels
  <2>2. HeldOK'
    BY DEF HeldOK, TypeOK
  <2>3. OneWriter'
    BY DEF OneWriter, TypeOK
  <2>4. QED BY <2>1, <2>2, <2>3
<1>3. FileOK'
  BY DEF FileOK, TypeOK, OneWriter, JobOK
<1>4. BlockAccepted'
  BY DEF BlockAccepted, TypeOK, JobOK, RestoreLabels
<1>5. OnlyWholeFilesReachDisks'
  BY DEF OnlyWholeFilesReachDisks, BlockAccepted, TypeOK, JobOK
<1>6. Flushed' /\ Coherent'
  BY DEF Flushed, Coherent, OnlyWholeFilesReachDisks,
         TypeOK, JobOK
<1>7. QED BY <1>1, <1>2, <1>3, <1>4, <1>5, <1>6

\* CMD_READ: a clean buffer is filled from the medium, so it stays coherent.
LEMMA SaveReadStep == ASSUME IndInv, NEW p \in Procs, SaveRead(p) PROVE IndInv'
<1> USE ConstantsAssumption DEF IndInv, Unit, File, SaveRead,
                     Teardown, Drop, Goto, Return, DeviceRead,
                     ReadResult, device
<1>1. TypeOK'
  <2>1. taken' \in [Units -> BOOLEAN]
    BY DEF TypeOK, JobOK, RestoreLabels
  <2>2. QED BY <2>1, SMTT(20) DEF TypeOK, Labels, Lengths, Running, FileOK, JobOK, RestoreLabels
<1>2. JobOK' /\ HeldOK' /\ OneWriter'
  <2>1. JobOK'
    BY DEF JobOK, TypeOK, SaveLabels, RestoreLabels
  <2>2. HeldOK'
    BY DEF HeldOK, TypeOK
  <2>3. OneWriter'
    BY DEF OneWriter, TypeOK
  <2>4. QED BY <2>1, <2>2, <2>3
<1>3. FileOK'
  BY DEF FileOK, TypeOK, OneWriter, JobOK
<1>4. BlockAccepted'
  BY DEF BlockAccepted, TypeOK, JobOK, RestoreLabels
<1>5. OnlyWholeFilesReachDisks'
  BY DEF OnlyWholeFilesReachDisks, BlockAccepted, TypeOK, JobOK
<1>6. Flushed' /\ Coherent'
  BY DEF Flushed, Coherent, OnlyWholeFilesReachDisks,
         TypeOK, JobOK
<1>7. QED BY <1>1, <1>2, <1>3, <1>4, <1>5, <1>6

\* Open(MODE_NEWFILE): the guard ~InUse gives the exclusive writer.
LEMMA SaveOpenStep == ASSUME IndInv, NEW p \in Procs, SaveOpen(p) PROVE IndInv'
<1> USE ConstantsAssumption DEF IndInv, Unit, File, SaveOpen,
                     Take, Goto, Return, InUse, Writing, device
<1>0. \A q \in Procs : job[q].file \in Files
  BY DEF TypeOK, Jobs
<1>1. TypeOK'
  <2>1. file' \in [Files -> [len : Lengths, data : Blocks \cup {NoBlock}]]
    BY <1>0 DEF TypeOK, Lengths
  <2>2. taken' \in [Units -> BOOLEAN]
    BY DEF TypeOK
  <2>3. QED BY <2>1, <2>2, SMTT(20) DEF TypeOK, Labels, Running
<1>2. JobOK' /\ HeldOK' /\ OneWriter'
  <2>1. JobOK'
    BY DEF JobOK, TypeOK, SaveLabels, RestoreLabels
  <2>2. HeldOK'
    BY DEF HeldOK, TypeOK
  <2>3. OneWriter'
    BY DEF OneWriter, TypeOK
  <2>4. QED BY <2>1, <2>2, <2>3
<1>3. FileOK'
  <2>1. \A f \in Files : file'[f] = file[f] \/ file'[f].len = "short"
    BY <1>0 DEF TypeOK
  <2>2. \A q \in Procs : pc[q] = "saveClose" /\ pc'[q] = "saveClose"
                            => file'[File(q)] = file[File(q)]
    BY <1>0 DEF TypeOK
  <2>3. QED BY <2>1, <2>2 DEF FileOK, TypeOK
<1>4. BlockAccepted'
  BY <1>0 DEF BlockAccepted, TypeOK, JobOK, RestoreLabels
<1>5. OnlyWholeFilesReachDisks'
  BY DEF OnlyWholeFilesReachDisks, BlockAccepted, TypeOK, JobOK
<1>6. Flushed' /\ Coherent'
  BY DEF Flushed, Coherent, OnlyWholeFilesReachDisks,
         TypeOK, JobOK
<1>7. QED BY <1>1, <1>2, <1>3, <1>4, <1>5, <1>6

\* Write: the file receives the block of its only writer.
LEMMA SaveWriteStep == ASSUME IndInv, NEW p \in Procs, SaveWrite(p) PROVE IndInv'
<1> USE ConstantsAssumption DEF IndInv, Unit, File, SaveWrite,
                     Keep, Goto, device
<1>0. \A q \in Procs : job[q].file \in Files
  BY DEF TypeOK, Jobs
<1>1. TypeOK'
  BY <1>0 DEF TypeOK, Labels, Lengths, Running, FileOK, JobOK
<1>2. JobOK' /\ HeldOK' /\ OneWriter'
  <2>1. JobOK'
    BY DEF JobOK, TypeOK, SaveLabels, RestoreLabels
  <2>2. HeldOK'
    BY DEF HeldOK, TypeOK
  <2>3. OneWriter'
    BY DEF OneWriter, TypeOK
  <2>4. QED BY <2>1, <2>2, <2>3
<1>3. FileOK'
  BY <1>0 DEF FileOK, TypeOK, OneWriter, JobOK
<1>4. BlockAccepted'
  BY <1>0 DEF BlockAccepted, TypeOK, JobOK, RestoreLabels
<1>5. OnlyWholeFilesReachDisks'
  BY DEF OnlyWholeFilesReachDisks, BlockAccepted, TypeOK, JobOK
<1>6. Flushed' /\ Coherent'
  BY DEF Flushed, Coherent, OnlyWholeFilesReachDisks,
         TypeOK, JobOK
<1>7. QED BY <1>1, <1>2, <1>3, <1>4, <1>5, <1>6

\* Close: the file keeps its data, or becomes shorter.
LEMMA SaveCloseStep == ASSUME IndInv, NEW p \in Procs, SaveClose(p) PROVE IndInv'
<1> USE ConstantsAssumption DEF IndInv, Unit, File, SaveClose,
                     Drop, Goto, Return, device
<1>0. \A q \in Procs : job[q].file \in Files
  BY DEF TypeOK, Jobs
<1>1. TypeOK'
  <2>1. file' \in [Files -> [len : Lengths, data : Blocks \cup {NoBlock}]]
    <3>1. file \in [Files -> [len : Lengths, data : Blocks \cup {NoBlock}]]
      BY DEF TypeOK
    <3>2. CASE file' = file
      BY <3>1, <3>2
    <3>3. ASSUME NEW len \in Lengths, file' = [file EXCEPT ![job[p].file].len = len]
          PROVE  file' \in [Files -> [len : Lengths, data : Blocks \cup {NoBlock}]]
      BY <3>1, <3>3
    <3>4. file[job[p].file].len \in Lengths /\ "short" \in Lengths
      BY <1>0, <3>1 DEF Lengths
    <3>5. QED BY <3>2, <3>3, <3>4
  <2>2. taken' \in [Units -> BOOLEAN]
    BY DEF TypeOK
  <2>3. QED BY <2>1, <2>2, SMTT(20) DEF TypeOK, Labels, Running
<1>2. JobOK' /\ HeldOK' /\ OneWriter'
  <2>1. JobOK'
    BY DEF JobOK, TypeOK, SaveLabels, RestoreLabels
  <2>2. HeldOK'
    BY DEF HeldOK, TypeOK
  <2>3. OneWriter'
    BY DEF OneWriter, TypeOK
  <2>4. QED BY <2>1, <2>2, <2>3
<1>3. FileOK'
  <2>1. \A f \in Files : /\ file'[f].data = file[f].data
                        /\ file'[f].len \in {"short", file[f].len}
    BY <1>0 DEF TypeOK
  <2>2. QED BY <1>0, <2>1 DEF FileOK, TypeOK
<1>4. BlockAccepted'
  BY <1>0 DEF BlockAccepted, TypeOK, JobOK, RestoreLabels
<1>5. OnlyWholeFilesReachDisks'
  BY DEF OnlyWholeFilesReachDisks, BlockAccepted, TypeOK, JobOK
<1>6. Flushed' /\ Coherent'
  BY DEF Flushed, Coherent, OnlyWholeFilesReachDisks,
         TypeOK, JobOK
<1>7. QED BY <1>1, <1>2, <1>3, <1>4, <1>5, <1>6

\* DeleteFile never hits a file that somebody is writing or loading.
LEMMA SaveDeleteStep == ASSUME IndInv, NEW p \in Procs, SaveDelete(p) PROVE IndInv'
<1> USE ConstantsAssumption DEF IndInv, Unit, File, SaveDelete,
                     Keep, Return, InUse, Writing, device
<1>0. \A q \in Procs : job[q].file \in Files
  BY DEF TypeOK, Jobs
<1>1. TypeOK'
  <2>1. file' \in [Files -> [len : Lengths, data : Blocks \cup {NoBlock}]]
    BY <1>0 DEF TypeOK, Lengths
  <2>2. taken' \in [Units -> BOOLEAN]
    BY DEF TypeOK
  <2>3. QED BY <2>1, <2>2, SMTT(20) DEF TypeOK, Labels, Running
<1>2. JobOK' /\ HeldOK' /\ OneWriter'
  <2>1. JobOK'
    BY DEF JobOK, TypeOK, SaveLabels, RestoreLabels
  <2>2. HeldOK'
    BY DEF HeldOK, TypeOK
  <2>3. OneWriter'
    BY DEF OneWriter, TypeOK
  <2>4. QED BY <2>1, <2>2, <2>3
<1>3. FileOK'
  <2>1. \A f \in Files : file'[f] = file[f] \/ file'[f].len = "absent"
    BY <1>0 DEF TypeOK
  <2>2. \A q \in Procs : pc[q] = "saveClose" => file'[File(q)] = file[File(q)]
    BY <1>0 DEF TypeOK
  <2>3. QED BY <2>1, <2>2 DEF FileOK, TypeOK
<1>4. BlockAccepted'
  BY <1>0 DEF BlockAccepted, TypeOK, JobOK, RestoreLabels
<1>5. OnlyWholeFilesReachDisks'
  BY DEF OnlyWholeFilesReachDisks, BlockAccepted, TypeOK, JobOK
<1>6. Flushed' /\ Coherent'
  BY DEF Flushed, Coherent, OnlyWholeFilesReachDisks,
         TypeOK, JobOK
<1>7. QED BY <1>1, <1>2, <1>3, <1>4, <1>5, <1>6

\* Open(MODE_OLDFILE): no writer, so a reader joins safely.
LEMMA RestoreOpenStep == ASSUME IndInv, NEW p \in Procs, RestoreOpen(p) PROVE IndInv'
<1> USE ConstantsAssumption DEF IndInv, Unit, File, RestoreOpen,
                     Take, Keep, Goto, Return, Writing, device
<1>1. TypeOK'
  <2>1. taken' \in [Units -> BOOLEAN]
    BY DEF TypeOK, JobOK, RestoreLabels
  <2>2. QED BY <2>1, SMTT(20) DEF TypeOK, Labels, Lengths, Running, FileOK, JobOK, RestoreLabels
<1>2. JobOK' /\ HeldOK' /\ OneWriter'
  <2>1. JobOK'
    BY DEF JobOK, TypeOK, SaveLabels, RestoreLabels
  <2>2. HeldOK'
    BY DEF HeldOK, TypeOK
  <2>3. OneWriter'
    BY DEF OneWriter, TypeOK
  <2>4. QED BY <2>1, <2>2, <2>3
<1>3. FileOK'
  BY DEF FileOK, TypeOK, OneWriter, JobOK
<1>4. BlockAccepted'
  BY DEF BlockAccepted, TypeOK, JobOK, RestoreLabels
<1>5. OnlyWholeFilesReachDisks'
  BY DEF OnlyWholeFilesReachDisks, BlockAccepted, TypeOK, JobOK
<1>6. Flushed' /\ Coherent'
  BY DEF Flushed, Coherent, OnlyWholeFilesReachDisks,
         TypeOK, JobOK
<1>7. QED BY <1>1, <1>2, <1>3, <1>4, <1>5, <1>6

\* The two Reads: only a whole file's data becomes the run's block.
LEMMA RestoreLoadStep == ASSUME IndInv, NEW p \in Procs, RestoreLoad(p) PROVE IndInv'
<1> USE ConstantsAssumption DEF IndInv, Unit, File, RestoreLoad,
                     Loaded, Drop, Goto, Return, device
<1>0. \A q \in Procs : job[q].file \in Files
  BY DEF TypeOK, Jobs
<1>1. TypeOK'
  <2>1. accepted' \in [Units -> SUBSET Blocks]
    BY <1>0 DEF TypeOK, FileOK, JobOK
  <2>2. block' \in [Procs -> Blocks \cup {NoBlock}]
    BY <1>0 DEF TypeOK, FileOK
  <2>3. QED BY <2>1, <2>2 DEF TypeOK, Labels, Running
<1>2. JobOK' /\ HeldOK' /\ OneWriter'
  <2>1. JobOK'
    BY DEF JobOK, TypeOK, SaveLabels, RestoreLabels
  <2>2. HeldOK'
    BY DEF HeldOK, TypeOK
  <2>3. OneWriter'
    BY DEF OneWriter, TypeOK
  <2>4. QED BY <2>1, <2>2, <2>3
<1>3. FileOK'
  BY <1>0 DEF FileOK, TypeOK, OneWriter, JobOK
<1>4. BlockAccepted'
  BY <1>0 DEF BlockAccepted, TypeOK, JobOK, RestoreLabels
<1>5. OnlyWholeFilesReachDisks'
  BY DEF OnlyWholeFilesReachDisks, BlockAccepted, TypeOK, JobOK
<1>6. Flushed' /\ Coherent'
  BY DEF Flushed, Coherent, OnlyWholeFilesReachDisks,
         TypeOK, JobOK
<1>7. QED BY <1>1, <1>2, <1>3, <1>4, <1>5, <1>6

\* setup_io of BootRestore.
LEMMA RestoreSetupStep == ASSUME IndInv, NEW p \in Procs, RestoreSetup(p) PROVE IndInv'
<1> USE ConstantsAssumption DEF IndInv, Unit, File, RestoreSetup,
                     AllocSignal, OpenDevice, Take, Drop, Goto, Return, Keep, device
<1>1. TypeOK'
  <2>1. taken' \in [Units -> BOOLEAN]
    BY DEF TypeOK, JobOK, RestoreLabels
  <2>2. QED BY <2>1, SMTT(20) DEF TypeOK, Labels, Lengths, Running, FileOK, JobOK, RestoreLabels
<1>2. JobOK' /\ HeldOK' /\ OneWriter'
  <2>1. HeldOK'
    BY DEF HeldOK, TypeOK
  <2>2. JobOK' /\ OneWriter'
    BY SMTT(30) DEF JobOK, OneWriter, TypeOK, SaveLabels, RestoreLabels
  <2>3. QED BY <2>1, <2>2
<1>3. FileOK'
  BY DEF FileOK, TypeOK, OneWriter, JobOK
<1>4. BlockAccepted'
  BY DEF BlockAccepted, TypeOK, JobOK, RestoreLabels
<1>5. OnlyWholeFilesReachDisks'
  BY DEF OnlyWholeFilesReachDisks, BlockAccepted, TypeOK, JobOK
<1>6. Flushed' /\ Coherent'
  BY DEF Flushed, Coherent, OnlyWholeFilesReachDisks,
         TypeOK, JobOK
<1>7. QED BY <1>1, <1>2, <1>3, <1>4, <1>5, <1>6

\* CMD_WRITE: the buffer receives an accepted block.
LEMMA RestoreWriteStep == ASSUME IndInv, NEW p \in Procs, RestoreWrite(p) PROVE IndInv'
<1> USE ConstantsAssumption DEF IndInv, Unit, File, RestoreWrite,
                     DeviceWrite, Teardown, Drop, Keep, Goto,
                     Return, device
<1>1. TypeOK'
  <2>1. taken' \in [Units -> BOOLEAN]
    BY DEF TypeOK, JobOK, RestoreLabels
  <2>2. QED BY <2>1, SMTT(60) DEF TypeOK, Labels, Lengths, Running, FileOK, JobOK, RestoreLabels
<1>2. JobOK' /\ HeldOK' /\ OneWriter'
  <2>1. JobOK'
    BY DEF JobOK, TypeOK, SaveLabels, RestoreLabels
  <2>2. HeldOK'
    BY DEF HeldOK, TypeOK
  <2>3. OneWriter'
    BY DEF OneWriter, TypeOK
  <2>4. QED BY <2>1, <2>2, <2>3
<1>3. FileOK'
  BY DEF FileOK, TypeOK, OneWriter, JobOK
<1>4. BlockAccepted'
  BY DEF BlockAccepted, TypeOK, JobOK, RestoreLabels
<1>5. OnlyWholeFilesReachDisks'
  BY DEF OnlyWholeFilesReachDisks, BlockAccepted, TypeOK, JobOK
<1>6. Flushed' /\ Coherent'
  BY DEF Flushed, Coherent, OnlyWholeFilesReachDisks,
         TypeOK, JobOK
<1>7. QED BY <1>1, <1>2, <1>3, <1>4, <1>5, <1>6

\* CMD_UPDATE: nothing is pending afterwards, whether or not the buffer stays valid.
LEMMA RestoreUpdateStep == ASSUME IndInv, NEW p \in Procs, RestoreUpdate(p) PROVE IndInv'
<1> USE ConstantsAssumption DEF IndInv, Unit, File, RestoreUpdate,
                     DeviceUpdate, Record, Teardown, Drop, Keep,
                     Goto, Return, device
<1>1. TypeOK'
  <2>1. taken' \in [Units -> BOOLEAN]
    BY DEF TypeOK, JobOK, RestoreLabels
  <2>2. QED BY <2>1, SMTT(60) DEF TypeOK, Labels, Lengths, Running, FileOK, JobOK, RestoreLabels
<1>2. JobOK' /\ HeldOK' /\ OneWriter'
  <2>1. JobOK'
    BY DEF JobOK, TypeOK, SaveLabels, RestoreLabels
  <2>2. HeldOK'
    BY DEF HeldOK, TypeOK
  <2>3. OneWriter'
    BY DEF OneWriter, TypeOK
  <2>4. QED BY <2>1, <2>2, <2>3
<1>3. FileOK'
  BY DEF FileOK, TypeOK, OneWriter, JobOK
<1>4. BlockAccepted'
  BY DEF BlockAccepted, TypeOK, JobOK, RestoreLabels
<1>5. OnlyWholeFilesReachDisks'
  BY DEF OnlyWholeFilesReachDisks, BlockAccepted, TypeOK, JobOK
<1>6. Flushed' /\ Coherent'
  <2>1. Unit(p) \in Units
    BY DEF JobOK
  <2>2. CASE UNCHANGED device /\ Return(p, 5)
    <3>1. UNCHANGED <<medium, track, writer, taken, job>>
      BY <2>2
    <3>2. \A q \in Procs : pc'[q] = "verify" => pc[q] = "verify"
      BY <2>2 DEF TypeOK
    <3>3. Flushed'
      BY <3>1, <3>2 DEF Flushed
    <3>4. Coherent'
      BY ONLY Coherent, <3>1 DEF Coherent
    <3>5. QED BY <3>3, <3>4
  <2>3. CASE DeviceUpdate(Unit(p)) /\ Keep /\ Goto(p, "verify")
    <3>1. writer' = [writer EXCEPT ![Unit(p)] = NoProc]
      BY <2>3
    <3>2. Flushed'
      BY <2>1, <3>1 DEF Flushed, TypeOK
    <3>3. ASSUME NEW u \in Units, u # Unit(p)
          PROVE  /\ writer'[u] = writer[u] /\ track'[u] = track[u]
                 /\ medium'[u] = medium[u] /\ taken'[u] = taken[u]
      <4>1. writer'[u] = writer[u] /\ track'[u] = track[u]
        BY <2>3, <3>3 DEF TypeOK
      <4>2. CASE UNCHANGED <<medium, taken>>
        BY <4>1, <4>2
      <4>3. CASE \E b \in Blocks : /\ medium' = [medium EXCEPT ![Unit(p)] = b]
                                  /\ taken' = [taken EXCEPT ![Unit(p)] = (b = track[Unit(p)])]
        BY <3>3, <4>1, <4>3 DEF TypeOK
      <4>4. QED BY <2>3, <4>1, <4>2, <4>3
    <3>4. /\ track'[Unit(p)] \in {track[Unit(p)], NoBlock}
          /\ writer[Unit(p)] = NoProc => UNCHANGED <<medium, taken>>
          /\ writer[Unit(p)] # NoProc /\ taken'[Unit(p)] => medium'[Unit(p)] = track[Unit(p)]
      BY <2>1, <2>3 DEF TypeOK
    <3>5. Coherent'
      BY <2>1, <3>1, <3>3, <3>4 DEF Coherent, TypeOK
    <3>6. QED BY <3>2, <3>5
  <2>4. QED BY <2>2, <2>3
<1>7. QED BY <1>1, <1>2, <1>3, <1>4, <1>5, <1>6

\* CMD_READ and blocks_equal.
LEMMA RestoreVerifyStep == ASSUME IndInv, NEW p \in Procs, RestoreVerify(p) PROVE IndInv'
<1> USE ConstantsAssumption DEF IndInv, Unit, File, RestoreVerify,
                     DeviceRead, ReadResult, Teardown, Drop, Goto,
                     Return, device
<1>1. TypeOK'
  <2>1. taken' \in [Units -> BOOLEAN]
    BY DEF TypeOK, JobOK, RestoreLabels
  <2>2. QED BY <2>1, SMTT(20) DEF TypeOK, Labels, Lengths, Running, FileOK, JobOK, RestoreLabels
<1>2. JobOK' /\ HeldOK' /\ OneWriter'
  <2>1. JobOK'
    BY DEF JobOK, TypeOK, SaveLabels, RestoreLabels
  <2>2. HeldOK'
    BY DEF HeldOK, TypeOK
  <2>3. OneWriter'
    BY DEF OneWriter, TypeOK
  <2>4. QED BY <2>1, <2>2, <2>3
<1>3. FileOK'
  BY DEF FileOK, TypeOK, OneWriter, JobOK
<1>4. BlockAccepted'
  BY DEF BlockAccepted, TypeOK, JobOK, RestoreLabels
<1>5. OnlyWholeFilesReachDisks'
  BY DEF OnlyWholeFilesReachDisks, BlockAccepted, TypeOK, JobOK
<1>6. Flushed' /\ Coherent'
  BY DEF Flushed, Coherent, OnlyWholeFilesReachDisks,
         TypeOK, JobOK
<1>7. QED BY <1>1, <1>2, <1>3, <1>4, <1>5, <1>6

-----------------------------------------------------------------------------
\* A command line: only an accepted one gets past Invoke.
LEMMA InvokeStep ==
  ASSUME IndInv, NEW p \in Procs, NEW j \in Jobs, Invoke(p, j) PROVE IndInv'
<1> USE ConstantsAssumption DEF IndInv, Unit, File, Invoke, device
<1>0. /\ pc[p] = "idle" /\ held[p] = {}
      /\ \/ pc'[p] = "saveSetup" /\ j.tool = "BootSave" /\ j.unit # NoUnit
         \/ pc'[p] = "restoreOpen" /\ j.tool = "BootRestore" /\ j.unit # NoUnit /\ j.yes
         \/ pc'[p] = "idle"
      /\ j.unit \in Units \cup {NoUnit}
  BY DEF TypeOK, HeldOK, SaveArgsOK, RestoreArgsOK, ParseUnit, Jobs
<1>1. TypeOK'
  BY <1>0 DEF TypeOK, Labels, Running
<1>2. JobOK' /\ HeldOK' /\ OneWriter'
  BY <1>0 DEF JobOK, HeldOK, OneWriter, TypeOK, SaveLabels, RestoreLabels
<1>3. FileOK'
  BY <1>0 DEF FileOK, TypeOK
<1>4. BlockAccepted' /\ OnlyWholeFilesReachDisks'
  BY <1>0 DEF BlockAccepted, OnlyWholeFilesReachDisks, TypeOK
<1>5. Flushed' /\ Coherent'
  BY <1>0 DEF Flushed, Coherent, TypeOK
<1>6. QED BY <1>1, <1>2, <1>3, <1>4, <1>5

\* The drive on its own: a record or a disk change leaves no buffer behind.
LEMMA DriveStep ==
  ASSUME IndInv, NEW u \in Units, ReuseTrack(u) \/ ChangeDisk(u) PROVE IndInv'
<1> USE ConstantsAssumption DEF IndInv, Unit, File, ReuseTrack, ChangeDisk, Record
<1>1. TypeOK'
  <2>1. taken' \in [Units -> BOOLEAN]
    BY DEF TypeOK
  <2>2. medium' \in [Units -> Blocks]
    BY DEF TypeOK
  <2>3. QED BY <2>1, <2>2 DEF TypeOK
<1>2. JobOK' /\ HeldOK' /\ OneWriter' /\ FileOK' /\ BlockAccepted'
  BY DEF JobOK, HeldOK, OneWriter, FileOK, BlockAccepted
<1>3. OnlyWholeFilesReachDisks' /\ Coherent'
  BY DEF OnlyWholeFilesReachDisks, Coherent, TypeOK
<1>4. Flushed'
  BY DEF Flushed, JobOK, TypeOK
<1>5. QED BY <1>1, <1>2, <1>3, <1>4

\* The invariant holds before the first run.
LEMMA InitInv == Init => IndInv
BY ConstantsAssumption
   DEF Init, IndInv, TypeOK, Labels, Lengths, Running, JobOK, HeldOK, FileOK,
       OneWriter, BlockAccepted, OnlyWholeFilesReachDisks, Flushed, Coherent,
       SaveLabels, RestoreLabels, Unit, File

\* Every step of every actor keeps the invariant.
LEMMA NextInv == IndInv /\ [Next]_vars => IndInv'
<1> SUFFICES ASSUME IndInv, [Next]_vars PROVE IndInv'
  OBVIOUS
<1>1. CASE UNCHANGED vars
  BY <1>1 DEF vars, IndInv, TypeOK, JobOK, HeldOK, FileOK, OneWriter,
              BlockAccepted, OnlyWholeFilesReachDisks, Flushed, Coherent, Unit, File
<1>2. ASSUME NEW p \in Procs, Save(p) PROVE IndInv'
  BY <1>2, SaveSetupStep, SaveReadStep, SaveOpenStep, SaveWriteStep,
     SaveCloseStep, SaveDeleteStep DEF Save
<1>3. ASSUME NEW p \in Procs, Restore(p) PROVE IndInv'
  BY <1>3, RestoreOpenStep, RestoreLoadStep, RestoreSetupStep,
     RestoreWriteStep, RestoreUpdateStep, RestoreVerifyStep DEF Restore
<1>4. ASSUME NEW p \in Procs, NEW j \in Jobs, Invoke(p, j) PROVE IndInv'
  BY <1>4, InvokeStep
<1>5. ASSUME NEW u \in Units, ReuseTrack(u) \/ ChangeDisk(u) PROVE IndInv'
  BY <1>5, DriveStep
<1>6. QED BY <1>1, <1>2, <1>3, <1>4, <1>5 DEF Next

\* The inductive invariant holds in every reachable state.
LEMMA Invariance == Spec => []IndInv
BY InitInv, NextInv, PTL DEF Spec

-----------------------------------------------------------------------------
(***************************************************************************)
(* The results.                                                            *)
(***************************************************************************)
\* Every variable of the two tools and of the drives keeps its type.
THEOREM TypeCorrect == Spec => []TypeOK
<1>1. IndInv => TypeOK
  BY DEF IndInv
<1>2. QED BY <1>1, Invariance, PTL

\* No return path of BootSave or BootRestore leaks a signal, the device or
\* the file handle.
THEOREM NoLeak == Spec => []NothingHeldAtExit
<1>1. IndInv => NothingHeldAtExit
  BY DEF IndInv, HeldOK, NothingHeldAtExit
<1>2. QED BY <1>1, Invariance, PTL

\* Nothing but a whole 1024-byte file, confirmed with YES, is ever queued for
\* a disk.
THEOREM WholeFilesOnly == Spec => []OnlyWholeFilesReachDisks
<1>1. IndInv => OnlyWholeFilesReachDisks
  BY DEF IndInv
<1>2. QED BY <1>1, Invariance, PTL

\* A return code of 0 can only come from SaveClose or RestoreVerify.
LEMMA ZeroReturn ==
  ASSUME IndInv, Next, NEW p \in Procs, rc[p] # 0, rc'[p] = 0
  PROVE  SaveClose(p) \/ RestoreVerify(p)
<1> USE DEF IndInv, TypeOK, Running
<1>1. ASSUME NEW q \in Procs, Save(q) PROVE SaveClose(p)
  BY <1>1 DEF Save, SaveSetup, AllocSignal, OpenDevice, SaveRead, SaveOpen, SaveWrite,
              SaveClose, SaveDelete, Goto, Return
<1>2. ASSUME NEW q \in Procs, Restore(q) PROVE RestoreVerify(p)
  BY <1>2 DEF Restore, RestoreOpen, RestoreLoad, Loaded, RestoreSetup, AllocSignal, OpenDevice,
              RestoreWrite, RestoreUpdate, RestoreVerify, Goto, Return
<1>3. ASSUME NEW q \in Procs, NEW j \in Jobs, Invoke(q, j) PROVE FALSE
  BY <1>3 DEF Invoke
<1>4. ASSUME NEW u \in Units, ReuseTrack(u) \/ ChangeDisk(u) PROVE FALSE
  BY <1>4 DEF ReuseTrack, ChangeDisk
<1>5. QED BY <1>1, <1>2, <1>3, <1>4 DEF Next

\* BootSave returns 0 only with its whole block in its file, also when other
\* runs use the same file name.
THEOREM SavedWhole == Spec => SavedMeansWhole
<1>1. ASSUME IndInv, [Next]_vars, NEW p \in Procs,
             job[p].tool = "BootSave", rc[p] # 0, rc'[p] = 0
      PROVE  file'[File(p)] = [len |-> "exact", data |-> block[p]]
  <2>1. SaveClose(p)
    <3>1. ~RestoreVerify(p)
      BY <1>1 DEF RestoreVerify, IndInv, JobOK, RestoreLabels
    <3>2. Next
      BY <1>1 DEF vars
    <3>3. QED BY <1>1, <3>1, <3>2, ZeroReturn
  <2>2. file[File(p)] \in [len : Lengths, data : Blocks \cup {NoBlock}]
    BY <1>1 DEF IndInv, TypeOK, Jobs, File
  <2>3. file' = file /\ file[File(p)].len = "exact" /\ file[File(p)].data = block[p]
    BY <1>1, <2>1 DEF SaveClose, Return, Goto, IndInv, FileOK, TypeOK
  <2>4. QED BY <2>2, <2>3
<1>2. IndInv /\ [Next]_vars =>
        [\A p \in Procs :
           job[p].tool = "BootSave" /\ rc[p] # 0 /\ rc'[p] = 0 =>
             file'[File(p)] = [len |-> "exact", data |-> block[p]]]_vars
  BY <1>1
<1>3. QED BY <1>2, Invariance, PTL DEF Spec, SavedMeansWhole

\* "Restored and verified" means that the block is on the disk or pending from a
\* later run, unless the disk took the record badly and the buffer was still
\* valid when it was read for the comparison.
THEOREM RestoredOrBuffered == Spec => RestoredUnlessBuffered
<1> DEFINE OnDisk(p) ==
      \/ writer'[Unit(p)] \notin {NoProc, p} /\ track'[Unit(p)] = block[p]
      \/ writer'[Unit(p)] = NoProc /\ medium'[Unit(p)] = block[p]
      \/ writer'[Unit(p)] = NoProc /\ ~taken[Unit(p)] /\ track[Unit(p)] = block[p]
<1>1. ASSUME IndInv, [Next]_vars, NEW p \in Procs,
             job[p].tool = "BootRestore", rc[p] # 0, rc'[p] = 0
      PROVE  OnDisk(p)
  <2>1. RestoreVerify(p)
    <3>1. ~SaveClose(p)
      BY <1>1 DEF SaveClose, IndInv, JobOK, SaveLabels
    <3>2. Next
      BY <1>1 DEF vars
    <3>3. QED BY <1>1, <3>1, <3>2, ZeroReturn
  <2>2. DeviceRead(Unit(p)) /\ ReadResult(Unit(p)) = block[p]
    BY <1>1, <2>1 DEF RestoreVerify, Return, IndInv, TypeOK
  <2>3. Unit(p) \in Units /\ writer[Unit(p)] # p
    BY <1>1, <2>1 DEF RestoreVerify, IndInv, JobOK, Flushed, RestoreLabels
  <2>4. /\ writer' = writer /\ medium' = medium
        /\ track'[Unit(p)] = block[p]
        /\ track[Unit(p)] = NoBlock => medium[Unit(p)] = block[p]
        /\ track[Unit(p)] # NoBlock => track[Unit(p)] = block[p]
    BY <1>1, <2>2, <2>3 DEF DeviceRead, ReadResult, IndInv, TypeOK
  <2>5. QED BY <1>1, <2>3, <2>4 DEF IndInv, Coherent
<1>2. IndInv /\ [Next]_vars =>
        [\A p \in Procs :
           job[p].tool = "BootRestore" /\ rc[p] # 0 /\ rc'[p] = 0 =>
             \/ writer'[Unit(p)] \notin {NoProc, p} /\ track'[Unit(p)] = block[p]
             \/ writer'[Unit(p)] = NoProc /\ medium'[Unit(p)] = block[p]
             \/ /\ writer'[Unit(p)] = NoProc /\ ~taken[Unit(p)]
                /\ track[Unit(p)] = block[p]]_vars
  BY <1>1
<1>3. QED BY <1>2, Invariance, PTL DEF Spec, RestoredUnlessBuffered

=============================================================================
