--------------------------- MODULE CliToolsProofs ---------------------------
(***************************************************************************)
(* Proofs about a command from its start to its return code: the startup   *)
(* code with main of Which, of the disk reports and of the table reports,  *)
(* for any command lines, limits, paths, figures and tables.               *)
(***************************************************************************)
EXTENDS MCCliTools, SequenceTheorems, WellFoundedInduction, TLAPS

\* Where a command is: in the startup code, or in main of which tools.
Starting == {"entry", "reply", "leave", "skip", "word", "nul", "main"}
Searching == {"probe", "examine", "hit", "miss", "walk"}
Reporting == {"lock", "info", "report"}
Copying == {"stop", "copy", "print"}
Ended == {"return", "done"}

PhaseOK ==
  /\ pc \in Searching => tool = "Which" /\ argc = 2
  /\ pc \in Reporting => tool \in VolumeTools
  /\ pc \in Copying => tool \in VectorTools
  /\ pc \notin Ended => rc = Running
  /\ wbmsg \in {"due", "sent"} => pc = "entry"
  /\ wbmsg = "taken" <=> pc = "reply"
  /\ wbmsg = "replied" => pc \in {"leave", "done"}
  /\ pc = "leave" => wbmsg = "replied"

\* Who holds what, and where.
HeldOK ==
  /\ pc \in {"entry", "reply", "leave", "done"} => ~dos
  /\ forbid => pc \in {"leave", "copy"}
  /\ pc = "leave" => forbid
  /\ disabled => pc = "copy"
  /\ entry => pc = "examine"
  /\ dup \/ cwd # Home => pc \in {"probe", "examine", "hit", "miss"}
  /\ lock => pc = "info"
  /\ pc # "done" => loaded

\* build_argv never writes ahead of what it reads, but for the terminator of an
\* argument that the end of the line ends.
BufferOK ==
  /\ i <= Length
  /\ pc = "word" => out <= i
  /\ pc = "nul" => out < i \/ (i = Length /\ out <= i)
  /\ pc \notin {"word", "nul"} => out <= i \/ (i = Length /\ out <= i + 1)

\* The rows are those of the table at Disable.
VectorOK ==
  /\ pc \in Starting \cup {"stop"} => rows = <<>>
  /\ \A k \in 1..Len(rows) : rows[k] = moment[k]
  /\ pc = "copy" => table = moment /\ (tool # "ROMInfo" => disabled)
  /\ pc = "print" => Len(rows) = TableSize
  /\ pc \in Ended /\ tool \in VectorTools /\ rc = 0 =>
       /\ rows = moment
       /\ tool = "Alerts" => (recorded <=> \E k \in 1..TableSize : moment[k] # 0)

\* What a volume report says is said once it is informed.
FiguresTold ==
  /\ tool = "DiskInfo" => BytesExactOrOverflow
  /\ tool \in {"DiskCheck", "FloppyTest"} =>
       /\ rc = 0 <=> Problems(info) = {}
       /\ rc = 0 <=> MediaValid(info)
       /\ rc = 0 => FreeBlocks(info) + info.used = info.blocks
  /\ tool = "TrackInfo" =>
       /\ MediaValid(info) => rc = 0
       /\ sectors # 0 => 80 * 2 * sectors = info.blocks

VolumeOK ==
  /\ informed => pc \in {"report"} \cup Ended /\ tool \in VolumeTools
  /\ pc \notin Ended => sectors = 0
  /\ informed /\ pc \in Ended => FiguresTold

\* The path of the CLI, and the places that have the name.
PathOK ==
  /\ path.last <= path.length /\ path.locks \subseteq 1..path.length
  /\ entries \subseteq {Named, InC} \cup path.locks

\* Which has walked the first components in order; of the places it has passed,
\* none has the name.
PassedNone == failed \/ \A p \in entries : p > index

WalkOK ==
  /\ ~HasPathSyntax(Arg(1)) /\ PassedNone
  /\ component = IF index < path.length THEN index + 1 ELSE path.last

ComponentOK ==
  /\ ~HasPathSyntax(Arg(1)) /\ PassedNone
  /\ index < path.length /\ index < MaxPathEntries
  /\ probe = index + 1 /\ component = probe /\ visited[index] = probe

LastOK ==
  /\ ~HasPathSyntax(Arg(1))
  /\ failed \/ \A p \in entries : p = InC \/ (p > MaxPathEntries /\ index = MaxPathEntries)
  /\ cycle => index < MaxPathEntries
  /\ cycle <=> path.last # 0 /\ path.length < MaxPathEntries

SearchOK ==
  /\ index <= path.length
  /\ \A k \in 0..(index - 1) : visited[k] = k + 1
  /\ pc = "walk" => WalkOK
  /\ pc # "walk" => \/ probe = Named /\ index = 0
                    \/ probe \in 1..MaxPath /\ ComponentOK
                    \/ probe = InC /\ LastOK
  /\ pc \in {"examine", "hit"} => probe \in entries
  /\ pc = "miss" => failed \/ probe \notin entries \/ (probe = InC /\ ~FitsC)

\* What Which says in the end.
AnswerOK ==
  /\ rc = 0 => FoundIsFirst
  /\ rc = 5 /\ ~failed => NoneHasName
  /\ rc = 5 /\ ~HasPathSyntax(Arg(1)) =>
       (cycle <=> path.last # 0 /\ path.length < MaxPathEntries)

WhichOK ==
  /\ PathOK
  /\ pc \in Starting => index = 0
  /\ pc \in Searching => SearchOK
  /\ pc \in Ended /\ tool = "Which" /\ argc = 2 => AnswerOK

IndInv ==
  TypeOK /\ PhaseOK /\ HeldOK /\ BufferOK /\ VectorOK /\ VolumeOK /\ WhichOK

-----------------------------------------------------------------------------
\* The limits are numbers.
LEMMA Constants ==
  /\ MaxArgs \in Nat /\ MaxArgs >= 1 /\ CmdLineLen \in Nat /\ CmdLineLen >= 1
  /\ MaxLine \in Nat /\ MaxPath \in Nat
  /\ MaxPathEntries \in Nat /\ MaxPathEntries >= 1 /\ CandidateLen \in Nat
  /\ Figures \subseteq Nat /\ MaxWord \in Nat
  /\ TableSize \in Nat /\ TableSize >= 1 /\ MaxUpsets \in Nat
BY StartupAssumption, WhichAssumption, VolumeAssumption, VectorAssumption
   DEF StartupAssumption, WhichAssumption, VolumeAssumption, VectorAssumption

\* A set of naturals that is not empty has a smallest element, which Min is.
LEMMA MinIsLeast ==
  ASSUME NEW S, S \subseteq Nat, S # {}
  PROVE  Min(S) \in S /\ \A n \in S : Min(S) <= n
<1>1. PICK m \in S : \A n \in S : ~(<<n, m>> \in OpToRel(<, Nat))
  BY NatLessThanWellFounded, WFMin
<1>2. \A n \in S : ~(n < m)
  BY <1>1 DEF OpToRel
<1>3. \A n \in S : m <= n
  BY <1>2
<1>4. QED BY <1>3 DEF Min

\* The part of the line that is looked at leaves room for a terminator.
LEMMA LengthIs ==
  ASSUME line \in Seq(Characters)
  PROVE  /\ Length \in Nat /\ Length <= CmdLineLen - 1 /\ Length <= Len(line)
         /\ i \in Nat /\ i < Length => Here \in Characters
<1> DEFINE S == {Len(line), CmdLineLen - 1}
<1>1. S \subseteq Nat /\ S # {} /\ Len(line) \in Nat /\ CmdLineLen - 1 \in Nat
  BY Constants
<1>2. Length \in S /\ \A n \in S : Length <= n
  <2> HIDE DEF S
  <2>1. Min(S) \in S /\ \A n \in S : Min(S) <= n
    BY <1>1, MinIsLeast
  <2>2. QED BY <2>1 DEF Length, S
<1>3. Length \in Nat /\ Length <= CmdLineLen - 1 /\ Length <= Len(line)
  BY <1>1, <1>2
<1>4. i \in Nat /\ i < Length => i + 1 \in 1..Len(line)
  BY <1>1, <1>3
<1>5. QED BY <1>3, <1>4 DEF Here

\* What is around the copying: only ROMInfo leaves interrupts enabled.
LEMMA GuardIs ==
  ASSUME tool \in VectorTools
  PROVE  /\ guard.forbids \in BOOLEAN /\ guard.disables \in BOOLEAN
         /\ guard.disables <=> tool # "ROMInfo"
         /\ guard.missing \in {5, 20}
<1>1. CASE tool \in {"Alerts", "Patches", "Interrupts"}
  <2>1. guard = Guarded(TRUE, TRUE, 5)
    <3>1. guard \in {Alerts, Patches, Interrupts}
      BY <1>1 DEF guard
    <3>2. QED BY <3>1 DEF Alerts, Patches, Interrupts
  <2>2. QED BY <1>1, <2>1 DEF Guarded
<1>2. CASE tool = "BootInfo"
  <2>1. guard = Guarded(TRUE, TRUE, 20)
    BY <1>2 DEF guard, BootInfo
  <2>2. QED BY <1>2, <2>1 DEF Guarded
<1>3. CASE tool = "Vectors"
  <2>1. guard = Guarded(FALSE, TRUE, 5)
    BY <1>3 DEF guard, Vectors
  <2>2. QED BY <1>3, <2>1 DEF Guarded
<1>4. CASE tool = "ROMInfo"
  <2>1. guard = Guarded(TRUE, FALSE, 5)
    BY <1>4 DEF guard, ROMInfo
  <2>2. QED BY <1>4, <2>1 DEF Guarded
<1>5. QED BY <1>1, <1>2, <1>3, <1>4 DEF VectorTools

USE Constants

-----------------------------------------------------------------------------
\* The invariant holds when the command is started.
LEMMA InitInv == Init => IndInv
<1> SUFFICES ASSUME Init PROVE IndInv
  OBVIOUS
<1>1. line \in Seq(Characters)
  <2>1. CASE line = <<>>
    BY <2>1
  <2>2. CASE line \in BoundedSeq(Characters, MaxLine)
    <3>1. PICK m \in 0..MaxLine : line \in [1..m -> Characters]
      BY <2>2 DEF BoundedSeq, SeqOf
    <3>2. QED BY <3>1, SeqDef
  <2>3. QED BY <2>1, <2>2 DEF Init, StartupInit
<1>2. Length \in Nat /\ Length <= CmdLineLen - 1
  BY <1>1, LengthIs
<1>3. StartupTypeOK
  <2>1. /\ argv \in [1..(MaxArgs + 1) -> 0..(CmdLineLen - 1) \cup {NoArg}]
        /\ argbuf \in [0..(CmdLineLen - 1) -> Characters \cup {NUL}]
    BY DEF Init, StartupInit
  <2>2. 0 \in 0..(CmdLineLen - 1) /\ 0 \in 0..CmdLineLen /\ 1 \in 1..(MaxArgs + 1)
    OBVIOUS
  <2>3. QED BY <1>1, <2>1, <2>2 DEF Init, StartupInit, StartupTypeOK
<1>4. WhichTypeOK /\ PathOK
  <2>1. path \in [length : 0..MaxPath, last : 0..MaxPath, locks : SUBSET (1..MaxPath)]
    BY DEF Init, WhichInit
  <2>2. Named \in Places /\ InC \in Places /\ 1..MaxPath \subseteq Places /\ Home \in Home..MaxPath
    BY DEF Named, InC, Places, Home
  <2>3. entries \subseteq Places /\ PathOK
    BY <2>1, <2>2 DEF Init, WhichInit, PathOK
  <2>4. visited \in [0..(MaxPathEntries - 1) -> 0..MaxPath]
    BY DEF Init, WhichInit
  <2>5. index \in 0..MaxPathEntries /\ component \in 0..MaxPath
    BY DEF Init, WhichInit
  <2>6. {entry, dup, cycle, failed} \subseteq BOOLEAN
    BY DEF Init, WhichInit
  <2>7. QED BY <2>1, <2>2, <2>3, <2>4, <2>5, <2>6 DEF Init, WhichInit, WhichTypeOK
<1>5. VolumeTypeOK /\ VectorTypeOK
  <2>1. {informed, lock} \subseteq BOOLEAN /\ {disabled, recorded} \subseteq BOOLEAN
    BY DEF Init, VolumeInit, VectorInit
  <2>2. bytes \in [total : Overflow..MaxWord, free : Overflow..MaxWord] /\ sectors \in Nat
    BY DEF Init, VolumeInit, Overflow
  <2>3. info \in InfoData \cup {Zero}
    BY DEF Init, VolumeInit
  <2>4. rows \in Seq(Fields) /\ Len(rows) <= TableSize /\ upsets \in 0..MaxUpsets
    BY DEF Init, VectorInit
  <2>5. QED BY <2>1, <2>2, <2>3, <2>4 DEF Init, VectorInit, VolumeTypeOK, VectorTypeOK
<1>6. TypeOK
  BY <1>3, <1>4, <1>5 DEF Init, StartupInit, TypeOK
<1>7. PhaseOK /\ HeldOK /\ BufferOK
  BY <1>2 DEF Init, StartupInit, WhichInit, VolumeInit, VectorInit, PhaseOK, HeldOK, BufferOK,
              Searching, Reporting, Copying, Ended
<1>8. VectorOK /\ VolumeOK /\ WhichOK
  BY <1>4 DEF Init, StartupInit, WhichInit, VolumeInit, VectorInit, VectorOK, VolumeOK,
              WhichOK, Searching, Ended
<1>9. QED BY <1>6, <1>7, <1>8 DEF IndInv

\* Outside its main, the parts of the invariant about Which, the volume and the
\* table reports only depend on how the command ends.
LEMMA MainFrame ==
  ASSUME IndInv, UNCHANGED <<tool, search, volume, fixed>>,
         pc' \in Starting => pc \in Starting,
         pc' \in Starting \cup Ended,
         pc' \in Ended =>
           \/ rc' \in {10, 20} /\ ~informed
           \/ tool = "argless" \/ tool = "any"
           \/ pc \in Ended /\ UNCHANGED <<rc, argc, argv, argbuf>>
  PROVE  VectorOK' /\ VolumeOK' /\ WhichOK' /\ WhichTypeOK' /\ VolumeTypeOK' /\ VectorTypeOK'
<1>0. /\ UNCHANGED <<path, entries, index, component, visited, probe, entry, dup, cwd, answer>>
      /\ UNCHANGED <<cycle, failed, info, informed, lock, bytes, sectors>>
      /\ UNCHANGED <<table, upsets, rows, disabled, recorded, moment, tool>>
  BY DEF search, volume, fixed
<1>1. WhichTypeOK' /\ VolumeTypeOK' /\ VectorTypeOK'
  BY <1>0 DEF IndInv, TypeOK, WhichTypeOK, VolumeTypeOK, VectorTypeOK
<1>2. /\ "argless" \notin VolumeTools /\ "any" \notin VolumeTools /\ "argless" \notin VectorTools
      /\ "any" \notin VectorTools
  BY DEF VolumeTools, VectorTools
<1>3. pc' \notin {"copy", "print", "stop", "report"} /\ pc' \notin Searching
  BY DEF Starting, Ended, Searching
<1>4. VectorOK'
  <2>1. CASE pc' \in Starting
    BY <1>0, <1>3, <2>1 DEF IndInv, VectorOK, Starting, Ended
  <2>2. CASE pc' \in Ended
    BY <1>0, <1>2, <1>3, <2>2 DEF IndInv, VectorOK, Starting, Ended
  <2>3. QED BY <2>1, <2>2
<1>5. VolumeOK'
  <2>1. CASE pc' \in Starting
    BY <1>0, <2>1 DEF IndInv, VolumeOK, Starting, Ended
  <2>2. CASE pc' \in Ended
    <3>1. informed => pc \in Ended /\ rc' = rc /\ tool \in VolumeTools /\ FiguresTold
      BY <1>2, <2>2 DEF IndInv, VolumeOK
    <3>2. informed => FiguresTold'
      BY <1>0, <3>1 DEF FiguresTold, BytesExactOrOverflow
    <3>3. QED BY <1>0, <2>2, <3>1, <3>2 DEF VolumeOK
  <2>3. QED BY <2>1, <2>2
<1>6. WhichOK'
  <2>1. PathOK'
    BY <1>0 DEF IndInv, WhichOK, PathOK
  <2>2. CASE pc' \in Starting
    BY <1>0, <1>3, <2>1, <2>2 DEF IndInv, WhichOK, Starting, Ended
  <2>3. CASE pc' \in Ended
    <3>1. ASSUME tool = "Which", argc' = 2 PROVE AnswerOK'
      <4>1. CASE rc' \in {10, 20}
        BY <4>1 DEF AnswerOK
      <4>2. CASE pc \in Ended /\ UNCHANGED <<rc, argc, argv, argbuf>>
        <5>1. AnswerOK
          BY <3>1, <4>2 DEF IndInv, WhichOK
        <5>2. Arg(1)' = Arg(1)
          BY <4>2 DEF Arg
        <5>3. (HasPathSyntax(Arg(1)))' <=> HasPathSyntax(Arg(1))
          BY <5>2 DEF HasPathSyntax
        <5>4. FitsC' <=> FitsC
          BY <5>2 DEF FitsC
        <5>5. QED BY <1>0, <4>2, <5>1, <5>3, <5>4
              DEF AnswerOK, FoundIsFirst, NoneHasName, Limited
      <4>3. QED BY <2>3, <3>1, <4>1, <4>2
    <3>2. QED BY <1>0, <1>3, <2>1, <2>3, <3>1 DEF WhichOK, Starting, Ended
  <2>4. QED BY <2>2, <2>3
<1>7. QED BY <1>1, <1>4, <1>5, <1>6

\* The entry of the startup code: dos.library, or the reply to Workbench.
LEMMA EntryStep ==
  ASSUME IndInv, OpenDos \/ TakeMessage \/ ReplyMessage \/ Refuse \/ CloseDos,
         UNCHANGED <<search, volume, fixed>>
  PROVE  IndInv'
<1>0. /\ UNCHANGED <<tool, line, i, argc, out, quoted, argv, argbuf, loaded>>
      /\ UNCHANGED <<entry, dup, cwd, lock, disabled>>
  BY DEF OpenDos, TakeMessage, ReplyMessage, Refuse, CloseDos, search, volume, fixed
<1>1. /\ rc' \in {rc, 20} /\ dos' \in BOOLEAN /\ forbid' \in BOOLEAN
      /\ wbmsg' \in {"none", "due", "sent", "taken", "replied"}
      /\ pc' \in {"main", "skip", "reply", "leave", "done"}
  <2>1. CASE OpenDos
    BY <2>1 DEF OpenDos, Goto, Exit, IndInv, TypeOK, StartupTypeOK
  <2>2. CASE TakeMessage \/ ReplyMessage \/ Refuse \/ CloseDos
    BY <2>2 DEF TakeMessage, ReplyMessage, Refuse, CloseDos, Goto, Exit, IndInv, TypeOK,
                StartupTypeOK
  <2>3. QED BY <2>1, <2>2
<1>2. StartupTypeOK'
  BY <1>0, <1>1 DEF IndInv, TypeOK, StartupTypeOK
<1>3. BufferOK'
  <2>1. pc \notin {"word", "nul"} /\ pc' \notin {"word", "nul"} /\ Length' = Length
    BY <1>0, <1>1 DEF OpenDos, TakeMessage, ReplyMessage, Refuse, CloseDos, Length
  <2>2. QED BY <1>0, <2>1 DEF IndInv, BufferOK
<1>4. PhaseOK' /\ HeldOK'
  <2>1. CASE OpenDos
    BY <1>0, <2>1 DEF OpenDos, Goto, Exit, IndInv, PhaseOK, HeldOK, Searching, Reporting,
                      Copying, Ended
  <2>2. CASE TakeMessage
    BY <1>0, <2>2 DEF TakeMessage, Goto, IndInv, PhaseOK, HeldOK, Searching, Reporting,
                      Copying, Ended
  <2>3. CASE ReplyMessage
    BY <1>0, <2>3 DEF ReplyMessage, Goto, IndInv, PhaseOK, HeldOK, Searching, Reporting,
                      Copying, Ended
  <2>4. CASE Refuse
    BY <1>0, <2>4 DEF Refuse, Exit, IndInv, PhaseOK, HeldOK, Searching, Reporting,
                      Copying, Ended
  <2>5. CASE CloseDos
    BY <1>0, <2>5 DEF CloseDos, IndInv, PhaseOK, HeldOK, Searching, Reporting, Copying, Ended
  <2>6. QED BY <2>1, <2>2, <2>3, <2>4, <2>5
<1>5. /\ pc' \in Starting \cup Ended /\ (pc' \in Starting => pc \in Starting)
      /\ pc' \in Ended => \/ rc' = 20 /\ pc \in Starting
                          \/ pc \in Ended /\ rc' = rc
  <2>1. CASE OpenDos \/ TakeMessage \/ ReplyMessage
    BY <2>1 DEF OpenDos, TakeMessage, ReplyMessage, Goto, Exit, Starting, Ended
  <2>2. CASE Refuse \/ CloseDos
    BY <2>2 DEF Refuse, CloseDos, Exit, Starting, Ended
  <2>3. QED BY <2>1, <2>2
<1>6. pc \in Starting => ~informed
  BY DEF IndInv, VolumeOK, Starting, Ended
<1>7. VectorOK' /\ VolumeOK' /\ WhichOK' /\ WhichTypeOK' /\ VolumeTypeOK' /\ VectorTypeOK'
  BY <1>0, <1>5, <1>6, MainFrame
<1>8. TypeOK'
  BY <1>0, <1>1, <1>2, <1>7 DEF IndInv, TypeOK
<1>9. QED BY <1>3, <1>4, <1>7, <1>8 DEF IndInv

\* build_argv: no write is beyond a buffer.
LEMMA ArgvStep ==
  ASSUME IndInv, SkipBlank \/ BeginArg \/ TakeChar \/ LineEnds \/ EndArg \/ CallMain,
         UNCHANGED <<search, volume, fixed>>
  PROVE  IndInv'
<1>0. /\ UNCHANGED <<rc, tool, line, dos, wbmsg, forbid, loaded>>
      /\ UNCHANGED <<entry, dup, cwd, lock, disabled>>
      /\ pc \in {"skip", "word", "nul"} /\ pc' \in {"skip", "word", "nul", "main"}
  <2>1. CASE SkipBlank \/ BeginArg
    BY <2>1 DEF SkipBlank, BeginArg, Goto, search, volume, fixed
  <2>2. CASE TakeChar
    BY <2>2 DEF TakeChar, Goto, search, volume, fixed
  <2>3. CASE LineEnds \/ EndArg \/ CallMain
    BY <2>3 DEF LineEnds, EndArg, CallMain, Goto, startup, search, volume, fixed
  <2>4. QED BY <2>1, <2>2, <2>3
<1>1. /\ line \in Seq(Characters) /\ i \in Nat /\ argc \in 1..(MaxArgs + 1) /\ out \in Nat
      /\ quoted \in BOOLEAN
      /\ argv \in [1..(MaxArgs + 1) -> 0..(CmdLineLen - 1) \cup {NoArg}]
      /\ argbuf \in [0..(CmdLineLen - 1) -> Characters \cup {NUL}]
      /\ out <= CmdLineLen
  BY DEF IndInv, TypeOK, StartupTypeOK
<1>2. /\ Length \in Nat /\ Length <= CmdLineLen - 1 /\ Length' = Length
      /\ i < Length => Here \in Characters
  BY <1>0, <1>1, LengthIs DEF Length
<1>3. /\ i <= Length
      /\ pc = "word" => out <= i
      /\ pc = "nul" => out < i \/ (i = Length /\ out <= i)
      /\ pc \notin {"word", "nul"} => out <= i \/ (i = Length /\ out <= i + 1)
  BY DEF IndInv, BufferOK
<1> DEFINE Bound == /\ i' \in Nat /\ out' \in Nat /\ i' <= Length
                    /\ pc' = "word" => out' <= i'
                    /\ pc' = "nul" => out' < i' \/ (i' = Length /\ out' <= i')
                    /\ pc' \notin {"word", "nul"} => out' <= i' \/ (i' = Length /\ out' <= i' + 1)
           Buffers == /\ argc' \in 1..(MaxArgs + 1) /\ quoted' \in BOOLEAN
                      /\ argv' \in [1..(MaxArgs + 1) -> 0..(CmdLineLen - 1) \cup {NoArg}]
                      /\ argbuf' \in [0..(CmdLineLen - 1) -> Characters \cup {NUL}]
<1>4. Bound /\ Buffers
  <2>1. CASE SkipBlank
    <3>1. /\ i < Length /\ i' = i + 1 /\ pc = "skip"
          /\ UNCHANGED <<pc, argc, out, quoted, argv, argbuf>>
      BY <2>1 DEF SkipBlank
    <3>2. QED BY <1>1, <1>2, <1>3, <3>1
  <2>2. CASE BeginArg
    <3>1. /\ i < Length /\ argc <= MaxArgs /\ argc' = argc + 1 /\ pc = "skip" /\ pc' = "word"
          /\ argv' = [argv EXCEPT ![argc] = out] /\ quoted' = (Here = "quote")
          /\ i' = IF quoted' THEN i + 1 ELSE i
          /\ UNCHANGED <<out, argbuf>>
      BY <2>2 DEF BeginArg, Goto
    <3>2. out <= i /\ out \in 0..(CmdLineLen - 1)
      BY <1>1, <1>2, <1>3, <3>1
    <3>3. quoted' \in BOOLEAN
      <4>1. quoted' = (Here = "quote")
        BY <3>1
      <4>2. QED BY ONLY <4>1
    <3>4. Bound
      <4>1. i' = i \/ i' = i + 1
        BY <3>1
      <4>2. QED BY <1>1, <1>2, <3>1, <3>2, <4>1
    <3>5. argc \in 1..(MaxArgs + 1) /\ argc + 1 \in 1..(MaxArgs + 1)
      BY <1>1, <3>1
    <3>6. argv' \in [1..(MaxArgs + 1) -> 0..(CmdLineLen - 1) \cup {NoArg}]
      BY <1>1, <3>1, <3>2, <3>5
    <3>7. QED BY <1>1, <3>1, <3>3, <3>4, <3>5, <3>6
  <2>3. CASE TakeChar
    <3>1. /\ i < Length /\ i' = i + 1 /\ pc = "word" /\ UNCHANGED <<argc, quoted, argv>>
          /\ \/ pc' = "nul" /\ UNCHANGED <<out, argbuf>>
             \/ pc' = pc /\ argbuf' = [argbuf EXCEPT ![out] = Here] /\ out' = out + 1
             \/ pc' = pc /\ UNCHANGED <<out, argbuf>>
      BY <2>3 DEF TakeChar, Goto
    <3>2. Here \in Characters /\ out \in 0..(CmdLineLen - 1)
      BY <1>1, <1>2, <1>3, <3>1
    <3>3. argbuf' \in [0..(CmdLineLen - 1) -> Characters \cup {NUL}]
      BY <1>1, <3>1, <3>2
    <3>4. Bound
      BY <1>1, <1>2, <1>3, <3>1
    <3>5. QED BY <1>1, <3>1, <3>3, <3>4
  <2>4. CASE LineEnds
    <3>1. i >= Length /\ pc = "word" /\ pc' = "nul" /\ UNCHANGED <<i, argc, out, quoted, argv, argbuf>>
      BY <2>4 DEF LineEnds, Goto, startup
    <3>2. QED BY <1>1, <1>2, <1>3, <3>1
  <2>5. CASE EndArg
    <3>1. /\ pc = "nul" /\ pc' = "skip" /\ UNCHANGED <<i, argc, quoted, argv>>
          /\ \/ argbuf' = [argbuf EXCEPT ![out] = NUL] /\ out' = out + 1
             \/ UNCHANGED <<out, argbuf>>
      BY <2>5 DEF EndArg, Goto
    <3>2. Bound
      BY <1>1, <1>2, <1>3, <3>1
    <3>3. argbuf' \in [0..(CmdLineLen - 1) -> Characters \cup {NUL}]
      BY <1>1, <3>1
    <3>4. QED BY <1>1, <3>1, <3>2, <3>3
  <2>6. CASE CallMain
    <3>1. pc = "skip" /\ pc' = "main" /\ UNCHANGED <<i, argc, out, quoted, argv, argbuf>>
      BY <2>6 DEF CallMain, Goto, startup
    <3>2. QED BY <1>1, <1>2, <1>3, <3>1
  <2>7. QED BY <2>1, <2>2, <2>3, <2>4, <2>5, <2>6
<1>5. BufferOK'
  BY <1>2, <1>4 DEF BufferOK
<1>6. StartupTypeOK'
  <2>1. i' \in 0..(CmdLineLen - 1) /\ out' \in 0..CmdLineLen
    <3>1. \A a, b \in Nat : /\ a <= Length
                            /\ b <= a \/ b < a \/ (a = Length /\ b <= a + 1)
                            => a \in 0..(CmdLineLen - 1) /\ b \in 0..CmdLineLen
      BY <1>2
    <3>2. /\ i' \in Nat /\ out' \in Nat /\ i' <= Length
          /\ out' <= i' \/ out' < i' \/ (i' = Length /\ out' <= i' + 1)
      BY <1>4
    <3>3. QED BY <3>1, <3>2
  <2>2. QED BY <1>0, <1>4, <2>1 DEF IndInv, TypeOK, StartupTypeOK
<1>7. PhaseOK' /\ HeldOK'
  BY <1>0 DEF IndInv, PhaseOK, HeldOK, Searching, Reporting, Copying, Ended
<1>8. VectorOK' /\ VolumeOK' /\ WhichOK' /\ WhichTypeOK' /\ VolumeTypeOK' /\ VectorTypeOK'
  <2>1. pc' \in Starting /\ pc' \notin Ended /\ pc \in Starting
    BY <1>0 DEF Starting, Ended
  <2>2. QED BY <1>0, <2>1, MainFrame
<1>9. TypeOK'
  BY <1>0, <1>6, <1>8 DEF IndInv, TypeOK
<1>10. QED BY <1>5, <1>7, <1>8, <1>9 DEF IndInv

\* main of a tool whose work is not told apart.
LEMMA OtherMainStep ==
  ASSUME IndInv, ArglessMain \/ AnyMain, UNCHANGED <<search, volume, fixed>>
  PROVE  IndInv'
<1>0. /\ pc = "main" /\ pc' = "return" /\ rc' \in {0, 5, 10, 20} /\ UNCHANGED <<tool, startup>>
      /\ tool \in {"argless", "any"} /\ UNCHANGED <<entry, dup, cwd, lock, disabled>>
  BY DEF ArglessMain, AnyMain, Return, search, volume, fixed
<1>1. /\ StartupTypeOK' /\ BufferOK' /\ PhaseOK' /\ HeldOK'
  BY <1>0 DEF IndInv, TypeOK, StartupTypeOK, BufferOK, PhaseOK, HeldOK, startup, Length,
              Searching, Reporting, Copying, Ended
<1>2. VectorOK' /\ VolumeOK' /\ WhichOK' /\ WhichTypeOK' /\ VolumeTypeOK' /\ VectorTypeOK'
  <2>1. pc' \notin Starting /\ pc' \in Ended
    BY <1>0 DEF Starting, Ended
  <2>2. QED BY <1>0, <2>1, MainFrame
<1>3. TypeOK'
  BY <1>0, <1>1, <1>2 DEF IndInv, TypeOK
<1>4. QED BY <1>1, <1>2, <1>3 DEF IndInv

\* What the tool sees of a step outside: nothing.  An invariant of main that
\* speaks of the arguments survives it.
LEMMA SearchFrame ==
  ASSUME IndInv, UNCHANGED <<pc, rc, tool, argc, argv, argbuf, search>>
  PROVE  WhichOK' /\ WhichTypeOK'
<1>0. UNCHANGED <<path, entries, index, component, visited, probe, entry, dup, cwd, answer,
                  cycle, failed>>
  BY DEF search
<1>1. Arg(1)' = Arg(1)
  BY DEF Arg
<1>2. (HasPathSyntax(Arg(1)))' <=> HasPathSyntax(Arg(1))
  BY <1>1 DEF HasPathSyntax
<1>3. FitsC' <=> FitsC
  BY <1>1 DEF FitsC
<1>4. SearchOK => SearchOK'
  BY <1>0, <1>2, <1>3 DEF SearchOK, WalkOK, ComponentOK, LastOK, PassedNone
<1>5. AnswerOK => AnswerOK'
  BY <1>0, <1>2, <1>3 DEF AnswerOK, FoundIsFirst, NoneHasName, Limited
<1>6. QED BY <1>0, <1>4, <1>5 DEF IndInv, TypeOK, WhichTypeOK, WhichOK, PathOK

\* The same of the volume reports.
LEMMA VolumeFrame ==
  ASSUME IndInv, UNCHANGED <<pc, rc, tool, volume>>
  PROVE  VolumeOK' /\ VolumeTypeOK'
<1>0. UNCHANGED <<info, informed, lock, bytes, sectors>>
  BY DEF volume
<1>1. FiguresTold => FiguresTold'
  BY <1>0 DEF FiguresTold, BytesExactOrOverflow
<1>2. QED BY <1>0, <1>1 DEF IndInv, TypeOK, VolumeTypeOK, VolumeOK

\* Workbench sends its message, or unloads a program that has returned.
LEMMA WorkbenchStep ==
  ASSUME IndInv, Workbench, UNCHANGED <<search, volume, fixed>>
  PROVE  IndInv'
<1>0. /\ UNCHANGED <<pc, rc, tool, line, i, argc, out, quoted, argv, argbuf, dos, forbid>>
      /\ UNCHANGED <<entry, dup, cwd, lock, table, upsets, rows, disabled, recorded, moment>>
      /\ \/ wbmsg = "due" /\ wbmsg' = "sent" /\ loaded' = loaded
         \/ wbmsg = "replied" /\ wbmsg' = wbmsg /\ ~forbid /\ loaded' = FALSE
  BY DEF Workbench, SendMessage, UnloadSeg, search, volume, fixed
<1>1. StartupTypeOK' /\ VectorTypeOK'
  BY <1>0 DEF IndInv, TypeOK, StartupTypeOK, VectorTypeOK
<1>2. PhaseOK' /\ HeldOK'
  BY <1>0 DEF IndInv, PhaseOK, HeldOK
<1>3. BufferOK' /\ VectorOK'
  BY <1>0 DEF IndInv, BufferOK, VectorOK, Length
<1>4. VolumeOK' /\ VolumeTypeOK' /\ WhichOK' /\ WhichTypeOK'
  BY <1>0, SearchFrame, VolumeFrame
<1>5. QED BY <1>0, <1>1, <1>2, <1>3, <1>4 DEF IndInv, TypeOK

\* An interrupt or another task changes the table, but not while it is copied.
LEMMA TableStep ==
  ASSUME IndInv, TableChanges, UNCHANGED <<search, volume>>
  PROVE  IndInv'
<1>0. /\ UNCHANGED <<pc, rc, tool, line, i, argc, out, quoted, argv, argbuf, dos, forbid>>
      /\ UNCHANGED <<wbmsg, loaded, rows, disabled, recorded, moment, entry, dup, cwd, lock>>
      /\ tool # "ROMInfo" /\ ~disabled /\ upsets < MaxUpsets /\ upsets' = upsets + 1
  BY DEF TableChanges, startup, search, volume
<1>1. table' \in Tables
  <2>1. PICK k \in 1..TableSize : table' = [table EXCEPT ![k] = 1 - table[k]]
    BY DEF TableChanges
  <2>2. table \in [1..TableSize -> Fields]
    BY DEF IndInv, TypeOK, VectorTypeOK, Tables
  <2>3. 1 - table[k] \in Fields
    BY <2>2 DEF Fields
  <2>4. QED BY <2>1, <2>2, <2>3 DEF Tables
<1>2. StartupTypeOK' /\ VectorTypeOK'
  <2>1. upsets' \in 0..MaxUpsets
    BY <1>0 DEF IndInv, TypeOK, VectorTypeOK
  <2>2. QED BY <1>0, <1>1, <2>1 DEF IndInv, TypeOK, StartupTypeOK, VectorTypeOK
<1>3. PhaseOK' /\ HeldOK' /\ BufferOK'
  BY <1>0 DEF IndInv, PhaseOK, HeldOK, BufferOK, Length
<1>4. VectorOK'
  BY <1>0 DEF IndInv, VectorOK
<1>5. VolumeOK' /\ VolumeTypeOK' /\ WhichOK' /\ WhichTypeOK'
  BY <1>0, SearchFrame, VolumeFrame
<1>6. QED BY <1>0, <1>2, <1>3, <1>4, <1>5 DEF IndInv, TypeOK

\* main of the tools that copy a table.
LEMMA VectorStep ==
  ASSUME IndInv, Vector, UNCHANGED <<search, volume>>
  PROVE  IndInv'
<1>0. /\ UNCHANGED <<tool, line, i, argc, out, quoted, argv, argbuf, dos, wbmsg, loaded>>
      /\ UNCHANGED <<table, upsets, path, entries, index, component, visited, probe, entry, dup>>
      /\ UNCHANGED <<cwd, answer, cycle, failed, info, informed, lock, bytes, sectors>>
  BY DEF Vector, FindTable, StopOthers, CopyField, Restore, PrintTable, startup, search,
         volume, fixed
<1>1. tool \in VectorTools /\ tool # "Which" /\ tool \notin VolumeTools /\ ~informed
  <2>1. tool \in VectorTools
    BY DEF Vector, FindTable, StopOthers, CopyField, Restore, PrintTable, IndInv, PhaseOK,
           Copying
  <2>2. tool # "Which" /\ tool \notin VolumeTools
    BY <2>1 DEF VectorTools, VolumeTools
  <2>3. QED BY <2>1, <2>2 DEF IndInv, VolumeOK
<1>2. /\ guard.forbids \in BOOLEAN /\ guard.disables \in BOOLEAN
      /\ guard.disables <=> tool # "ROMInfo"
      /\ guard.missing \in {5, 20}
  BY <1>1, GuardIs
<1>3. /\ rows \in Seq(Fields) /\ Len(rows) \in Nat /\ Len(rows) <= TableSize
      /\ table \in [1..TableSize -> Fields] /\ moment \in [1..TableSize -> Fields]
      /\ \A k \in 1..Len(rows) : rows[k] = moment[k]
  BY DEF IndInv, TypeOK, VectorTypeOK, VectorOK, Tables
<1> DEFINE Rest == /\ PhaseOK' /\ HeldOK' /\ VectorOK' /\ VectorTypeOK'
                   /\ rc' \in {Running, 0, 5, 10, 20} /\ forbid' \in BOOLEAN
                   /\ pc' \in {"stop", "copy", "print", "return"}
<1>4. Rest
  <2>1. CASE FindTable
    <3>1. /\ pc = "main" /\ UNCHANGED <<startup, fixed>>
          /\ \/ pc' = "stop" /\ rc' = rc
             \/ pc' = "return" /\ rc' = guard.missing
      BY <2>1 DEF FindTable, Goto, Return
    <3>2. PhaseOK' /\ HeldOK' /\ rc' \in {Running, 0, 5, 10, 20}
      BY <1>0, <1>1, <1>2, <3>1 DEF IndInv, TypeOK, StartupTypeOK, PhaseOK, HeldOK, startup,
         fixed, Searching, Reporting, Copying, Ended
    <3>3. VectorOK'
      BY <1>0, <1>2, <3>1 DEF IndInv, VectorOK, Starting, Ended, fixed
    <3>4. QED BY <1>0, <3>1, <3>2, <3>3 DEF IndInv, TypeOK, StartupTypeOK, VectorTypeOK,
                                            startup, fixed
  <2>2. CASE StopOthers
    <3>1. /\ pc = "stop" /\ pc' = "copy" /\ rc' = rc /\ forbid' = guard.forbids
          /\ disabled' = guard.disables /\ moment' = table /\ UNCHANGED <<rows, recorded>>
      BY <2>2 DEF StopOthers, Goto
    <3>2. rows = <<>> /\ Len(rows) = 0 /\ \A k \in 1..0 : FALSE
      BY <3>1 DEF IndInv, VectorOK
    <3>3. PhaseOK' /\ HeldOK' /\ rc' \in {Running, 0, 5, 10, 20}
      BY <1>0, <1>1, <3>1 DEF IndInv, TypeOK, StartupTypeOK, PhaseOK, HeldOK,
         Searching, Reporting, Copying, Ended
    <3>4. disabled' \in BOOLEAN /\ (disabled' <=> tool # "ROMInfo")
      BY <1>2, <3>1
    <3>5. VectorOK'
      BY <1>0, <3>1, <3>2, <3>4 DEF VectorOK, Starting, Ended
    <3>6. VectorTypeOK'
      BY <1>0, <3>1, <3>4 DEF IndInv, TypeOK, VectorTypeOK
    <3>7. QED BY <1>2, <3>1, <3>3, <3>5, <3>6
  <2>3. CASE CopyField
    <3>1. /\ pc = "copy" /\ Len(rows) < TableSize
          /\ rows' = Append(rows, table[Len(rows) + 1])
          /\ UNCHANGED <<pc, rc, startup, disabled, recorded, moment>>
      BY <2>3 DEF CopyField
    <3>2. table = moment /\ (tool # "ROMInfo" => disabled) /\ Len(rows) + 1 \in 1..TableSize
      BY <1>3, <3>1 DEF IndInv, VectorOK
    <3>3. table[Len(rows) + 1] \in Fields
      BY <1>3, <3>2
    <3> DEFINE f == table[Len(rows) + 1]
    <3> HIDE DEF f
    <3>4. /\ Append(rows, f) \in Seq(Fields) /\ Len(Append(rows, f)) = Len(rows) + 1
          /\ \A k \in 1..Len(rows) : Append(rows, f)[k] = rows[k]
          /\ Append(rows, f)[Len(rows) + 1] = f
      BY <1>3, <3>3, AppendProperties DEF f
    <3>5. rows' = Append(rows, f) /\ f = moment[Len(rows) + 1]
      BY <3>1, <3>2 DEF f
    <3>6. \A k \in 1..(Len(rows) + 1) : k \in 1..Len(rows) \/ k = Len(rows) + 1
      BY <1>3
    <3>7. \A k \in 1..Len(rows') : rows'[k] = moment'[k]
      BY <1>3, <3>1, <3>4, <3>5, <3>6
    <3>8. PhaseOK' /\ HeldOK' /\ rc' \in {Running, 0, 5, 10, 20} /\ forbid' \in BOOLEAN
      BY <1>0, <3>1 DEF IndInv, TypeOK, StartupTypeOK, PhaseOK, HeldOK, startup
    <3>9. VectorOK'
      BY <1>0, <3>1, <3>2, <3>7 DEF VectorOK, Starting, Ended
    <3>10. VectorTypeOK'
      <4>1. rows' \in Seq(Fields) /\ Len(rows') <= TableSize
        BY <1>3, <3>2, <3>4, <3>5
      <4>2. QED BY <1>0, <3>1, <4>1 DEF IndInv, TypeOK, VectorTypeOK
    <3>11. QED BY <3>1, <3>8, <3>9, <3>10
  <2>4. CASE Restore
    <3>1. /\ pc = "copy" /\ Len(rows) = TableSize /\ pc' = "print" /\ rc' = rc
          /\ forbid' = FALSE /\ disabled' = FALSE /\ UNCHANGED <<rows, recorded, moment>>
      BY <2>4 DEF Restore, Goto
    <3>2. PhaseOK' /\ HeldOK' /\ rc' \in {Running, 0, 5, 10, 20} /\ forbid' \in BOOLEAN
      BY <1>0, <1>1, <3>1 DEF IndInv, TypeOK, StartupTypeOK, PhaseOK, HeldOK,
         Searching, Reporting, Copying, Ended
    <3>3. VectorOK'
      BY <1>0, <1>3, <3>1 DEF VectorOK, Starting, Ended
    <3>4. VectorTypeOK'
      BY <1>0, <3>1 DEF IndInv, TypeOK, VectorTypeOK
    <3>5. QED BY <3>1, <3>2, <3>3, <3>4
  <2>5. CASE PrintTable
    <3>1. /\ pc = "print" /\ pc' = "return" /\ rc' = 0
          /\ recorded' = (tool = "Alerts" /\ \E k \in DOMAIN rows : rows[k] # 0)
          /\ UNCHANGED <<startup, rows, disabled, moment>>
      BY <2>5 DEF PrintTable, Return
    <3>2. recorded' <=> tool = "Alerts" /\ \E k \in DOMAIN rows : rows[k] # 0
      BY <3>1, Zenon
    <3>3. recorded' \in BOOLEAN
      <4>1. recorded' = (tool = "Alerts" /\ \E k \in DOMAIN rows : rows[k] # 0)
        BY <3>1
      <4>2. QED BY ONLY <4>1
    <3>4. Len(rows) = TableSize
      BY <3>1 DEF IndInv, VectorOK
    <3>5. DOMAIN rows = 1..TableSize /\ rows \in [1..TableSize -> Fields]
      BY <1>3, <3>4
    <3>6. rows = moment
      BY <1>3, <3>4, <3>5
    <3>7. PhaseOK' /\ HeldOK' /\ rc' \in {Running, 0, 5, 10, 20} /\ forbid' \in BOOLEAN
      BY <1>0, <1>1, <3>1 DEF IndInv, TypeOK, StartupTypeOK, PhaseOK, HeldOK, startup,
         Searching, Reporting, Copying, Ended
    <3>8. VectorOK'
      BY <1>0, <1>3, <3>1, <3>2, <3>5, <3>6 DEF VectorOK, Starting, Ended
    <3>9. VectorTypeOK'
      BY <1>0, <3>1, <3>3 DEF IndInv, TypeOK, VectorTypeOK
    <3>10. QED BY <3>1, <3>7, <3>8, <3>9
  <2>6. QED BY <2>1, <2>2, <2>3, <2>4, <2>5 DEF Vector
<1>5. WhichOK' /\ VolumeOK'
  <2>1. PathOK'
    BY <1>0 DEF IndInv, WhichOK, PathOK
  <2>2. WhichOK'
    BY <1>0, <1>1, <1>4, <2>1 DEF WhichOK, Starting, Searching
  <2>3. pc \notin Ended
    BY DEF Vector, FindTable, StopOthers, CopyField, Restore, PrintTable, Ended
  <2>4. sectors' = 0
    BY <1>0, <2>3 DEF IndInv, VolumeOK
  <2>5. QED BY <1>0, <1>1, <2>2, <2>4 DEF VolumeOK
<1>6. BufferOK'
  <2>1. pc \notin {"word", "nul"} /\ pc' \notin {"word", "nul"} /\ Length' = Length
    BY <1>0, <1>4 DEF Vector, FindTable, StopOthers, CopyField, Restore, PrintTable, Length
  <2>2. QED BY <1>0, <2>1 DEF IndInv, BufferOK
<1>7. TypeOK'
  BY <1>0, <1>4 DEF IndInv, TypeOK, StartupTypeOK, WhichTypeOK, VolumeTypeOK
<1>8. QED BY <1>4, <1>5, <1>6, <1>7 DEF IndInv

-----------------------------------------------------------------------------
\* A negative field counts as 0.
LEMMA UnsignedIs ==
  ASSUME NEW n \in Int
  PROVE  Unsigned(n) \in Nat /\ Unsigned(n) = IF n >= 0 THEN n ELSE 0
<1>1. \E m \in {n, 0} : \A k \in {n, 0} : k <= m
  BY Z3
<1>2. Max({n, 0}) \in {n, 0} /\ \A k \in {n, 0} : k <= Max({n, 0})
  BY <1>1 DEF Max
<1>3. QED BY <1>2 DEF Unsigned

\* Multiplication keeps the order.
LEMMA TimesMonotone ==
  ASSUME NEW a \in Nat, NEW b \in Nat, NEW c \in Nat, a <= b
  PROVE  a * c <= b * c /\ a * c \in Nat /\ b * c \in Nat
OBVIOUS

\* put_byte_count prints the product if it fits a word, and OVERFLOW otherwise.
LEMMA ByteCountIs ==
  ASSUME NEW b \in Nat, NEW s \in Nat
  PROVE  PutByteCount(b, s) = IF b * s > MaxWord THEN Overflow ELSE b * s
<1>1. CASE s = 0
  <2>1. b * s = 0
    BY <1>1
  <2>2. QED BY <1>1, <2>1 DEF PutByteCount
<1>2. CASE s # 0
  <2> DEFINE q == MaxWord \div s
             r == MaxWord % s
  <2>1. q \in Nat /\ r \in Nat /\ r < s /\ MaxWord = s * q + r
    BY <1>2
  <2> HIDE DEF q, r
  <2>2. CASE b > q
    <3>1. q + 1 <= b /\ q + 1 \in Nat
      BY <2>1, <2>2
    <3>2. (q + 1) * s <= b * s /\ b * s \in Nat
      BY <3>1, TimesMonotone
    <3>3. (q + 1) * s = s * q + s
      BY <2>1
    <3>4. b * s > MaxWord
      BY <2>1, <3>2, <3>3
    <3>5. QED BY <1>2, <2>2, <3>4 DEF PutByteCount, q
  <2>3. CASE ~(b > q)
    <3>1. b <= q
      BY <2>1, <2>3
    <3>2. b * s <= q * s /\ b * s \in Nat /\ q * s \in Nat
      BY <2>1, <3>1, TimesMonotone
    <3>3. q * s = s * q
      BY <2>1
    <3>4. b * s <= MaxWord /\ ~(b * s > MaxWord)
      BY <2>1, <3>2, <3>3
    <3>5. (b * s) % (MaxWord + 1) = b * s
      <4> DEFINE x == b * s
      <4>1. x \in Nat /\ x <= MaxWord
        BY <3>2, <3>4
      <4> HIDE DEF x
      <4>2. x % (MaxWord + 1) = x
        BY <4>1
      <4>3. QED BY <4>2 DEF x
    <3>6. QED BY <2>3, <3>4, <3>5 DEF PutByteCount, q
  <2>4. QED BY <2>2, <2>3
<1>3. QED BY <1>1, <1>2

\* The fields of an InfoData are numbers.
LEMMA InfoIs ==
  ASSUME NEW d \in InfoData \cup {Zero}
  PROVE  d.blocks \in Int /\ d.used \in Int /\ d.size \in Int
<1>1. Longs \subseteq Int
  BY DEF Longs
<1>2. CASE d = Zero
  BY <1>2 DEF Zero
<1>3. CASE d \in InfoData
  <2>1. d.blocks \in Longs /\ d.used \in Longs /\ d.size \in Longs
    BY <1>3 DEF InfoData
  <2>2. QED BY <1>1, <2>1
<1>4. QED BY <1>2, <1>3

\* The free blocks are a part of all blocks.
LEMMA FreeBlocksIs ==
  ASSUME NEW d, d.blocks \in Int, d.used \in Int
  PROVE  /\ Unsigned(d.blocks) \in Nat
         /\ FreeBlocks(d) \in Nat /\ FreeBlocks(d) <= Unsigned(d.blocks)
         /\ d.used >= 0 /\ d.used <= d.blocks => FreeBlocks(d) + d.used = d.blocks
<1>1. /\ Unsigned(d.blocks) \in Nat /\ Unsigned(d.used) \in Nat
      /\ Unsigned(d.blocks) = IF d.blocks >= 0 THEN d.blocks ELSE 0
      /\ Unsigned(d.used) = IF d.used >= 0 THEN d.used ELSE 0
  BY UnsignedIs
<1> DEFINE n == Unsigned(d.blocks) - Unsigned(d.used)
<1>2. n \in Int
  BY <1>1
<1>3. Unsigned(n) \in Nat /\ Unsigned(n) = IF n >= 0 THEN n ELSE 0
  BY <1>2, UnsignedIs
<1>4. FreeBlocks(d) = Unsigned(n)
  BY DEF FreeBlocks
<1>5. QED BY <1>1, <1>3, <1>4

\* DiskCheck finds no problem with exactly the figures that FloppyTest accepts.
LEMMA ProblemsIs ==
  ASSUME NEW d, d.blocks \in Int, d.used \in Int, d.size \in Int
  PROVE  Problems(d) = {} <=> MediaValid(d)
<1>1. Problems(d) = {} <=> /\ ~(d.blocks < 0) /\ ~(d.used < 0) /\ ~(d.size < 0) /\ ~(d.size <= 0)
                           /\ ~(d.blocks <= 0)
                           /\ ~(d.blocks >= 0 /\ d.used >= 0 /\ d.used > d.blocks)
  BY DEF Problems, Where
<1>2. QED BY <1>1 DEF MediaValid

\* The products that DiskInfo prints.
LEMMA DiskInfoTold ==
  ASSUME IndInv, DiskInfo
  PROVE  /\ BytesExactOrOverflow' /\ rc' \in {0, 5}
         /\ bytes' \in [total : Overflow..MaxWord, free : Overflow..MaxWord]
<1> DEFINE T == Unsigned(info.blocks)
           F == FreeBlocks(info)
           s == Unsigned(info.size)
           True(b) == IF b * s > MaxWord THEN Overflow ELSE b * s
<1>1. /\ bytes' = [total |-> PutByteCount(T, s), free |-> PutByteCount(F, s)]
      /\ rc' = (IF Overflow \in {bytes'.total, bytes'.free} THEN 5 ELSE 0)
      /\ info' = info
  BY DEF DiskInfo, Return
<1>2. T \in Nat /\ F \in Nat /\ F <= T /\ s \in Nat
  <2>1. info.blocks \in Int /\ info.used \in Int /\ info.size \in Int
    BY InfoIs DEF IndInv, TypeOK, VolumeTypeOK
  <2>2. QED BY <2>1, FreeBlocksIs, UnsignedIs
<1> HIDE DEF T, F, s
<1>3. PutByteCount(T, s) = True(T) /\ PutByteCount(F, s) = True(F)
  BY <1>2, ByteCountIs
<1>4. F * s <= T * s /\ F * s \in Nat /\ T * s \in Nat
  BY <1>2, TimesMonotone
<1>5. /\ True(F) = Overflow => True(T) = Overflow
      /\ True(T) \in Overflow..MaxWord /\ True(F) \in Overflow..MaxWord
  <2> DEFINE x == F * s
             y == T * s
  <2>1. x \in Nat /\ y \in Nat /\ x <= y
    BY <1>4
  <2> HIDE DEF x, y
  <2>2. /\ (IF x > MaxWord THEN Overflow ELSE x) = Overflow
             => (IF y > MaxWord THEN Overflow ELSE y) = Overflow
        /\ (IF x > MaxWord THEN Overflow ELSE x) \in Overflow..MaxWord
        /\ (IF y > MaxWord THEN Overflow ELSE y) \in Overflow..MaxWord
    BY <2>1 DEF Overflow
  <2>3. QED BY <2>2 DEF x, y
<1> HIDE DEF True
<1>6. bytes' = [total |-> True(T), free |-> True(F)]
  BY <1>1, <1>3
<1>7. bytes'.total = True(T) /\ bytes'.free = True(F)
  BY <1>6
<1>8. /\ bytes' \in [total : Overflow..MaxWord, free : Overflow..MaxWord]
      /\ rc' = 5 <=> bytes'.total = Overflow
      /\ rc' \in {0, 5}
  BY <1>1, <1>5, <1>6, <1>7
<1>9. BytesExactOrOverflow'
  BY <1>1, <1>6, <1>8 DEF BytesExactOrOverflow, True, T, F, s
<1>10. QED BY <1>8, <1>9

\* main of the volume reports.
LEMMA VolumeStep ==
  ASSUME IndInv, Volume, UNCHANGED <<search, fixed>>
  PROVE  IndInv'
<1>0. /\ UNCHANGED <<tool, line, i, argc, out, quoted, argv, argbuf, dos, wbmsg, loaded, forbid>>
      /\ UNCHANGED <<path, entries, index, component, visited, probe, entry, dup, cwd, answer>>
      /\ UNCHANGED <<cycle, failed, table, upsets, rows, disabled, recorded, moment>>
  BY DEF Volume, VolumeArgs, LockPath, ReadInfo, DiskInfo, DiskCheck, FloppyTest, TrackInfo,
         startup, search, fixed
<1>1. /\ pc \in {"main", "lock", "info", "report"} /\ pc \notin Ended
      /\ tool \in VolumeTools /\ tool # "Which" /\ tool \notin VectorTools
  <2>1. pc \in {"main", "lock", "info", "report"} /\ tool \in VolumeTools
    BY DEF Volume, VolumeArgs, LockPath, ReadInfo, DiskInfo, DiskCheck, FloppyTest, TrackInfo,
           IndInv, PhaseOK, Reporting
  <2>2. QED BY <2>1 DEF VectorTools, VolumeTools, Ended
<1>2. /\ info \in InfoData \cup {Zero} /\ info.blocks \in Int /\ info.used \in Int
      /\ info.size \in Int /\ rc = Running /\ sectors = 0
  BY <1>1, InfoIs DEF IndInv, TypeOK, VolumeTypeOK, VolumeOK, PhaseOK
<1>3. /\ rc' \in {Running, 0, 5, 10} /\ pc' \in {"lock", "info", "report", "return"}
      /\ pc' # "return" => rc' = Running
      /\ lock' \in BOOLEAN /\ (lock' => pc' = "info")
      /\ informed' \in BOOLEAN /\ info' \in InfoData \cup {Zero}
      /\ sectors' \in Nat /\ (pc' # "return" => sectors' = 0)
      /\ bytes' \in [total : Overflow..MaxWord, free : Overflow..MaxWord]
      /\ informed' => pc' \in {"report", "return"} /\ (pc' = "return" => FiguresTold')
  <2>0. /\ lock \in BOOLEAN /\ informed \in BOOLEAN /\ (lock => pc = "info")
        /\ bytes \in [total : Overflow..MaxWord, free : Overflow..MaxWord]
        /\ informed => pc \in {"report"} \cup Ended
    BY DEF IndInv, TypeOK, VolumeTypeOK, HeldOK, VolumeOK
  <2>1. CASE VolumeArgs
    <3>1. /\ pc = "main" /\ UNCHANGED <<info, informed, lock, bytes, sectors>>
          /\ \/ pc' = "return" /\ rc' = 10
             \/ pc' = "lock" /\ rc' = rc
      BY <2>1 DEF VolumeArgs, Return, Goto, volume
    <3>2. QED BY <1>2, <2>0, <3>1 DEF Ended
  <2>2. CASE LockPath
    <3>1. /\ pc = "lock" /\ UNCHANGED <<info, informed, bytes, sectors>>
          /\ \/ lock' = TRUE /\ pc' = "info" /\ rc' = rc
             \/ lock' = lock /\ pc' = "return" /\ rc' = 5
      BY <2>2 DEF LockPath, Return, Goto
    <3>2. ~informed /\ lock = FALSE
      BY <2>0, <3>1 DEF Ended
    <3>3. lock' \in BOOLEAN /\ (lock' => pc' = "info")
      BY <3>1, <3>2
    <3>4. QED BY <1>2, <2>0, <3>1, <3>2, <3>3
  <2>3. CASE ReadInfo
    <3>1. /\ pc = "info" /\ lock' = FALSE /\ UNCHANGED <<bytes, sectors>>
          /\ \/ info' \in InfoData /\ informed' = TRUE /\ pc' = "report" /\ rc' = rc
             \/ UNCHANGED <<info, informed>> /\ pc' = "return" /\ rc' = 5
      BY <2>3 DEF ReadInfo, Return, Goto
    <3>2. ~informed
      BY <2>0, <3>1 DEF Ended
    <3>3. informed' \in BOOLEAN /\ (informed' => pc' = "report")
      <4>1. CASE informed' = TRUE /\ pc' = "report"
        BY <4>1
      <4>2. CASE informed' = informed
        BY <2>0, <3>2, <4>2
      <4>3. QED BY <3>1, <4>1, <4>2
    <3>4. QED BY <1>2, <2>0, <3>1, <3>3
  <2>4. CASE DiskInfo
    <3>1. /\ pc = "report" /\ tool = "DiskInfo" /\ pc' = "return"
          /\ UNCHANGED <<info, informed, lock, sectors, tool>>
      BY <2>4 DEF DiskInfo, Return
    <3>2. /\ BytesExactOrOverflow' /\ rc' \in {0, 5}
          /\ bytes' \in [total : Overflow..MaxWord, free : Overflow..MaxWord]
      BY <2>4, DiskInfoTold
    <3>3. FiguresTold'
      BY <3>1, <3>2 DEF FiguresTold
    <3>4. QED BY <1>2, <2>0, <3>1, <3>2, <3>3
  <2>5. CASE DiskCheck \/ FloppyTest
    <3>1. /\ pc = "report" /\ tool \in {"DiskCheck", "FloppyTest"} /\ pc' = "return"
          /\ UNCHANGED <<info, informed, lock, bytes, sectors, tool>>
          /\ rc' = (IF Problems(info) = {} THEN 0 ELSE 5) \/ rc' = (IF MediaValid(info) THEN 0 ELSE 5)
      BY <2>5 DEF DiskCheck, FloppyTest, Return, volume
    <3>2. Problems(info) = {} <=> MediaValid(info)
      BY <1>2, ProblemsIs
    <3>3. MediaValid(info) => FreeBlocks(info) + info.used = info.blocks
      <4>1. MediaValid(info) => info.used >= 0 /\ info.used <= info.blocks
        BY DEF MediaValid
      <4>2. QED BY <1>2, <4>1, FreeBlocksIs
    <3>4. rc' \in {0, 5} /\ (rc' = 0 <=> MediaValid(info))
      BY <3>1, <3>2
    <3>5. FiguresTold'
      BY <3>1, <3>2, <3>3, <3>4 DEF FiguresTold
    <3>6. QED BY <1>2, <2>0, <3>1, <3>4, <3>5
  <2>6. CASE TrackInfo
    <3>1. /\ pc = "report" /\ tool = "TrackInfo" /\ pc' = "return"
          /\ UNCHANGED <<info, informed, lock, bytes, tool>>
          /\ \/ (info.blocks <= 0 \/ info.size <= 0) /\ rc' = 5 /\ sectors' = sectors
             \/ rc' = 0 /\ sectors' = Geometry(info)
      BY <2>6 DEF TrackInfo, Return
    <3>2. Geometry(info) = 0 \/ (Geometry(info) = 11 /\ info.blocks = 1760)
                             \/ (Geometry(info) = 22 /\ info.blocks = 3520)
      BY DEF Geometry
    <3>3. sectors' \in Nat /\ (sectors' # 0 => 80 * 2 * sectors' = info.blocks)
      <4>1. CASE sectors' = 0
        BY <4>1
      <4>2. CASE sectors' = 11 /\ info.blocks = 1760
        BY <4>2
      <4>3. CASE sectors' = 22 /\ info.blocks = 3520
        BY <4>3
      <4>4. QED BY <1>2, <3>1, <3>2, <4>1, <4>2, <4>3
    <3>4. MediaValid(info) => rc' = 0
      BY <1>2, <3>1 DEF MediaValid
    <3>5. FiguresTold'
      BY <3>1, <3>3, <3>4 DEF FiguresTold
    <3>6. QED BY <1>2, <2>0, <3>1, <3>3, <3>5
  <2>7. QED BY <2>1, <2>2, <2>3, <2>4, <2>5, <2>6 DEF Volume
<1>4. VolumeOK'
  BY <1>0, <1>1, <1>3 DEF VolumeOK, Ended
<1>5. TypeOK'
  BY <1>0, <1>3 DEF IndInv, TypeOK, StartupTypeOK, WhichTypeOK, VolumeTypeOK, VectorTypeOK
<1>6. PhaseOK' /\ HeldOK'
  <2>1. wbmsg = "none" /\ ~forbid /\ ~disabled /\ ~entry /\ ~dup /\ cwd = Home /\ loaded
    BY <1>1 DEF IndInv, TypeOK, StartupTypeOK, PhaseOK, HeldOK
  <2>2. QED BY <1>0, <1>1, <1>3, <2>1
        DEF PhaseOK, HeldOK, Searching, Reporting, Copying, Ended
<1>7. VectorOK'
  BY <1>0, <1>1, <1>3 DEF IndInv, VectorOK, Starting, Ended
<1>8. WhichOK'
  <2>1. PathOK'
    BY <1>0 DEF IndInv, WhichOK, PathOK
  <2>2. QED BY <1>0, <1>1, <1>3, <2>1 DEF WhichOK, Starting, Searching
<1>9. BufferOK'
  <2>1. pc \notin {"word", "nul"} /\ pc' \notin {"word", "nul"} /\ Length' = Length
    BY <1>0, <1>1, <1>3 DEF Length
  <2>2. QED BY <1>0, <2>1 DEF IndInv, BufferOK
<1>10. QED BY <1>4, <1>5, <1>6, <1>7, <1>8, <1>9 DEF IndInv

-----------------------------------------------------------------------------
\* The numbers of a search.
LEMMA PathIs ==
  ASSUME IndInv
  PROVE  /\ path.length \in Nat /\ path.length <= MaxPath
         /\ path.last \in Nat /\ path.last <= path.length
         /\ path.locks \subseteq 1..path.length
         /\ InC \in Nat /\ InC > path.length /\ InC > MaxPath
         /\ index \in Nat /\ index <= MaxPathEntries
         /\ component \in Nat /\ component <= MaxPath
         /\ visited \in [0..(MaxPathEntries - 1) -> 0..MaxPath]
         /\ \A p \in entries : /\ p \in Nat
                               /\ p = 0 \/ p = InC \/ (p \in path.locks /\ p >= 1 /\ p <= path.length)
<1>1. path \in [length : 0..MaxPath, last : 0..MaxPath, locks : SUBSET (1..MaxPath)] /\ PathOK
  BY DEF IndInv, TypeOK, WhichTypeOK, WhichOK
<1>2. /\ path.length \in Nat /\ path.length <= MaxPath
      /\ path.last \in Nat /\ path.last <= path.length
      /\ path.locks \subseteq 1..path.length
  BY <1>1 DEF PathOK
<1>3. InC \in Nat /\ InC > path.length /\ InC > MaxPath
  BY <1>2 DEF InC
<1>4. /\ index \in Nat /\ index <= MaxPathEntries /\ component \in Nat /\ component <= MaxPath
      /\ visited \in [0..(MaxPathEntries - 1) -> 0..MaxPath]
  BY DEF IndInv, TypeOK, WhichTypeOK
<1>5. \A p \in entries : p = 0 \/ p = InC \/ p \in path.locks
  BY <1>1 DEF PathOK, Named
<1>6. \A p \in path.locks : p \in Nat /\ p >= 1 /\ p <= path.length
  BY <1>2
<1>7. QED BY <1>2, <1>3, <1>4, <1>5, <1>6

\* What a step of the search changes of the command.
LEMMA SearchFrameOK ==
  ASSUME IndInv, Which, UNCHANGED <<volume, fixed>>,
         tool = "Which", pc \in Searching \cup {"main"},
         pc' \in Searching \cup {"return"}, pc' \in Searching => argc = 2 /\ rc' = Running /\ SearchOK',
         rc' \in {Running, 0, 5, 10}, WhichTypeOK',
         entry' => pc' = "examine",
         dup' \/ cwd' # Home => pc' \in {"probe", "examine", "hit", "miss"},
         pc' = "return" /\ argc = 2 => AnswerOK'
  PROVE  IndInv'
<1>0. /\ UNCHANGED <<tool, line, i, argc, out, quoted, argv, argbuf, dos, wbmsg, loaded, forbid>>
      /\ UNCHANGED <<info, informed, lock, bytes, sectors, path, entries>>
      /\ UNCHANGED <<table, upsets, rows, disabled, recorded, moment>>
  BY DEF Which, WhichArgs, LockEntry, ExamineEntry, Found, Missed, Walk, WalkEnds,
         startup, volume, fixed
<1>1. TypeOK'
  BY <1>0 DEF IndInv, TypeOK, StartupTypeOK, VolumeTypeOK, VectorTypeOK, Searching
<1>2. wbmsg = "none" /\ ~forbid /\ ~disabled /\ ~lock /\ loaded /\ ~informed /\ sectors = 0
  BY DEF IndInv, TypeOK, StartupTypeOK, PhaseOK, HeldOK, VolumeOK, Searching, Ended, VolumeTools
<1>3. PhaseOK' /\ HeldOK'
  BY <1>0, <1>2 DEF PhaseOK, HeldOK, Searching, Reporting, Copying, Ended
<1>4. BufferOK'
  <2>1. pc \notin {"word", "nul"} /\ pc' \notin {"word", "nul"} /\ Length' = Length
    BY <1>0 DEF Length, Searching
  <2>2. QED BY <1>0, <2>1 DEF IndInv, BufferOK
<1>5. VectorOK' /\ VolumeOK'
  BY <1>0, <1>2 DEF IndInv, VectorOK, VolumeOK, Starting, Searching, Ended, VectorTools
<1>6. WhichOK'
  <2>1. PathOK'
    BY <1>0 DEF IndInv, WhichOK, PathOK
  <2>2. QED BY <1>0, <2>1 DEF WhichOK, Starting, Searching, Ended
<1>7. QED BY <1>1, <1>3, <1>4, <1>5, <1>6 DEF IndInv

\* The arguments do not change in main.
LEMMA ArgFrame ==
  ASSUME UNCHANGED startup
  PROVE  /\ (HasPathSyntax(Arg(1)))' <=> HasPathSyntax(Arg(1))
         /\ FitsC' <=> FitsC
<1>1. Arg(1)' = Arg(1)
  BY DEF startup, Arg
<1>2. QED BY <1>1 DEF HasPathSyntax, FitsC

\* The arguments of Which, and the look at one place.
LEMMA ProbeStep ==
  ASSUME IndInv, WhichArgs \/ LockEntry \/ ExamineEntry, UNCHANGED <<volume, fixed>>
  PROVE  IndInv'
<1>0. /\ UNCHANGED <<startup, tool, path, entries, index, component, visited, dup, cwd>>
      /\ UNCHANGED <<answer, cycle>>
  BY DEF WhichArgs, LockEntry, ExamineEntry
<1>1. /\ tool = "Which" /\ Which /\ pc \in Searching \cup {"main"} /\ rc = Running
  <2>1. pc \in Searching \cup {"main"}
    BY DEF WhichArgs, LockEntry, ExamineEntry, Searching
  <2>2. tool = "Which"
    BY DEF WhichArgs, LockEntry, ExamineEntry, Searching, IndInv, PhaseOK
  <2>3. rc = Running
    BY <2>1 DEF IndInv, PhaseOK, Searching, Ended
  <2>4. QED BY <2>1, <2>2, <2>3 DEF Which
<1>2. /\ (HasPathSyntax(Arg(1)))' <=> HasPathSyntax(Arg(1))
      /\ FitsC' <=> FitsC
  BY <1>0, ArgFrame
<1>3. WhichTypeOK /\ entry \in BOOLEAN /\ failed \in BOOLEAN
  BY DEF IndInv, TypeOK, WhichTypeOK
<1>4. CASE WhichArgs
  <2>1. /\ pc = "main" /\ UNCHANGED <<entry, failed>>
        /\ \/ argc # 2 /\ pc' = "return" /\ rc' = 10 /\ probe' = probe
           \/ argc = 2 /\ pc' = "probe" /\ rc' = rc /\ probe' = Named
    BY <1>4 DEF WhichArgs, Return, Goto
  <2>2. index = 0 /\ ~entry /\ ~dup /\ cwd = Home
    BY <2>1 DEF IndInv, HeldOK, WhichOK, Starting
  <2>3. WhichTypeOK'
    <3>1. Named \in Places
      BY DEF Named, Places, InC
    <3>2. QED BY <1>0, <1>3, <2>1, <3>1 DEF WhichTypeOK
  <2>4. pc' \in Searching => SearchOK'
    <3>1. 0 <= path.length /\ \A k \in 0..(0 - 1) : FALSE
      BY PathIs
    <3>2. QED BY <1>0, <2>1, <2>2, <3>1 DEF SearchOK, Searching
  <2>5. QED BY <1>0, <1>1, <2>1, <2>2, <2>3, <2>4, SearchFrameOK DEF Searching
<1>5. CASE LockEntry
  <2>1. /\ pc = "probe" /\ rc' = rc /\ probe' = probe
        /\ \/ probe \in entries /\ entry' = TRUE /\ pc' = "examine" /\ failed' = failed
           \/ pc' = "miss" /\ failed' = (failed \/ probe \in entries) /\ entry' = entry
    BY <1>5 DEF LockEntry, Goto
  <2>2. /\ failed' \in BOOLEAN /\ (failed => failed')
        /\ pc' = "miss" => failed' \/ probe \notin entries
    <3>1. CASE failed' = failed /\ pc' = "examine"
      BY <1>3, <3>1
    <3>2. CASE failed' = (failed \/ probe \in entries)
      <4>1. failed' <=> failed \/ probe \in entries
        BY <3>2, Zenon
      <4>2. failed' \in BOOLEAN
        BY ONLY <3>2
      <4>3. QED BY <4>1, <4>2
    <3>3. QED BY <2>1, <3>1, <3>2
  <2>3. SearchOK /\ argc = 2 /\ ~entry
    BY <2>1 DEF IndInv, PhaseOK, HeldOK, WhichOK, Searching
  <2>4. /\ entry' \in BOOLEAN /\ (entry' => pc' = "examine")
    <3>1. CASE entry' = TRUE /\ pc' = "examine"
      BY <3>1
    <3>2. CASE entry' = entry
      BY <1>3, <2>3, <3>2
    <3>3. QED BY <2>1, <3>1, <3>2
  <2>5. WhichTypeOK'
    BY <1>0, <1>3, <2>1, <2>2, <2>4 DEF WhichTypeOK
  <2>6. SearchOK'
    BY <1>0, <1>2, <2>1, <2>2, <2>3 DEF SearchOK, ComponentOK, LastOK, PassedNone
  <2>7. pc' \in {"examine", "miss"}
    BY <2>1
  <2>8. QED BY <1>0, <1>1, <2>1, <2>3, <2>4, <2>5, <2>6, <2>7, SearchFrameOK DEF Searching
<1>6. CASE ExamineEntry
  <2>1. /\ pc = "examine" /\ rc' = rc /\ probe' = probe /\ entry' = FALSE
        /\ \/ pc' = "hit" /\ failed' = failed
           \/ pc' = "miss" /\ failed' = TRUE
    BY <1>6 DEF ExamineEntry, Goto
  <2>2. failed' \in BOOLEAN /\ (failed => failed') /\ (pc' = "miss" => failed')
    <3>1. CASE failed' = failed /\ pc' = "hit"
      BY <1>3, <3>1
    <3>2. CASE failed' = TRUE
      BY <3>2
    <3>3. QED BY <2>1, <3>1, <3>2
  <2>3. SearchOK /\ argc = 2
    BY <2>1 DEF IndInv, PhaseOK, WhichOK, Searching
  <2>4. WhichTypeOK'
    BY <1>0, <1>3, <2>1, <2>2 DEF WhichTypeOK
  <2>5. SearchOK'
    BY <1>0, <1>2, <2>1, <2>2, <2>3 DEF SearchOK, ComponentOK, LastOK, PassedNone
  <2>6. pc' \in {"hit", "miss"}
    BY <2>1
  <2>7. QED BY <1>0, <1>1, <2>1, <2>3, <2>4, <2>5, <2>6, SearchFrameOK DEF Searching
<1>7. QED BY <1>4, <1>5, <1>6

\* A hit: the place that is printed is the first that has the name.
LEMMA FoundStep ==
  ASSUME IndInv, Found, UNCHANGED <<volume, fixed>>
  PROVE  IndInv'
<1>0. /\ pc = "hit" /\ pc' = "return" /\ rc' = 0 /\ dup' = FALSE /\ cwd' = Home
      /\ answer' = (IF probe \in 1..MaxPath THEN index + 1 ELSE probe)
      /\ UNCHANGED <<startup, tool, path, entries, index, component, visited, probe, entry>>
      /\ UNCHANGED <<cycle, failed>>
  BY DEF Found, LeaveDir, Return
<1>1. tool = "Which" /\ Which /\ pc \in Searching /\ ~entry /\ SearchOK
  BY <1>0 DEF IndInv, PhaseOK, HeldOK, WhichOK, Searching, Which
<1>2. answer' = probe /\ probe \in entries
  <2>1. probe \in 1..MaxPath => probe = index + 1
    <3>1. Named \notin 1..MaxPath /\ InC \notin 1..MaxPath
      BY DEF Named, InC
    <3>2. QED BY <1>0, <1>1, <3>1 DEF SearchOK, ComponentOK
  <2>2. QED BY <1>0, <1>1, <2>1 DEF SearchOK
<1>3. failed \/ \A p \in entries : p < probe => p > MaxPathEntries
  <2>1. CASE probe = Named
    BY <2>1, PathIs DEF Named
  <2>2. CASE probe \in 1..MaxPath /\ ComponentOK
    BY <2>2, PathIs DEF ComponentOK, PassedNone
  <2>3. CASE probe = InC /\ LastOK
    BY <2>3, PathIs DEF LastOK
  <2>4. QED BY <1>0, <1>1, <2>1, <2>2, <2>3 DEF SearchOK
<1>4. AnswerOK'
  BY <1>0, <1>2, <1>3 DEF AnswerOK, FoundIsFirst
<1>5. WhichTypeOK'
  <2>1. Home \in Home..MaxPath /\ WhichTypeOK
    BY DEF Home, IndInv, TypeOK
  <2>2. QED BY <1>0, <1>2, <2>1 DEF WhichTypeOK
<1>6. QED BY <1>0, <1>1, <1>4, <1>5, SearchFrameOK DEF Searching

\* A miss: the search goes on behind the place, or is over.
LEMMA MissedStep ==
  ASSUME IndInv, Missed, UNCHANGED <<volume, fixed>>
  PROVE  IndInv'
<1>0. /\ pc = "miss" /\ dup' = FALSE /\ cwd' = Home
      /\ UNCHANGED <<startup, tool, path, entries, visited, probe, entry, answer, cycle, failed>>
  BY DEF Missed, LeaveDir
<1>1. /\ tool = "Which" /\ Which /\ pc \in Searching /\ ~entry /\ SearchOK /\ argc = 2
      /\ rc = Running
  BY <1>0 DEF IndInv, PhaseOK, HeldOK, WhichOK, Searching, Ended, Which
<1>2. /\ (HasPathSyntax(Arg(1)))' <=> HasPathSyntax(Arg(1))
      /\ FitsC' <=> FitsC
  BY <1>0, ArgFrame
<1>3. failed \/ probe \notin entries \/ (probe = InC /\ ~FitsC)
  BY <1>0, <1>1 DEF SearchOK
<1> DEFINE Own == /\ pc' \in {"walk", "return"} /\ rc' \in {Running, 0, 5, 10}
                  /\ pc' = "walk" => rc' = Running /\ SearchOK'
                  /\ pc' = "return" => AnswerOK'
                  /\ index' \in 0..MaxPathEntries /\ component' \in 0..MaxPath
<1>4. ASSUME probe = Named, index = 0 PROVE Own
  <2>0. probe # InC
    BY <1>4 DEF Named, InC
  <2>1. /\ \/ HasPathSyntax(Arg(1)) /\ pc' = "return" /\ rc' = 5
           \/ ~HasPathSyntax(Arg(1)) /\ pc' = "walk" /\ rc' = rc
        /\ component' = (IF path.length = 0 THEN 0 ELSE 1) /\ index' = index
    <3>1. /\ IF HasPathSyntax(Arg(1)) THEN Return(5) ELSE Goto("walk")
          /\ component' = (IF path.length = 0 THEN 0 ELSE 1)
          /\ UNCHANGED index
      BY <1>4, <2>0, Zenon DEF Missed
    <3>2. QED BY <3>1 DEF Return, Goto
  <2>2. failed \/ Named \notin entries
    BY <1>3, <1>4, PathIs DEF Named, InC
  <2>3. component' \in 0..MaxPath /\ index' \in 0..MaxPathEntries
    <3>1. 0 \in 0..MaxPath /\ (path.length # 0 => 1 \in 0..MaxPath) /\ 0 \in 0..MaxPathEntries
      BY PathIs
    <3>2. CASE path.length = 0
      BY <1>4, <2>1, <3>1, <3>2
    <3>3. CASE path.length # 0
      BY <1>4, <2>1, <3>1, <3>3
    <3>4. QED BY <3>2, <3>3
  <2>4. CASE HasPathSyntax(Arg(1))
    <3>1. AnswerOK'
      BY <1>0, <1>2, <2>1, <2>2, <2>4 DEF AnswerOK, NoneHasName
    <3>2. QED BY <2>1, <2>3, <2>4, <3>1
  <2>5. CASE ~HasPathSyntax(Arg(1))
    <3>1. failed \/ \A p \in entries : p > 0
      BY <2>2, PathIs DEF Named
    <3>2. component' = (IF 0 < path.length THEN 0 + 1 ELSE path.last)
      BY <2>1, PathIs
    <3>3. 0 <= path.length /\ \A k \in 0..(0 - 1) : FALSE
      BY PathIs
    <3>4. SearchOK'
      BY <1>0, <1>2, <1>4, <2>1, <2>5, <3>1, <3>2, <3>3
         DEF SearchOK, WalkOK, PassedNone
    <3>5. QED BY <1>1, <2>1, <2>3, <2>5, <3>4
  <2>6. QED BY <2>4, <2>5
<1>5. ASSUME probe \in 1..MaxPath, ComponentOK PROVE Own
  <2>1. probe # Named /\ probe # InC
    BY <1>5 DEF Named, InC
  <2>2. pc' = "walk" /\ rc' = rc /\ component' = NextOf(component) /\ index' = index + 1
    BY <2>1, Zenon DEF Missed, Goto
  <2>3. /\ index < path.length /\ index < MaxPathEntries /\ component = index + 1
        /\ probe = index + 1 /\ visited[index] = index + 1 /\ ~HasPathSyntax(Arg(1))
        /\ failed \/ \A p \in entries : p > index
    BY <1>5 DEF ComponentOK, PassedNone
  <2>4. /\ index + 1 <= path.length /\ index + 1 \in 0..MaxPathEntries
        /\ NextOf(component) = (IF index + 1 < path.length THEN (index + 1) + 1 ELSE path.last)
        /\ NextOf(component) \in 0..MaxPath
    BY <2>3, PathIs DEF NextOf
  <2>5. failed \/ \A p \in entries : p > index + 1
    BY <1>3, <2>1, <2>3, PathIs
  <2>6. \A k \in 0..((index + 1) - 1) : visited[k] = k + 1
    <3>1. \A k \in 0..((index + 1) - 1) : k \in 0..(index - 1) \/ k = index
      BY PathIs
    <3>2. QED BY <1>1, <2>3, <3>1 DEF SearchOK
  <2>7. SearchOK'
    BY <1>0, <1>2, <2>2, <2>3, <2>4, <2>5, <2>6 DEF SearchOK, WalkOK, PassedNone
  <2>8. QED BY <1>1, <2>2, <2>4, <2>7
<1>6. ASSUME probe = InC, LastOK PROVE Own
  <2>1. probe # Named
    BY <1>6, PathIs DEF Named, InC
  <2>2. pc' = "return" /\ rc' = 5 /\ UNCHANGED <<component, index>>
    BY <1>6, <2>1, Zenon DEF Missed, Return
  <2>3. ~failed => /\ Named \notin entries
                   /\ FitsC => InC \notin entries
                   /\ ~Limited => entries \subseteq {InC}
    BY <1>3, <1>6, PathIs DEF LastOK, Limited, Named, InC
  <2>4. AnswerOK'
    BY <1>0, <1>2, <1>6, <2>2, <2>3 DEF AnswerOK, NoneHasName, Limited, LastOK
  <2>5. index' \in 0..MaxPathEntries /\ component' \in 0..MaxPath
    BY <2>2, PathIs
  <2>6. QED BY <2>2, <2>4, <2>5
<1>7. Own
  BY <1>0, <1>1, <1>4, <1>5, <1>6 DEF SearchOK
<1>8. WhichTypeOK'
  <2>1. Home \in Home..MaxPath /\ WhichTypeOK
    BY DEF Home, IndInv, TypeOK
  <2>2. QED BY <1>0, <1>7, <2>1 DEF WhichTypeOK
<1>9. QED BY <1>0, <1>1, <1>7, <1>8, SearchFrameOK DEF Searching

\* One component of the path: it is the next one of the list.
LEMMA WalkStep ==
  ASSUME IndInv, Walk, UNCHANGED <<volume, fixed>>
  PROVE  IndInv'
<1>0. /\ pc = "walk" /\ component # 0 /\ index < MaxPathEntries /\ ~Seen(component)
      /\ visited' = [visited EXCEPT ![index] = component] /\ probe' = component
      /\ \/ /\ component \in path.locks /\ dup' = TRUE /\ cwd' = component
            /\ pc' = "probe" /\ failed' = failed
         \/ /\ pc' = "miss" /\ failed' = (failed \/ component \in path.locks)
            /\ UNCHANGED <<dup, cwd>>
      /\ rc' = rc
      /\ UNCHANGED <<startup, tool, path, entries, index, component, entry, answer, cycle>>
  BY DEF Walk, EnterDir, Goto
<1>1. /\ tool = "Which" /\ Which /\ pc \in Searching /\ ~entry /\ SearchOK /\ argc = 2
      /\ rc = Running /\ ~dup /\ cwd = Home
  BY <1>0 DEF IndInv, PhaseOK, HeldOK, WhichOK, Searching, Ended, Which
<1>2. (HasPathSyntax(Arg(1)))' <=> HasPathSyntax(Arg(1))
  BY <1>0, ArgFrame
<1>3. /\ index <= path.length /\ \A k \in 0..(index - 1) : visited[k] = k + 1
      /\ ~HasPathSyntax(Arg(1)) /\ (failed \/ \A p \in entries : p > index)
      /\ component = IF index < path.length THEN index + 1 ELSE path.last
  BY <1>0, <1>1 DEF SearchOK, WalkOK, PassedNone
<1>4. index < path.length
  <2> SUFFICES ASSUME ~(index < path.length) PROVE FALSE
    OBVIOUS
  <2>0. component = path.last /\ index = path.length
    BY <1>3, PathIs
  <2>1. component - 1 \in 0..(index - 1) /\ (component - 1) + 1 = component
    BY <1>0, <2>0, PathIs
  <2>2. visited[component - 1] = component
    BY <1>3, <2>1
  <2>3. QED BY <1>0, <2>1, <2>2 DEF Seen
<1>5. component = index + 1 /\ component \in 1..MaxPath /\ index \in 0..(MaxPathEntries - 1)
  BY <1>0, <1>3, <1>4, PathIs
<1>6. /\ visited' \in [0..(MaxPathEntries - 1) -> 0..MaxPath]
      /\ visited'[index] = index + 1
      /\ \A k \in 0..(index - 1) : visited'[k] = k + 1
  <2>1. visited \in [0..(MaxPathEntries - 1) -> 0..MaxPath] /\ component \in 0..MaxPath
    BY <1>5, PathIs
  <2>2. \A k \in 0..(index - 1) : k \in 0..(MaxPathEntries - 1) /\ k # index
    BY <1>5
  <2>3. QED BY <1>0, <1>3, <1>5, <2>1, <2>2
<1>7. failed \in BOOLEAN /\ dup \in BOOLEAN
  BY DEF IndInv, TypeOK, WhichTypeOK
<1>8. /\ failed' \in BOOLEAN /\ (failed => failed')
      /\ pc' = "miss" => failed' \/ component \notin entries
  <2>1. CASE pc' = "probe" /\ failed' = failed
    BY <1>7, <2>1
  <2>2. CASE failed' = (failed \/ component \in path.locks)
    <3>1. failed' <=> failed \/ component \in path.locks
      BY <2>2, Zenon
    <3>2. failed' \in BOOLEAN
      BY ONLY <2>2
    <3>3. component \in entries => component \in path.locks
      BY <1>5, PathIs
    <3>4. QED BY <3>1, <3>2, <3>3
  <2>3. QED BY <1>0, <2>1, <2>2
<1>9. dup' \in BOOLEAN /\ cwd' \in Home..MaxPath /\ pc' \in {"probe", "miss"}
  <2>1. CASE dup' = TRUE /\ cwd' = component /\ pc' = "probe"
    BY <1>5, <2>1 DEF Home
  <2>2. CASE UNCHANGED <<dup, cwd>> /\ pc' = "miss"
    BY <1>1, <1>7, <2>2 DEF Home
  <2>3. QED BY <1>0, <2>1, <2>2
<1>10. SearchOK'
  <2>1. ComponentOK'
    BY <1>0, <1>2, <1>3, <1>4, <1>5, <1>6, <1>8 DEF ComponentOK, PassedNone
  <2>2. QED BY <1>0, <1>3, <1>5, <1>6, <1>8, <1>9, <2>1 DEF SearchOK
<1>11. WhichTypeOK'
  <2>1. WhichTypeOK /\ component \in Places
    BY <1>5 DEF IndInv, TypeOK, Places, Named, InC
  <2>2. QED BY <1>0, <1>6, <1>8, <1>9, <2>1 DEF WhichTypeOK
<1>12. QED BY <1>0, <1>1, <1>9, <1>10, <1>11, SearchFrameOK DEF Searching

\* The end of the walk: every component within the limit has been visited, and
\* the list has run into itself exactly if the walk says so.
LEMMA WalkEndsStep ==
  ASSUME IndInv, WalkEnds, UNCHANGED <<volume, fixed>>
  PROVE  IndInv'
<1>0. /\ pc = "walk" /\ (component = 0 \/ index >= MaxPathEntries \/ Seen(component))
      /\ cycle' = (component # 0 /\ index < MaxPathEntries)
      /\ probe' = InC /\ pc' = (IF FitsC THEN "probe" ELSE "miss") /\ rc' = rc
      /\ UNCHANGED <<startup, tool, path, entries, index, component, visited, entry, dup, cwd>>
      /\ UNCHANGED <<answer, failed>>
  BY DEF WalkEnds, Goto
<1>1. /\ tool = "Which" /\ Which /\ pc \in Searching /\ ~entry /\ SearchOK /\ argc = 2
      /\ rc = Running /\ ~dup /\ cwd = Home
  BY <1>0 DEF IndInv, PhaseOK, HeldOK, WhichOK, Searching, Ended, Which
<1>2. /\ (HasPathSyntax(Arg(1)))' <=> HasPathSyntax(Arg(1))
      /\ FitsC' <=> FitsC
  BY <1>0, ArgFrame
<1>3. /\ index <= path.length /\ \A k \in 0..(index - 1) : visited[k] = k + 1
      /\ ~HasPathSyntax(Arg(1)) /\ (failed \/ \A p \in entries : p > index)
      /\ component = IF index < path.length THEN index + 1 ELSE path.last
  BY <1>0, <1>1 DEF SearchOK, WalkOK, PassedNone
<1>4. index = path.length \/ index = MaxPathEntries
  <2> SUFFICES ASSUME index < path.length, index < MaxPathEntries PROVE FALSE
    BY <1>3, PathIs
  <2>1. component = index + 1 /\ component # 0
    BY <1>3, PathIs
  <2>2. PICK k \in 0..(index - 1) : visited[k] = component
    BY <1>0, <2>1, PathIs DEF Seen
  <2>3. QED BY <1>3, <2>1, <2>2, PathIs
<1>5. cycle' \in BOOLEAN /\ (cycle' <=> component # 0 /\ index < MaxPathEntries)
  <2>1. cycle' = (component # 0 /\ index < MaxPathEntries)
    BY <1>0
  <2>2. cycle' <=> component # 0 /\ index < MaxPathEntries
    BY <2>1, Zenon
  <2>3. cycle' \in BOOLEAN
    BY ONLY <2>1
  <2>4. QED BY <2>2, <2>3
<1>6. cycle' <=> path.last # 0 /\ path.length < MaxPathEntries
  <2>1. index < MaxPathEntries => index = path.length /\ component = path.last
    BY <1>3, <1>4, PathIs
  <2>2. path.length < MaxPathEntries => index < MaxPathEntries
    BY <1>3, PathIs
  <2>3. QED BY <1>5, <2>1, <2>2
<1>7. failed \/ \A p \in entries : p = InC \/ (p > MaxPathEntries /\ index = MaxPathEntries)
  BY <1>3, <1>4, PathIs
<1>8. SearchOK'
  <2>1. LastOK'
    BY <1>0, <1>2, <1>3, <1>5, <1>6, <1>7 DEF LastOK
  <2>2. pc' \in {"probe", "miss"} /\ (pc' = "miss" => ~FitsC)
    BY <1>0
  <2>3. QED BY <1>0, <1>2, <1>3, <2>1, <2>2 DEF SearchOK
<1>9. WhichTypeOK'
  <2>1. WhichTypeOK /\ InC \in Places
    BY DEF IndInv, TypeOK, Places, Named, InC
  <2>2. QED BY <1>0, <1>5, <2>1 DEF WhichTypeOK
<1>10. QED BY <1>0, <1>1, <1>8, <1>9, SearchFrameOK DEF Searching
-----------------------------------------------------------------------------
\* Every step of a command, of Workbench and of those who change the table keeps
\* the invariant.
LEMMA NextInv == IndInv /\ [Next]_vars => IndInv'
<1> SUFFICES ASSUME IndInv, [Next]_vars PROVE IndInv'
  OBVIOUS
<1>1. CASE Startup /\ UNCHANGED <<search, volume, fixed>>
  BY <1>1, EntryStep, ArgvStep, OtherMainStep DEF Startup
<1>2. CASE Which /\ UNCHANGED <<volume, fixed>>
  BY <1>2, ProbeStep, FoundStep, MissedStep, WalkStep, WalkEndsStep DEF Which
<1>3. CASE Volume /\ UNCHANGED <<search, fixed>>
  BY <1>3, VolumeStep
<1>4. CASE Vector /\ UNCHANGED <<search, volume>>
  BY <1>4, VectorStep
<1>5. CASE AnyMain
  <2>1. UNCHANGED <<search, volume, fixed>>
    BY <1>5 DEF AnyMain
  <2> QED BY <1>5, <2>1, OtherMainStep
<1>6. CASE Workbench /\ UNCHANGED <<search, volume, fixed>>
  BY <1>6, WorkbenchStep
<1>7. CASE TableChanges /\ UNCHANGED <<search, volume>>
  BY <1>7, TableStep
<1>8. CASE UNCHANGED vars
  <2>1. UNCHANGED <<pc, rc, tool, startup, search, volume, fixed>>
    BY <1>8 DEF vars
  <2>2. UNCHANGED <<pc, rc, tool, line, i, argc, out, quoted, argv, argbuf, dos, wbmsg,
                    forbid, loaded, table, upsets, rows, disabled, recorded, moment,
                    entry, dup, cwd, lock>>
    BY <2>1 DEF startup, search, volume, fixed
  <2>3. WhichOK' /\ WhichTypeOK' /\ VolumeOK' /\ VolumeTypeOK'
    BY <2>1, <2>2, SearchFrame, VolumeFrame
  <2>4. VectorOK' /\ VectorTypeOK'
    BY <2>2 DEF IndInv, TypeOK, VectorOK, VectorTypeOK
  <2>5. PhaseOK' /\ HeldOK'
    BY <2>2 DEF IndInv, PhaseOK, HeldOK
  <2>6. StartupTypeOK' /\ BufferOK'
    BY <2>2 DEF IndInv, TypeOK, StartupTypeOK, BufferOK, Length
  <2>7. TypeOK'
    BY <2>2, <2>3, <2>4, <2>6 DEF IndInv, TypeOK
  <2> QED BY <2>3, <2>4, <2>5, <2>6, <2>7 DEF IndInv
<1> QED
  BY <1>1, <1>2, <1>3, <1>4, <1>5, <1>6, <1>7, <1>8 DEF Next, Tool

LEMMA Invariance == Spec => []IndInv
BY InitInv, NextInv, PTL DEF Spec

\* The variables keep their types: the buffers of build_argv are written within
\* their bounds for every line.
THEOREM TypeCorrect == Spec => []TypeOK
BY Invariance, PTL DEF IndInv

\* The startup code never runs once Workbench may have unloaded it.
THEOREM LoadedCode == Spec => []RunsLoadedCode
<1>1. IndInv => RunsLoadedCode
  BY DEF IndInv, HeldOK, RunsLoadedCode
<1> QED BY <1>1, Invariance, PTL

\* Every ending has released the locks, dos.library, the current directory, the
\* tasks and the interrupts, and replied the message it took.
THEOREM NoLeak == Spec => []NothingHeldAtExit
<1>1. ASSUME IndInv PROVE NothingHeldAtExit
  <2> SUFFICES ASSUME pc = "done"
               PROVE  /\ ~dos /\ ~entry /\ ~dup /\ ~lock /\ cwd = Home
                      /\ ~forbid /\ ~disabled /\ wbmsg \in {"none", "replied"}
    BY DEF NothingHeldAtExit
  <2>1. ~dos /\ ~entry /\ ~dup /\ ~lock /\ cwd = Home /\ ~forbid /\ ~disabled
    BY <1>1 DEF IndInv, HeldOK
  <2>2. wbmsg \in {"none", "replied"}
    BY <1>1 DEF IndInv, PhaseOK, TypeOK, StartupTypeOK
  <2> QED BY <2>1, <2>2
<1> QED BY <1>1, Invariance, PTL

\* A table that is printed is that of the moment of Disable, of whatever size it
\* is and whatever changes it.
THEOREM OneMoment == Spec => []TableIsOneMoment
<1>1. IndInv => TableIsOneMoment
  BY DEF IndInv, VectorOK, TableIsOneMoment, Ended
<1> QED BY <1>1, Invariance, PTL

\* The figures of the disk reports are true for every InfoData and every width of
\* a word.
THEOREM FiguresHold == Spec => []FiguresAreTrue
<1>1. IndInv => FiguresAreTrue
  BY DEF IndInv, VolumeOK, FiguresTold, FiguresAreTrue, Reported, Ended
<1> QED BY <1>1, Invariance, PTL

\* Which answers with the first place that has the name, and warns of a path that
\* runs into itself and of no other, for paths of any length and any limit.
THEOREM WhichRight == Spec => []WhichIsRight
<1>1. ASSUME IndInv PROVE WhichIsRight
  <2> SUFFICES ASSUME WhichDone
               PROVE  /\ rc = 0 => FoundIsFirst
                      /\ rc = 5 /\ ~failed => NoneHasName
                      /\ rc = 5 /\ ~HasPathSyntax(Arg(1)) =>
                           cycle = (path.last # 0 /\ path.length < MaxPathEntries)
    BY DEF WhichIsRight
  <2>1. AnswerOK
    BY <1>1 DEF IndInv, WhichOK, WhichDone, Ended
  <2>2. rc = 0 => FoundIsFirst
    BY <2>1 DEF AnswerOK
  <2>3. rc = 5 /\ ~failed => NoneHasName
    BY <2>1 DEF AnswerOK
  <2>4. cycle \in BOOLEAN
    BY <1>1 DEF IndInv, TypeOK, WhichTypeOK
  <2>5. rc = 5 /\ ~HasPathSyntax(Arg(1)) =>
          (cycle <=> path.last # 0 /\ path.length < MaxPathEntries)
    BY <2>1 DEF AnswerOK
  <2>6. rc = 5 /\ ~HasPathSyntax(Arg(1)) =>
          cycle = (path.last # 0 /\ path.length < MaxPathEntries)
    BY ONLY <2>4, <2>5
  <2> QED BY <2>2, <2>3, <2>6
<1> QED BY <1>1, Invariance, PTL

-----------------------------------------------------------------------------
(***************************************************************************)
(* The arguments: a second invariant, on top of the first.                 *)
(***************************************************************************)
\* The line as far as it is looked at.
LEMMA TextIs ==
  ASSUME line \in Seq(Characters)
  PROVE  /\ Length \in Nat /\ Length <= CmdLineLen - 1
         /\ Text \in Seq(Characters) /\ Len(Text) = Length
         /\ \A p \in 1..Length : Text[p] = line[p] /\ Text[p] \in Characters
<1>1. Length \in Nat /\ Length <= CmdLineLen - 1 /\ Length <= Len(line) /\ Len(line) \in Nat
  BY LengthIs
<1>2. Text = SubSeq(line, 1, Length)
  BY DEF Text, Length
<1>3. \A n \in 1..Length : n \in 1..Len(line)
  BY <1>1
<1>4. Length \in 1..Len(line) \/ Length = 0
  BY <1>1
<1>5. SubSeq(line, 1, Length) = [n \in 1..Length |-> line[n]]
  BY <1>1, <1>3
<1>6. [n \in 1..Length |-> line[n]] \in Seq(Characters) /\ Len([n \in 1..Length |-> line[n]]) = Length
  BY <1>1, <1>3
<1>7. QED BY <1>1, <1>2, <1>3, <1>5, <1>6

Closer(p) == IF Text[p] = "quote" THEN "quote" ELSE "blank"

\* Where the argument that begins at p starts, ends and is over.
LEMMA WordIs ==
  ASSUME line \in Seq(Characters), NEW p \in 1..Length
  PROVE  /\ WordStart(p) \in Nat /\ WordStart(p) >= p /\ WordStart(p) <= Length + 1
         /\ WordEnd(p) \in Nat /\ WordEnd(p) >= WordStart(p) /\ WordEnd(p) <= Length + 1
         /\ \A q \in Nat : q >= WordStart(p) /\ q < WordEnd(p) => Text[q] # Closer(p)
         /\ WordEnd(p) <= Length => Text[WordEnd(p)] = Closer(p) /\ Behind(p) = WordEnd(p) + 1
         /\ WordEnd(p) = Length + 1 => Behind(p) = Length + 1
         /\ Behind(p) \in Nat /\ Behind(p) > p /\ Behind(p) <= Length + 1
<1>1. Length \in Nat /\ Len(Text) = Length /\ p \in Nat /\ p >= 1 /\ p <= Length
  BY TextIs
<1>2. /\ WordStart(p) \in Nat /\ WordStart(p) >= p /\ WordStart(p) <= Length + 1
  BY <1>1 DEF WordStart
<1> DEFINE C == {q \in WordStart(p)..Length : Text[q] = Closer(p)}
           S == {Length + 1} \cup C
<1>3. WordEnd(p) = Min(S)
  BY <1>1 DEF WordEnd, Closer
<1>4. S \subseteq Nat /\ S # {}
  BY <1>1, <1>2
<1>5. WordEnd(p) \in S /\ \A q \in S : WordEnd(p) <= q
  <2> HIDE DEF S
  <2> QED BY <1>3, <1>4, MinIsLeast
<1>6. /\ WordEnd(p) \in Nat /\ WordEnd(p) >= WordStart(p) /\ WordEnd(p) <= Length + 1
  BY <1>1, <1>2, <1>5
<1>7. ASSUME NEW q \in Nat, q >= WordStart(p), q < WordEnd(p) PROVE Text[q] # Closer(p)
  <2>1. q \notin S
    <3> HIDE DEF S
    <3> QED BY <1>5, <1>6, <1>7
  <2>2. q \in WordStart(p)..Length
    BY <1>1, <1>2, <1>6, <1>7
  <2> QED BY <2>1, <2>2
<1>8. WordEnd(p) <= Length => Text[WordEnd(p)] = Closer(p)
  BY <1>1, <1>5
<1> HIDE DEF S, C
<1> DEFINE B == {WordEnd(p) + 1, Length + 1}
<1>9. Behind(p) = Min(B) /\ B \subseteq Nat /\ B # {}
  BY <1>1, <1>6 DEF Behind
<1>10. Behind(p) \in B /\ \A q \in B : Behind(p) <= q
  <2> HIDE DEF B
  <2> QED BY <1>9, MinIsLeast
<1>11. /\ Behind(p) \in {WordEnd(p) + 1, Length + 1}
       /\ Behind(p) <= WordEnd(p) + 1 /\ Behind(p) <= Length + 1
  BY <1>10
<1> HIDE DEF B
<1>12. /\ WordEnd(p) <= Length => Behind(p) = WordEnd(p) + 1
       /\ WordEnd(p) = Length + 1 => Behind(p) = Length + 1
       /\ Behind(p) \in Nat /\ Behind(p) > p /\ Behind(p) <= Length + 1
  BY <1>1, <1>2, <1>6, <1>11
<1> QED BY <1>2, <1>6, <1>7, <1>8, <1>12

\* The step of the recursion that WordsFrom is.
WordStep(g, p) ==
  IF p = Len(Text) + 1 THEN <<>>
  ELSE IF Text[p] = "blank" THEN g[p + 1]
  ELSE <<SubSeq(Text, WordStart(p), WordEnd(p) - 1)>> \o g[Behind(p)]

SplitsFrom(g, m) == g = [p \in m..(Len(Text) + 1) |-> WordStep(g, p)]

\* A function with the values of WordsFrom exists from every place on.
LEMMA SplitExists ==
  ASSUME line \in Seq(Characters)
  PROVE  \A n \in 0..Length : \E g : SplitsFrom(g, Length + 1 - n)
<1>0. Length \in Nat /\ Len(Text) = Length
  BY TextIs
<1> DEFINE T == {n \in 0..Length : ~\E g : SplitsFrom(g, Length + 1 - n)}
<1> SUFFICES ASSUME T # {} PROVE FALSE
  OBVIOUS
<1>1. Min(T) \in T /\ \A k \in T : Min(T) <= k
  <2>1. T \subseteq Nat
    BY <1>0
  <2> HIDE DEF T
  <2> QED BY <2>1, MinIsLeast
<1>2. PICK n \in T : \A k \in T : n <= k
  BY <1>1
<1>3. n \in Nat /\ n <= Length
  BY <1>0
<1>4. CASE n = 0
  <2> DEFINE g == [p \in (Length + 1)..(Length + 1) |-> <<>>]
  <2>1. \A p \in (Length + 1)..(Length + 1) : p = Length + 1
    BY <1>0
  <2>2. \A p \in (Length + 1)..(Length + 1) : WordStep(g, p) = <<>>
    BY <1>0, <2>1 DEF WordStep
  <2>3. g = [p \in (Length + 1)..(Length + 1) |-> WordStep(g, p)]
    <3>1. g = [p \in (Length + 1)..(Length + 1) |-> <<>>]
      OBVIOUS
    <3> HIDE DEF g
    <3> QED BY <2>2, <3>1
  <2>4. SplitsFrom(g, Length + 1 - 0)
    <3>1. Length + 1 - 0 = Length + 1
      BY <1>0
    <3> HIDE DEF g
    <3> QED BY <1>0, <2>3, <3>1 DEF SplitsFrom
  <2> QED BY <1>2, <1>4, <2>4
<1>5. CASE n # 0
  <2>1. n - 1 \in 0..Length /\ n - 1 \notin T
    <3>1. n - 1 \in 0..Length /\ ~(n <= n - 1)
      BY <1>0, <1>3, <1>5
    <3> HIDE DEF T
    <3> QED BY <1>2, <3>1
  <2> DEFINE m == Length + 1 - n
  <2>2. m \in 1..Length /\ Length + 1 - (n - 1) = m + 1
    BY <1>0, <1>3, <1>5
  <2>3. PICK g : SplitsFrom(g, m + 1)
    <3>1. \E g : SplitsFrom(g, Length + 1 - (n - 1))
      BY <2>1
    <3> QED BY <2>2, <3>1
  <2> HIDE DEF m, T
  <2> DEFINE h == [p \in m..(Length + 1) |-> IF p = m THEN WordStep(g, m) ELSE g[p]]
  <2>4. ASSUME NEW p \in m..(Length + 1) PROVE h[p] = WordStep(h, p)
    <3>1. p # m => p \in (m + 1)..(Length + 1)
      BY <1>0, <2>2
    <3>2. h[p] = WordStep(g, p)
      BY <1>0, <2>3, <3>1 DEF SplitsFrom
    <3>3. p # Length + 1 => p + 1 \in m..(Length + 1) /\ p + 1 # m /\ p \in 1..Length
      BY <1>0, <2>2
    <3>4. p # Length + 1 => Behind(p) \in m..(Length + 1) /\ Behind(p) # m
      <4> SUFFICES ASSUME p # Length + 1
                   PROVE  Behind(p) \in m..(Length + 1) /\ Behind(p) # m
        OBVIOUS
      <4>1. p \in 1..Length
        BY <3>3
      <4>2. Behind(p) \in Nat /\ Behind(p) > p /\ Behind(p) <= Length + 1
        BY <4>1, WordIs
      <4> QED BY <1>0, <2>2, <4>2
    <3>5. p # Length + 1 => h[p + 1] = g[p + 1] /\ h[Behind(p)] = g[Behind(p)]
      BY <3>3, <3>4
    <3> HIDE DEF h
    <3> QED BY <1>0, <3>2, <3>5 DEF WordStep
  <2>5. h = [p \in m..(Length + 1) |-> h[p]]
    OBVIOUS
  <2> HIDE DEF h
  <2>6. SplitsFrom(h, m)
    BY <1>0, <2>4, <2>5 DEF SplitsFrom
  <2> QED BY <1>2, <2>6 DEF m, T
<1> QED BY <1>4, <1>5

\* WordsFrom satisfies its recursive definition.
LEMMA WordsDef ==
  ASSUME line \in Seq(Characters), NEW p \in 1..(Length + 1)
  PROVE  WordsFrom[p] = WordStep(WordsFrom, p)
<1>0. Length \in Nat /\ Len(Text) = Length
  BY TextIs
<1>1. WordsFrom = CHOOSE g : SplitsFrom(g, 1)
  BY DEF WordsFrom, WordStep, SplitsFrom
<1>2. \E g : SplitsFrom(g, 1)
  <2>1. Length \in 0..Length /\ Length + 1 - Length = 1
    BY <1>0
  <2> QED BY <2>1, SplitExists
<1>3. SplitsFrom(WordsFrom, 1)
  BY <1>1, <1>2
<1> QED BY <1>0, <1>3 DEF SplitsFrom

\* The argument that begins at p is a slice of the line.
LEMMA SliceIs ==
  ASSUME line \in Seq(Characters), NEW p \in 1..Length
  PROVE  LET s == SubSeq(Text, WordStart(p), WordEnd(p) - 1) IN
         /\ s \in Seq(Characters) /\ Len(s) = WordEnd(p) - WordStart(p)
         /\ \A j \in 1..(WordEnd(p) - WordStart(p)) : s[j] = Text[WordStart(p) + j - 1]
<1> DEFINE a == WordStart(p)
           b == WordEnd(p)
<1>1. Length \in Nat /\ Len(Text) = Length /\ Text \in Seq(Characters)
  BY TextIs
<1>2. a \in Nat /\ a >= 1 /\ b \in Nat /\ b >= a /\ b <= Length + 1
  BY <1>1, WordIs
<1> HIDE DEF a, b
<1>3. \A j \in 1..(b - a) : a + j - 1 \in 1..Length
  BY <1>1, <1>2
<1>4. SubSeq(Text, a, b - 1) = [j \in 1..(b - a) |-> Text[a + j - 1]]
  <2>1. SubSeq(Text, a, b - 1) = [j \in 1..((b - 1) - a + 1) |-> Text[a + j - 1]]
    BY <1>1, <1>2
  <2>2. (b - 1) - a + 1 = b - a
    BY <1>2
  <2> QED BY <2>1, <2>2
<1>5. [j \in 1..(b - a) |-> Text[a + j - 1]] \in Seq(Characters)
  BY <1>1, <1>2, <1>3
<1>6. Len([j \in 1..(b - a) |-> Text[a + j - 1]]) = b - a
  BY <1>2
<1> QED BY <1>4, <1>5, <1>6 DEF a, b

\* The arguments are strings of characters.
LEMMA WordsType ==
  ASSUME line \in Seq(Characters)
  PROVE  \A p \in 1..(Length + 1) : WordsFrom[p] \in Seq(Seq(Characters))
<1>0. Length \in Nat /\ Len(Text) = Length /\ Text \in Seq(Characters)
  BY TextIs
<1> DEFINE T == {n \in 0..Length : WordsFrom[Length + 1 - n] \notin Seq(Seq(Characters))}
<1>1. ASSUME T # {} PROVE FALSE
  <2>1. Min(T) \in T /\ \A k \in T : Min(T) <= k
    <3>1. T \subseteq Nat
      BY <1>0
    <3> HIDE DEF T
    <3> QED BY <1>1, <3>1, MinIsLeast
  <2>2. PICK n \in T : \A k \in T : n <= k
    BY <2>1
  <2> DEFINE p == Length + 1 - n
  <2>3. /\ n \in Nat /\ n <= Length /\ p \in 1..(Length + 1)
        /\ WordsFrom[p] \notin Seq(Seq(Characters))
    BY <1>0
  <2>4. ASSUME NEW q \in Nat, q > p, q <= Length + 1
        PROVE  WordsFrom[q] \in Seq(Seq(Characters))
    <3>1. /\ Length + 1 - q \in 0..Length /\ ~(n <= Length + 1 - q)
          /\ Length + 1 - (Length + 1 - q) = q
      BY <1>0, <2>3, <2>4
    <3>2. Length + 1 - q \notin T
      <4> HIDE DEF T, p
      <4> QED BY <2>2, <3>1
    <3> QED BY <3>1, <3>2
  <2> HIDE DEF T, p
  <2>5. WordsFrom[p] = WordStep(WordsFrom, p)
    BY <2>3, WordsDef
  <2>6. CASE p = Length + 1
    <3>1. WordsFrom[p] = <<>>
      BY <1>0, <2>5, <2>6 DEF WordStep
    <3> QED BY <2>3, <3>1
  <2>7. CASE p # Length + 1 /\ Text[p] = "blank"
    <3>1. WordsFrom[p] = WordsFrom[p + 1]
      BY <1>0, <2>5, <2>7 DEF WordStep
    <3>2. p + 1 \in Nat /\ p + 1 > p /\ p + 1 <= Length + 1
      BY <1>0, <2>3, <2>7
    <3> QED BY <2>3, <2>4, <3>1, <3>2
  <2>8. CASE p # Length + 1 /\ Text[p] # "blank"
    <3>1. WordsFrom[p] = <<SubSeq(Text, WordStart(p), WordEnd(p) - 1)>> \o WordsFrom[Behind(p)]
      BY <1>0, <2>5, <2>8 DEF WordStep
    <3>2. p \in 1..Length
      BY <1>0, <2>3, <2>8
    <3>3. SubSeq(Text, WordStart(p), WordEnd(p) - 1) \in Seq(Characters)
      BY <3>2, SliceIs
    <3>4. WordsFrom[Behind(p)] \in Seq(Seq(Characters))
      BY <2>4, <3>2, WordIs
    <3>5. WordsFrom[p] \in Seq(Seq(Characters))
      <4> DEFINE x == SubSeq(Text, WordStart(p), WordEnd(p) - 1)
                 y == WordsFrom[Behind(p)]
      <4> HIDE DEF x, y
      <4>1. <<x>> \in Seq(Seq(Characters))
        BY <3>3 DEF x
      <4>2. <<x>> \o y \in Seq(Seq(Characters))
        BY ONLY <3>4, <4>1, ConcatProperties DEF y
      <4> QED BY <3>1, <4>2 DEF x, y
    <3> QED BY <2>3, <3>5
  <2> QED BY <2>6, <2>7, <2>8
<1>2. ASSUME NEW p \in 1..(Length + 1) PROVE WordsFrom[p] \in Seq(Seq(Characters))
  <2>1. Length + 1 - p \in 0..Length /\ Length + 1 - (Length + 1 - p) = p
    BY <1>0
  <2> QED BY <1>1, <2>1
<1> QED BY <1>2

\* The arguments from p on are the one that begins at p and those behind it.
LEMMA WordsSplit ==
  ASSUME line \in Seq(Characters), NEW p \in 1..Length, Text[p] # "blank"
  PROVE  /\ Len(WordsFrom[p]) = 1 + Len(WordsFrom[Behind(p)])
         /\ WordsFrom[p][1] = SubSeq(Text, WordStart(p), WordEnd(p) - 1)
         /\ \A k \in 1..Len(WordsFrom[Behind(p)]) :
              WordsFrom[p][1 + k] = WordsFrom[Behind(p)][k]
<1> DEFINE x == SubSeq(Text, WordStart(p), WordEnd(p) - 1)
           y == WordsFrom[Behind(p)]
<1>0. Length \in Nat /\ Len(Text) = Length
  BY TextIs
<1>1. p \in 1..(Length + 1) /\ p # Length + 1 /\ Behind(p) \in 1..(Length + 1)
  BY <1>0, WordIs
<1>2. WordsFrom[p] = <<x>> \o y
  <2>1. WordsFrom[p] = WordStep(WordsFrom, p)
    BY <1>1, WordsDef
  <2> QED BY <1>0, <1>1, <2>1 DEF WordStep
<1>3. x \in Seq(Characters) /\ y \in Seq(Seq(Characters))
  BY <1>1, SliceIs, WordsType
<1> HIDE DEF x, y
<1>4. /\ Len(<<x>> \o y) = 1 + Len(y) /\ (<<x>> \o y)[1] = x
      /\ \A k \in 1..Len(y) : (<<x>> \o y)[1 + k] = y[k]
  <2>1. <<x>> \in Seq(Seq(Characters)) /\ Len(<<x>>) = 1 /\ <<x>>[1] = x
    BY <1>3
  <2>2. /\ Len(<<x>> \o y) = Len(<<x>>) + Len(y)
        /\ \A k \in 1..(Len(<<x>>) + Len(y)) :
             (<<x>> \o y)[k] = IF k <= Len(<<x>>) THEN <<x>>[k] ELSE y[k - Len(<<x>>)]
    BY ONLY <1>3, <2>1, ConcatProperties
  <2>3. Len(y) \in Nat
    BY <1>3
  <2>4. \A k \in 1..Len(y) : 1 + k \in 1..(1 + Len(y)) /\ ~(1 + k <= 1) /\ (1 + k) - 1 = k
    BY <2>3
  <2>5. 1 \in 1..(1 + Len(y))
    BY <2>3
  <2> QED BY <2>1, <2>2, <2>4, <2>5
<1> QED BY <1>2, <1>4 DEF x, y

\* Of the arguments, all but the first n begin at p or later.
Remain(n, p) ==
  /\ Len(Words) = n + Len(WordsFrom[p])
  /\ \A k \in 1..Len(WordsFrom[p]) : Words[n + k] = WordsFrom[p][k]

\* argv[k] is the kth argument, with its terminator.
ArgIs(k) ==
  /\ argv[k] \in Nat /\ argv[k] + Len(Words[k]) < out
  /\ \A j \in 1..Len(Words[k]) : argbuf[argv[k] + j - 1] = Words[k][j]
  /\ argbuf[argv[k] + Len(Words[k])] = NUL

Done(n) == \A k \in 1..n : ArgIs(k)

\* The last argument begins at p; n characters of it are copied.
Copied(p, n) ==
  /\ Text[p] # "blank" /\ Remain(argc - 2, p)
  /\ argv[argc - 1] \in Nat /\ out = argv[argc - 1] + n
  /\ \A j \in 1..n : argbuf[argv[argc - 1] + j - 1] = Text[WordStart(p) + j - 1]

InWord(p) ==
  /\ quoted <=> Text[p] = "quote"
  /\ i + 1 >= WordStart(p) /\ i + 1 <= WordEnd(p)
  /\ Copied(p, i + 1 - WordStart(p))

AfterWord(p) == i + 1 = Behind(p) /\ Copied(p, WordEnd(p) - WordStart(p))

ArgsOK ==
  /\ pc = "entry" => i = 0 /\ argc = 1
  /\ pc = "skip" => Remain(argc - 1, i + 1) /\ Done(argc - 1)
  /\ pc = "word" => argc >= 2 /\ Done(argc - 2) /\ \E p \in 1..Length : InWord(p)
  /\ pc = "nul" => argc >= 2 /\ Done(argc - 2) /\ \E p \in 1..Length : AfterWord(p)
  /\ pc = "main" /\ tool \notin Argless =>
       argc - 1 = Min({Len(Words), MaxArgs}) /\ Done(argc - 1)

\* The arguments depend on the line alone.
LEMMA TextFrame ==
  ASSUME line' = line
  PROVE  /\ Length' = Length /\ Text' = Text /\ WordsFrom' = WordsFrom /\ Words' = Words
         /\ \A p : /\ WordStart(p)' = WordStart(p) /\ WordEnd(p)' = WordEnd(p)
                   /\ Behind(p)' = Behind(p)
<1>1. Length' = Length /\ Text' = Text
  BY DEF Length, Text
<1>2. \A p : WordStart(p)' = WordStart(p)
  BY <1>1 DEF WordStart
<1>3. \A p : WordEnd(p)' = WordEnd(p)
  BY <1>1, <1>2 DEF WordEnd
<1>4. \A p : Behind(p)' = Behind(p)
  BY <1>1, <1>3 DEF Behind
<1>5. WordsFrom' = WordsFrom
  BY DEF WordsFrom, Text, WordStart, WordEnd, Behind
<1>6. Words' = Words
  BY <1>5 DEF Words
<1> QED BY <1>1, <1>2, <1>3, <1>4, <1>5, <1>6

\* A blank is no argument.
LEMMA RemainBlank ==
  ASSUME line \in Seq(Characters), NEW n \in Nat, NEW p \in 1..Length,
         Text[p] = "blank", Remain(n, p)
  PROVE  Remain(n, p + 1)
<1>1. Length \in Nat /\ Len(Text) = Length
  BY TextIs
<1>2. p \in 1..(Length + 1) /\ p # Length + 1
  BY <1>1
<1>3. WordsFrom[p] = WordStep(WordsFrom, p)
  BY <1>2, WordsDef
<1>4. WordsFrom[p] = WordsFrom[p + 1]
  BY <1>1, <1>2, <1>3 DEF WordStep
<1> QED BY <1>4 DEF Remain

\* The next argument is the one that begins at p.
LEMMA RemainWord ==
  ASSUME line \in Seq(Characters), NEW n \in Nat, NEW p \in 1..Length,
         Text[p] # "blank", Remain(n, p)
  PROVE  /\ n + 1 \in 1..Len(Words)
         /\ Words[n + 1] = SubSeq(Text, WordStart(p), WordEnd(p) - 1)
         /\ Remain(n + 1, Behind(p))
<1> DEFINE y == WordsFrom[p]
           z == WordsFrom[Behind(p)]
<1>1. Length \in Nat
  BY TextIs
<1>2. p \in 1..(Length + 1) /\ Behind(p) \in 1..(Length + 1)
  BY <1>1, WordIs
<1>3. Len(y) \in Nat /\ Len(z) \in Nat
  BY <1>2, WordsType
<1>4. /\ Len(y) = 1 + Len(z) /\ y[1] = SubSeq(Text, WordStart(p), WordEnd(p) - 1)
      /\ \A k \in 1..Len(z) : y[1 + k] = z[k]
  BY WordsSplit
<1>5. Len(Words) = n + Len(y) /\ \A k \in 1..Len(y) : Words[n + k] = y[k]
  BY DEF Remain
<1> HIDE DEF y, z
<1>6. n + 1 \in 1..Len(Words) /\ Len(Words) = (n + 1) + Len(z)
  BY <1>3, <1>4, <1>5
<1>7. 1 \in 1..Len(y)
  BY <1>3, <1>4
<1>8. \A k \in 1..Len(z) : 1 + k \in 1..Len(y) /\ n + (1 + k) = (n + 1) + k
  BY <1>3, <1>4
<1>9. \A k \in 1..Len(z) : Words[(n + 1) + k] = z[k]
  BY <1>4, <1>5, <1>8
<1> QED BY <1>4, <1>5, <1>6, <1>7, <1>9 DEF Remain, z

\* The number of arguments that are left is a number.
LEMMA RemainIs ==
  ASSUME line \in Seq(Characters), NEW n \in Nat, NEW p \in 1..(Length + 1), Remain(n, p)
  PROVE  /\ Words \in Seq(Seq(Characters)) /\ Len(Words) \in Nat /\ n <= Len(Words)
         /\ p = Length + 1 => n = Len(Words)
<1>0. Length \in Nat /\ Len(Text) = Length /\ 1 \in 1..(Length + 1)
  <2>1. Length \in Nat /\ Len(Text) = Length
    BY TextIs
  <2> QED BY <2>1
<1>1. Words \in Seq(Seq(Characters)) /\ WordsFrom[p] \in Seq(Seq(Characters))
  BY <1>0, WordsType DEF Words
<1>2. Len(Words) \in Nat /\ Len(WordsFrom[p]) \in Nat /\ Len(Words) = n + Len(WordsFrom[p])
  BY <1>1 DEF Remain
<1>3. p = Length + 1 => Len(WordsFrom[p]) = 0
  <2>1. WordsFrom[p] = WordStep(WordsFrom, p)
    BY WordsDef
  <2>2. p = Length + 1 => WordsFrom[p] = <<>>
    BY <1>0, <2>1 DEF WordStep
  <2> QED BY <2>2
<1> QED BY <1>1, <1>2, <1>3

\* What is written from out on leaves the arguments that are done alone.
LEMMA DoneKept ==
  ASSUME line' = line, line \in Seq(Characters), out \in Nat,
         NEW n \in Nat, Words \in Seq(Seq(Characters)), n <= Len(Words), Done(n),
         NEW o \in Nat, out' = o, out <= o,
         NEW v, argv' = v, \A k \in 1..n : v[k] = argv[k],
         NEW b, argbuf' = b, \A q \in Nat : q < out => b[q] = argbuf[q]
  PROVE  Done(n)'
<1> SUFFICES ASSUME NEW k \in 1..n PROVE ArgIs(k)'
  BY DEF Done
<1>1. Words' = Words
  BY TextFrame
<1>2. k \in 1..Len(Words) /\ Len(Words) \in Nat
  OBVIOUS
<1>3. Words[k] \in Seq(Characters) /\ Len(Words[k]) \in Nat
  BY <1>2
<1>4. /\ argv[k] \in Nat /\ argv[k] + Len(Words[k]) < out
      /\ \A j \in 1..Len(Words[k]) : argbuf[argv[k] + j - 1] = Words[k][j]
      /\ argbuf[argv[k] + Len(Words[k])] = NUL
  BY DEF Done, ArgIs
<1>5. v[k] = argv[k]
  OBVIOUS
<1>6. v[k] + Len(Words[k]) < o
  BY <1>3, <1>4, <1>5
<1>7. \A j \in 1..Len(Words[k]) : argv[k] + j - 1 \in Nat /\ argv[k] + j - 1 < out
  BY <1>3, <1>4, SMTT(30)
<1>8. \A j \in 1..Len(Words[k]) : b[v[k] + j - 1] = Words[k][j]
  BY <1>4, <1>5, <1>7
<1>9. argv[k] + Len(Words[k]) \in Nat
  BY <1>3, <1>4
<1>10. b[v[k] + Len(Words[k])] = NUL
  BY <1>4, <1>5, <1>9
<1> QED BY <1>1, <1>4, <1>5, <1>6, <1>8, <1>10 DEF ArgIs

\* The same, as the steps of build_argv have it.
LEMMA DoneStep ==
  ASSUME line' = line, line \in Seq(Characters), out \in Nat,
         Words \in Seq(Seq(Characters)),
         out' = out \/ out' = out + 1,
         NEW n \in Nat, n <= Len(Words), Done(n),
         \A k \in 1..n : argv'[k] = argv[k],
         \A q \in Nat : q < out => argbuf'[q] = argbuf[q]
  PROVE  \A k \in 1..n : ArgIs(k)'
<1>1. PICK o \in Nat : out' = o /\ out <= o
  OBVIOUS
<1>2. PICK v : argv' = v
  OBVIOUS
<1>3. PICK b : argbuf' = b
  OBVIOUS
<1>4. (\A k \in 1..n : v[k] = argv[k]) /\ (\A q \in Nat : q < out => b[q] = argbuf[q])
  BY <1>2, <1>3
<1>5. Done(n)'
  BY <1>1, <1>2, <1>3, <1>4, DoneKept
<1> QED BY <1>5 DEF Done

\* build_argv keeps the arguments that are done and the one it copies.
LEMMA ArgsStep ==
  ASSUME IndInv, ArgsOK,
         SkipBlank \/ BeginArg \/ TakeChar \/ LineEnds \/ EndArg \/ CallMain
  PROVE  ArgsOK'
<1>0. line' = line /\ tool' = tool
  BY DEF SkipBlank, BeginArg, TakeChar, LineEnds, EndArg, CallMain, startup
<1>1. /\ line \in Seq(Characters) /\ i \in Nat /\ argc \in Nat /\ argc >= 1
      /\ argc <= MaxArgs + 1 /\ out \in Nat /\ quoted \in BOOLEAN
      /\ argv \in [1..(MaxArgs + 1) -> 0..(CmdLineLen - 1) \cup {NoArg}]
      /\ argbuf \in [0..(CmdLineLen - 1) -> Characters \cup {NUL}]
      /\ out <= CmdLineLen
  BY DEF IndInv, TypeOK, StartupTypeOK
<1>2. /\ Length \in Nat /\ Length <= CmdLineLen - 1 /\ Len(Text) = Length
      /\ \A p \in 1..Length : Text[p] = line[p]
  BY <1>1, TextIs
<1>3. /\ i <= Length
      /\ pc = "word" => out <= i
      /\ pc = "nul" => out < i \/ (i = Length /\ out <= i)
  BY DEF IndInv, BufferOK
<1>4. /\ Length' = Length /\ Text' = Text /\ WordsFrom' = WordsFrom /\ Words' = Words
      /\ \A p : /\ WordStart(p)' = WordStart(p) /\ WordEnd(p)' = WordEnd(p)
                /\ Behind(p)' = Behind(p)
  BY <1>0, TextFrame
<1>5. ASSUME NEW n \in Nat, NEW p, Remain(n, p) PROVE Remain(n, p)'
  BY <1>4, <1>5 DEF Remain
<1>6. i < Length => i + 1 \in 1..Length /\ Here = Text[i + 1]
  BY <1>1, <1>2 DEF Here
<1>7. i + 1 \in 1..(Length + 1) /\ argc - 1 \in Nat
  BY <1>1, <1>2, <1>3
<1>8. CASE SkipBlank
  <2>1. /\ pc = "skip" /\ pc' = "skip" /\ i < Length /\ Here = "blank" /\ i' = i + 1
        /\ UNCHANGED <<argc, out, argv, argbuf>>
    BY <1>8 DEF SkipBlank
  <2>2. Remain(argc - 1, i + 1) /\ Done(argc - 1)
    BY <2>1 DEF ArgsOK
  <2>3. Remain(argc - 1, (i + 1) + 1)
    BY <1>1, <1>6, <1>7, <2>1, <2>2, RemainBlank
  <2>4. Words \in Seq(Seq(Characters)) /\ argc - 1 <= Len(Words)
    BY <1>1, <1>7, <2>2, RemainIs
  <2>5. Done(argc - 1)'
    <3>1. \A k \in 1..(argc - 1) : ArgIs(k)'
      BY <1>0, <1>1, <1>7, <2>1, <2>2, <2>4, DoneStep
    <3> QED BY <2>1, <3>1 DEF Done
  <2>6. Remain(argc - 1, i + 1)'
    BY <1>4, <2>1, <2>3 DEF Remain
  <2> QED BY <2>1, <2>5, <2>6 DEF ArgsOK
<1>9. CASE BeginArg
  <2>1. /\ pc = "skip" /\ pc' = "word" /\ i < Length /\ Here # "blank" /\ argc <= MaxArgs
        /\ argv' = [argv EXCEPT ![argc] = out] /\ argc' = argc + 1
        /\ i' = IF quoted' THEN i + 1 ELSE i
        /\ UNCHANGED <<out, argbuf>>
    BY <1>9 DEF BeginArg, Goto
  <2>2. quoted' <=> Here = "quote"
    BY <1>9, Zenon DEF BeginArg
  <2>0. PICK p \in 1..Length : p = i + 1
    BY <1>6, <2>1
  <2>3. Text[p] # "blank" /\ (quoted' <=> Text[p] = "quote")
    BY <1>6, <2>0, <2>1, <2>2
  <2>4. i' + 1 = WordStart(p) /\ i' + 1 - WordStart(p) = 0
    <3>1. CASE quoted'
      <4>1. i' = i + 1 /\ WordStart(p) = i + 1 + 1
        BY <2>0, <2>1, <2>3, <3>1 DEF WordStart
      <4> QED BY <1>1, <4>1
    <3>2. CASE ~quoted'
      <4>1. i' = i /\ WordStart(p) = i + 1
        BY <2>0, <2>1, <2>3, <3>2 DEF WordStart
      <4> QED BY <1>1, <4>1
    <3> QED BY <3>1, <3>2
  <2>5. /\ WordStart(p) \in Nat /\ WordEnd(p) \in Nat /\ WordEnd(p) >= WordStart(p)
    BY <1>1, <2>3, WordIs
  <2>6. Remain(argc - 1, p) /\ Done(argc - 1)
    BY <2>0, <2>1 DEF ArgsOK
  <2>7. Words \in Seq(Seq(Characters)) /\ argc - 1 <= Len(Words)
    BY <1>1, <1>7, <2>0, <2>6, RemainIs
  <2> DEFINE v == [argv EXCEPT ![argc] = out]
  <2>8. /\ argc \in 1..(MaxArgs + 1) /\ v[argc] = out
        /\ \A k \in 1..(argc - 1) : v[k] = argv[k]
    BY <1>1, <2>1
  <2>9. argv' = v
    BY <2>1
  <2> HIDE DEF v
  <2>10. \A k \in 1..(argc - 1) : ArgIs(k)'
    BY <1>0, <1>1, <1>7, <2>1, <2>6, <2>7, <2>8, <2>9, DoneStep
  <2>11. Done(argc - 2)' /\ argc' >= 2
    <3>1. (argc + 1) - 2 = argc - 1 /\ argc + 1 >= 2
      BY <1>1
    <3> QED BY <2>1, <2>10, <3>1 DEF Done
  <2>12. Copied(p, 0)'
    <3>1. (argc + 1) - 2 = argc - 1 /\ (argc + 1) - 1 = argc /\ out + 0 = out /\ 1..0 = {}
      BY <1>1
    <3>2. Remain(argc - 2, p)'
      BY <1>4, <2>1, <2>6, <3>1 DEF Remain
    <3>3. argv'[argc' - 1] = out /\ out' = out
      BY <2>1, <2>8, <2>9, <3>1
    <3> QED BY <1>1, <1>4, <2>3, <3>1, <3>2, <3>3 DEF Copied
  <2>13. InWord(p)'
    <3>1. \A a \in Nat : a - a = 0 /\ a >= a
      OBVIOUS
    <3>2. (i + 1 - WordStart(p))' = 0
      BY <1>4, <2>4, <2>5, <3>1
    <3>3. (i + 1 >= WordStart(p) /\ i + 1 <= WordEnd(p))'
      BY <1>4, <2>4, <2>5, <3>1
    <3>4. (quoted <=> Text[p] = "quote")'
      BY <1>4, <2>3
    <3> QED BY <2>12, <3>2, <3>3, <3>4 DEF InWord
  <2>14. \E q \in 1..Length' : InWord(q)'
    BY <1>4, <2>3, <2>13
  <2> QED BY <2>1, <2>11, <2>14 DEF ArgsOK
<1>10. CASE TakeChar
  <2>1. /\ pc = "word" /\ i < Length /\ i' = i + 1 /\ UNCHANGED <<argc, quoted, argv>>
    BY <1>10 DEF TakeChar
  <2>2. argc >= 2 /\ Done(argc - 2)
    BY <2>1 DEF ArgsOK
  <2>3. PICK p \in 1..Length : InWord(p)
    BY <2>1 DEF ArgsOK
  <2>4. /\ quoted <=> Text[p] = "quote"
        /\ i + 1 >= WordStart(p) /\ i + 1 <= WordEnd(p)
    BY <2>3 DEF InWord
  <2>5. /\ Text[p] # "blank" /\ Remain(argc - 2, p)
        /\ argv[argc - 1] \in Nat /\ out = argv[argc - 1] + (i + 1 - WordStart(p))
        /\ \A j \in 1..(i + 1 - WordStart(p)) :
             argbuf[argv[argc - 1] + j - 1] = Text[WordStart(p) + j - 1]
    BY <2>3 DEF InWord, Copied
  <2>6. Ends(Here) <=> Text[i + 1] = Closer(p)
    BY <1>1, <1>6, <2>1, <2>4 DEF Ends, Closer
  <2>7. /\ WordStart(p) \in Nat /\ WordEnd(p) \in Nat
        /\ i + 1 < WordEnd(p) => Text[i + 1] # Closer(p)
        /\ WordEnd(p) = i + 1 => Text[i + 1] = Closer(p) /\ Behind(p) = i + 1 + 1
    <3>1. /\ WordStart(p) \in Nat /\ WordEnd(p) \in Nat
          /\ \A q \in Nat : q >= WordStart(p) /\ q < WordEnd(p) => Text[q] # Closer(p)
          /\ WordEnd(p) <= Length => Text[WordEnd(p)] = Closer(p) /\ Behind(p) = WordEnd(p) + 1
      BY <1>1, WordIs
    <3>2. i + 1 \in Nat /\ i + 1 <= Length
      BY <1>1, <1>2, <2>1
    <3> QED BY <2>4, <3>1, <3>2
  <2>8. argc - 2 \in Nat /\ p \in 1..(Length + 1)
    BY <1>1, <1>2, <2>2
  <2>9. Words \in Seq(Seq(Characters)) /\ argc - 2 <= Len(Words)
    BY <1>1, <2>5, <2>8, RemainIs
  <2>10. Remain(argc - 2, p)'
    BY <1>4, <2>1, <2>5 DEF Remain
  <2>11. CASE Ends(Here)
    <3>1. pc' = "nul" /\ UNCHANGED <<out, argbuf>>
      BY <1>10, <2>11 DEF TakeChar, Goto
    <3>2. WordEnd(p) = i + 1 /\ Behind(p) = i + 1 + 1
      BY <1>1, <2>4, <2>6, <2>7, <2>11
    <3>3. Done(argc - 2)'
      <4>1. \A k \in 1..(argc - 2) : ArgIs(k)'
        BY <1>0, <1>1, <2>1, <2>2, <2>8, <2>9, <3>1, DoneStep
      <4> QED BY <2>1, <4>1 DEF Done
    <3>4. AfterWord(p)'
      <4>1. (i + 1 = Behind(p))'
        BY <1>4, <2>1, <3>2
      <4>2. (WordEnd(p) - WordStart(p))' = i + 1 - WordStart(p)
        <5>1. WordEnd(p)' = i + 1 /\ WordStart(p)' = WordStart(p)
          BY <1>4, <3>2
        <5> QED BY <1>1, <2>7, <5>1
      <4>3. (Copied(p, WordEnd(p) - WordStart(p)))'
        BY <1>4, <2>1, <2>5, <2>10, <3>1, <4>2 DEF Copied
      <4> QED BY <4>1, <4>3 DEF AfterWord
    <3>5. \E q \in 1..Length' : AfterWord(q)'
      BY <1>4, <3>4
    <3> QED BY <2>1, <2>2, <3>1, <3>3, <3>5 DEF ArgsOK
  <2>12. CASE ~Ends(Here)
    <3>1. out <= i /\ out < CmdLineLen - 1 /\ out \in 0..(CmdLineLen - 1)
      BY <1>1, <1>2, <1>3, <2>1
    <3>2. pc' = "word" /\ argbuf' = [argbuf EXCEPT ![out] = Here] /\ out' = out + 1
      BY <1>10, <2>1, <2>12, <3>1 DEF TakeChar
    <3> DEFINE b == [argbuf EXCEPT ![out] = Here]
               n == i + 1 - WordStart(p)
               v == argv[argc - 1]
    <3>3. b[out] = Text[i + 1] /\ \A q \in Nat : q < out => b[q] = argbuf[q]
      <4>1. \A q \in Nat : q < out => q \in 0..(CmdLineLen - 1) /\ q # out
        BY <1>1, <3>1
      <4> QED BY <1>1, <1>6, <2>1, <3>1, <4>1
    <3>4. argbuf' = b
      BY <3>2
    <3> HIDE DEF b
    <3>5. Done(argc - 2)'
      <4>1. \A k \in 1..(argc - 2) : ArgIs(k)'
        BY <1>0, <1>1, <2>1, <2>2, <2>8, <2>9, <3>2, <3>3, <3>4, DoneStep
      <4> QED BY <2>1, <4>1 DEF Done
    <3>6. n \in Nat /\ v \in Nat /\ out = v + n /\ WordStart(p) + n = i + 1
      BY <1>1, <2>4, <2>5, <2>7
    <3>7. \A j \in 1..n : argbuf[v + j - 1] = Text[WordStart(p) + j - 1]
      BY <2>5
    <3>8. WordEnd(p) >= i + 1 + 1 /\ i + 1 + 1 - WordStart(p) = n + 1
      BY <1>1, <2>4, <2>6, <2>7, <2>12
    <3>12. v' = v
      BY <2>1
    <3>13. (i + 1 - WordStart(p))' = n + 1
      BY <1>4, <2>1, <3>8
    <3> HIDE DEF n, v
    <3>9. ASSUME NEW j \in 1..(n + 1) PROVE b[v + j - 1] = Text[WordStart(p) + j - 1]
      <4>1. CASE j = n + 1
        <5>1. v + j - 1 = out /\ WordStart(p) + j - 1 = i + 1
          BY <1>1, <2>7, <3>6, <4>1
        <5> QED BY <3>3, <5>1
      <4>2. CASE j # n + 1
        <5>1. j \in 1..n /\ v + j - 1 \in Nat /\ v + j - 1 < out
          BY <3>6, <4>2
        <5> QED BY <3>3, <3>7, <5>1
      <4> QED BY <4>1, <4>2
    <3>10. InWord(p)'
      <4>1. (quoted <=> Text[p] = "quote")'
        BY <1>4, <2>1, <2>4
      <4>2. (i + 1 >= WordStart(p) /\ i + 1 <= WordEnd(p))'
        BY <1>1, <1>4, <2>1, <2>4, <2>7, <3>8
      <4>3. out' = v + (n + 1)
        BY <3>2, <3>6
      <4>4. (Text[p] # "blank")'
        BY <1>4, <2>5
      <4>5. (argv[argc - 1] \in Nat /\ out = argv[argc - 1] + (i + 1 - WordStart(p)))'
        BY <3>6, <3>12, <3>13, <4>3 DEF v
      <4>6. (\A j \in 1..(i + 1 - WordStart(p)) :
               argbuf[argv[argc - 1] + j - 1] = Text[WordStart(p) + j - 1])'
        BY <1>4, <3>4, <3>9, <3>12, <3>13 DEF v
      <4> QED BY <2>10, <4>1, <4>2, <4>4, <4>5, <4>6 DEF InWord, Copied
    <3>11. \E q \in 1..Length' : InWord(q)'
      BY <1>4, <3>10
    <3> QED BY <2>1, <2>2, <3>2, <3>5, <3>11 DEF ArgsOK
  <2> QED BY <2>11, <2>12
<1>11. CASE LineEnds
  <2>1. pc = "word" /\ pc' = "nul" /\ i >= Length /\ UNCHANGED <<i, argc, out, argv, argbuf>>
    BY <1>11 DEF LineEnds, Goto, startup
  <2>2. argc >= 2 /\ Done(argc - 2)
    BY <2>1 DEF ArgsOK
  <2>3. PICK p \in 1..Length : InWord(p)
    BY <2>1 DEF ArgsOK
  <2>4. i + 1 <= WordEnd(p) /\ Copied(p, i + 1 - WordStart(p))
    BY <2>3 DEF InWord
  <2>5. WordEnd(p) = i + 1 /\ Behind(p) = i + 1
    <3>1. /\ WordEnd(p) \in Nat /\ WordEnd(p) <= Length + 1
          /\ WordEnd(p) = Length + 1 => Behind(p) = Length + 1
      BY <1>1, WordIs
    <3>2. i = Length
      BY <1>1, <1>2, <1>3, <2>1
    <3> QED BY <1>1, <2>4, <3>1, <3>2
  <2>6. argc - 2 \in Nat /\ p \in 1..(Length + 1)
    BY <1>1, <1>2, <2>2
  <2>7. Remain(argc - 2, p)
    BY <2>4 DEF Copied
  <2>8. Words \in Seq(Seq(Characters)) /\ argc - 2 <= Len(Words)
    BY <1>1, <2>6, <2>7, RemainIs
  <2>9. Done(argc - 2)'
    <3>1. \A k \in 1..(argc - 2) : ArgIs(k)'
      BY <1>0, <1>1, <2>1, <2>2, <2>6, <2>8, DoneStep
    <3> QED BY <2>1, <3>1 DEF Done
  <2>10. AfterWord(p)'
    <3>1. (i + 1 = Behind(p))'
      BY <1>4, <2>1, <2>5
    <3>2. (WordEnd(p) - WordStart(p))' = i + 1 - WordStart(p)
      <4>1. WordEnd(p)' = i + 1 /\ WordStart(p)' = WordStart(p)
        BY <1>4, <2>5
      <4>2. WordStart(p) \in Nat
        BY <1>1, WordIs
      <4> QED BY <1>1, <4>1, <4>2
    <3>3. Remain(argc - 2, p)'
      BY <1>4, <2>1, <2>7 DEF Remain
    <3>4. (Copied(p, WordEnd(p) - WordStart(p)))'
      BY <1>4, <2>1, <2>4, <3>2, <3>3 DEF Copied
    <3> QED BY <3>1, <3>4 DEF AfterWord
  <2>11. \E q \in 1..Length' : AfterWord(q)'
    BY <1>4, <2>10
  <2> QED BY <2>1, <2>2, <2>9, <2>11 DEF ArgsOK
<1>12. CASE EndArg
  <2>1. /\ pc = "nul" /\ pc' = "skip" /\ UNCHANGED <<i, argc, argv>>
    BY <1>12 DEF EndArg, Goto
  <2>2. out < CmdLineLen /\ out \in 0..(CmdLineLen - 1)
    BY <1>1, <1>2, <1>3, <2>1
  <2>3. argbuf' = [argbuf EXCEPT ![out] = NUL] /\ out' = out + 1
    BY <1>12, <2>2 DEF EndArg
  <2>4. argc >= 2 /\ Done(argc - 2)
    BY <2>1 DEF ArgsOK
  <2>5. PICK p \in 1..Length : AfterWord(p)
    BY <2>1 DEF ArgsOK
  <2> DEFINE n == WordEnd(p) - WordStart(p)
             v == argv[argc - 1]
             b == [argbuf EXCEPT ![out] = NUL]
             w == Words[argc - 1]
  <2>6. /\ i + 1 = Behind(p) /\ Text[p] # "blank" /\ Remain(argc - 2, p)
        /\ v \in Nat /\ out = v + n
        /\ \A j \in 1..n : argbuf[v + j - 1] = Text[WordStart(p) + j - 1]
    BY <2>5 DEF AfterWord, Copied
  <2>7. argc - 2 \in Nat /\ (argc - 2) + 1 = argc - 1 /\ p \in 1..(Length + 1)
    BY <1>1, <1>2, <2>4
  <2>8. /\ argc - 1 \in 1..Len(Words) /\ w = SubSeq(Text, WordStart(p), WordEnd(p) - 1)
        /\ Remain(argc - 1, i + 1)
    BY <1>1, <2>6, <2>7, RemainWord
  <2>9. Words \in Seq(Seq(Characters)) /\ argc - 2 <= Len(Words)
    BY <1>1, <2>6, <2>7, RemainIs
  <2>10. Len(w) = n /\ n \in Nat /\ \A j \in 1..n : w[j] = Text[WordStart(p) + j - 1]
    <3>1. WordStart(p) \in Nat /\ WordEnd(p) \in Nat /\ WordEnd(p) >= WordStart(p)
      BY <1>1, WordIs
    <3>2. n \in Nat
      BY <3>1
    <3> QED BY <1>1, <2>8, <3>2, SliceIs
  <2>11. b[out] = NUL /\ \A q \in Nat : q < out => b[q] = argbuf[q]
    <3>1. \A q \in Nat : q < out => q \in 0..(CmdLineLen - 1) /\ q # out
      BY <1>1, <2>2
    <3> QED BY <1>1, <2>2, <3>1
  <2>12. argbuf' = b /\ argv' = argv /\ v' = v /\ w' = w
    BY <1>4, <2>1, <2>3
  <2> HIDE DEF b
  <2>13. \A k \in 1..(argc - 2) : ArgIs(k)'
    BY <1>0, <1>1, <2>3, <2>4, <2>7, <2>9, <2>11, <2>12, DoneStep
  <2> HIDE DEF n
  <2>14. ArgIs(argc - 1)'
    <3> HIDE DEF v, w
    <3>1. v + n < out + 1 /\ v + n = out
      BY <1>1, <2>6
    <3>2. \A j \in 1..n : v + j - 1 \in Nat /\ v + j - 1 < out
      BY <2>6, <2>10
    <3>3. \A j \in 1..n : b[v + j - 1] = w[j]
      BY <2>6, <2>10, <2>11, <3>2
    <3>4. /\ v' \in Nat /\ v' + Len(w') < out'
          /\ \A j \in 1..Len(w') : argbuf'[v' + j - 1] = w'[j]
          /\ argbuf'[v' + Len(w')] = NUL
      BY <2>3, <2>6, <2>10, <2>11, <2>12, <3>1, <3>3
    <3> QED BY <3>4 DEF ArgIs, v, w
  <2>15. Done(argc - 1)'
    <3>1. \A k \in 1..(argc - 1) : k \in 1..(argc - 2) \/ k = argc - 1
      BY <1>1, <2>4
    <3>2. ASSUME NEW k \in 1..(argc - 1) PROVE ArgIs(k)'
      <4>1. CASE k \in 1..(argc - 2)
        BY <2>13, <4>1
      <4>2. CASE k = argc - 1
        <5>1. k = argc' - 1
          BY <2>1, <4>2
        <5> QED BY <2>14, <5>1 DEF ArgIs
      <4> QED BY <3>1, <4>1, <4>2
    <3> QED BY <2>1, <3>2 DEF Done
  <2>16. Remain(argc - 1, i + 1)'
    BY <1>4, <2>1, <2>8 DEF Remain
  <2> QED BY <2>1, <2>15, <2>16 DEF ArgsOK
<1>13. CASE CallMain
  <2>1. /\ pc = "skip" /\ pc' = "main" /\ UNCHANGED <<i, argc, out, argv, argbuf>>
        /\ i < Length => Here # "blank" /\ argc > MaxArgs
    BY <1>13 DEF CallMain, Goto, startup
  <2>2. Remain(argc - 1, i + 1) /\ Done(argc - 1)
    BY <2>1 DEF ArgsOK
  <2>3. /\ Words \in Seq(Seq(Characters)) /\ Len(Words) \in Nat /\ argc - 1 <= Len(Words)
        /\ i + 1 = Length + 1 => argc - 1 = Len(Words)
    BY <1>1, <1>7, <2>2, RemainIs
  <2>4. argc - 1 = Min({Len(Words), MaxArgs})
    <3> DEFINE S == {Len(Words), MaxArgs}
    <3>1. S \subseteq Nat /\ S # {}
      BY <2>3
    <3>2. Min(S) \in S /\ \A k \in S : Min(S) <= k
      <4> HIDE DEF S
      <4> QED BY <3>1, MinIsLeast
    <3>3. /\ Min(S) = Len(Words) \/ Min(S) = MaxArgs
          /\ Min(S) <= Len(Words) /\ Min(S) <= MaxArgs
      BY <3>2
    <3>4. argc - 1 = Len(Words) \/ argc - 1 = MaxArgs
      BY <1>1, <1>2, <1>3, <2>1, <2>3
    <3> HIDE DEF S
    <3>5. argc - 1 = Min(S)
      BY <1>1, <2>3, <3>3, <3>4
    <3> QED BY <3>5 DEF S
  <2>5. Done(argc - 1)'
    <3>1. \A k \in 1..(argc - 1) : ArgIs(k)'
      BY <1>0, <1>1, <1>7, <2>1, <2>2, <2>3, DoneStep
    <3> QED BY <2>1, <3>1 DEF Done
  <2>6. (argc - 1 = Min({Len(Words), MaxArgs}))'
    BY <1>4, <2>1, <2>4
  <2> QED BY <2>1, <2>5, <2>6 DEF ArgsOK
<1> QED BY <1>8, <1>9, <1>10, <1>11, <1>12, <1>13

\* Every step keeps the arguments right.
LEMMA ArgsNext == IndInv /\ ArgsOK /\ [Next]_vars => ArgsOK'
<1> SUFFICES ASSUME IndInv, ArgsOK, [Next]_vars PROVE ArgsOK'
  OBVIOUS
<1> DEFINE Parsing == {"entry", "skip", "word", "nul", "main"}
<1>0. /\ line \in Seq(Characters) /\ Length \in Nat
  <2>1. line \in Seq(Characters)
    BY DEF IndInv, TypeOK, StartupTypeOK
  <2> QED BY <2>1, TextIs
<1>1. CASE SkipBlank \/ BeginArg \/ TakeChar \/ LineEnds \/ EndArg \/ CallMain
  BY <1>1, ArgsStep
<1>2. CASE OpenDos
  <2>1. pc = "entry" /\ pc' \in {"skip", "main", "done"} /\ UNCHANGED <<line, i, argc, tool>>
    BY <1>2 DEF OpenDos, Goto, Exit
  <2>2. pc' = "main" => tool \in Argless
    BY <1>2 DEF OpenDos, Goto, Exit
  <2>3. i = 0 /\ argc = 1
    BY <2>1 DEF ArgsOK
  <2>4. Words' = WordsFrom'[1] /\ Words' = Words /\ WordsFrom' = WordsFrom
    BY <2>1, TextFrame DEF Words
  <2>5. Len(WordsFrom[1]) \in Nat
    <3>1. 1 \in 1..(Length + 1)
      BY <1>0
    <3> QED BY <1>0, <3>1, WordsType
  <2>6. Remain(argc - 1, i + 1)'
    <3>1. argc' - 1 = 0 /\ i' + 1 = 1
      BY <2>1, <2>3
    <3>2. Len(WordsFrom[1]) = 0 + Len(WordsFrom[1]) /\ \A k \in 1..Len(WordsFrom[1]) : 0 + k = k
      BY <2>5
    <3> QED BY <2>4, <3>1, <3>2 DEF Remain
  <2>7. Done(argc - 1)'
    <3>1. 1..(argc' - 1) = {}
      BY <2>1, <2>3
    <3> QED BY <3>1 DEF Done
  <2> QED BY <2>1, <2>2, <2>6, <2>7 DEF ArgsOK
<1>3. ASSUME pc' \notin Parsing PROVE ArgsOK'
  BY <1>3 DEF ArgsOK
<1>4. ASSUME UNCHANGED <<pc, tool, line, i, argc, out, quoted, argv, argbuf>> PROVE ArgsOK'
  <2>1. /\ Length' = Length /\ Text' = Text /\ WordsFrom' = WordsFrom /\ Words' = Words
        /\ \A p : /\ WordStart(p)' = WordStart(p) /\ WordEnd(p)' = WordEnd(p)
                  /\ Behind(p)' = Behind(p)
    BY <1>4, TextFrame
  <2>2. \A n, p : Remain(n, p)' <=> Remain(n, p)
    BY <2>1 DEF Remain
  <2>3. \A n : Done(n)' <=> Done(n)
    BY <1>4, <2>1 DEF Done, ArgIs
  <2>4. \A p, n : Copied(p, n)' <=> Copied(p, n)
    BY <1>4, <2>1, <2>2 DEF Copied
  <2>5. \A p : (InWord(p)' <=> InWord(p)) /\ (AfterWord(p)' <=> AfterWord(p))
    BY <1>4, <2>1, <2>4 DEF InWord, AfterWord
  <2> QED BY <1>4, <2>1, <2>2, <2>3, <2>5 DEF ArgsOK
<1>5. CASE TakeMessage \/ ReplyMessage \/ Refuse \/ CloseDos \/ ArglessMain \/ AnyMain
  <2>1. pc' \notin Parsing
    BY <1>5 DEF TakeMessage, ReplyMessage, Refuse, CloseDos, ArglessMain, AnyMain, Goto, Exit, Return
  <2> QED BY <1>3, <2>1
<1>6. CASE Which
  <2>1. pc' \notin Parsing
    BY <1>6 DEF Which, WhichArgs, LockEntry, ExamineEntry, Found, Missed, Walk, WalkEnds, Goto, Return
  <2> QED BY <1>3, <2>1
<1>7. CASE Volume
  <2>1. pc' \notin Parsing
    BY <1>7 DEF Volume, VolumeArgs, LockPath, ReadInfo, DiskInfo, DiskCheck, FloppyTest, TrackInfo,
                Goto, Return
  <2> QED BY <1>3, <2>1
<1>8. CASE Vector
  <2>1. pc' \notin Parsing
    BY <1>8 DEF Vector, FindTable, StopOthers, CopyField, Restore, PrintTable, Goto, Return
  <2> QED BY <1>3, <2>1
<1>9. CASE Workbench
  BY <1>4, <1>9 DEF Workbench, SendMessage, UnloadSeg
<1>10. CASE TableChanges
  BY <1>4, <1>10 DEF TableChanges, startup
<1>11. CASE UNCHANGED vars
  BY <1>4, <1>11 DEF vars, startup
<1> QED BY <1>1, <1>2, <1>5, <1>6, <1>7, <1>8, <1>9, <1>10, <1>11 DEF Next, Tool, Startup

\* The string main finds at argv[k] is the kth argument.
LEMMA ArgFound ==
  ASSUME IndInv, NEW k \in 1..(MaxArgs + 1), Words \in Seq(Seq(Characters)),
         k \in 1..Len(Words), ArgIs(k)
  PROVE  (\E p \in argv[k]..(CmdLineLen - 1) : argbuf[p] = NUL) /\ Arg(k) = Words[k]
<1> DEFINE v == argv[k]
           w == Words[k]
           E == {p \in v..(CmdLineLen - 1) : argbuf[p] = NUL}
<1>1. out \in Nat /\ out <= CmdLineLen
  BY DEF IndInv, TypeOK, StartupTypeOK
<1>2. w \in Seq(Characters) /\ Len(w) \in Nat
  OBVIOUS
<1>3. /\ v \in Nat /\ v + Len(w) < out
      /\ \A j \in 1..Len(w) : argbuf[v + j - 1] = w[j]
      /\ argbuf[v + Len(w)] = NUL
  BY DEF ArgIs
<1>4. Arg(k) = [n \in 1..(Min(E) - v) |-> argbuf[v + n - 1]]
  BY DEF Arg
<1> HIDE DEF v, w
<1>5. v + Len(w) \in E /\ E \subseteq Nat
  BY <1>1, <1>2, <1>3
<1>6. ASSUME NEW p \in E PROVE v + Len(w) <= p
  <2> SUFFICES ASSUME p < v + Len(w) PROVE FALSE
    BY <1>2, <1>3
  <2>1. p - v + 1 \in 1..Len(w) /\ v + (p - v + 1) - 1 = p
    BY <1>2, <1>3
  <2>2. argbuf[p] = w[p - v + 1]
    BY <1>3, <2>1
  <2>3. w[p - v + 1] \in Characters
    BY <1>2, <2>1
  <2> QED BY <2>2, <2>3 DEF Characters, NUL
<1>7. Min(E) = v + Len(w)
  <2> HIDE DEF E
  <2>1. Min(E) \in E /\ \A n \in E : Min(E) <= n
    BY <1>5, MinIsLeast
  <2>2. Min(E) \in Nat /\ Min(E) <= v + Len(w) /\ v + Len(w) <= Min(E)
    BY <1>5, <1>6, <2>1
  <2>3. v + Len(w) \in Nat
    BY <1>5
  <2>4. \A a, b \in Nat : a <= b /\ b <= a => a = b
    OBVIOUS
  <2> QED BY ONLY <2>2, <2>3, <2>4
<1>8. Min(E) - v = Len(w)
  BY <1>2, <1>3, <1>7
<1>9. \E p \in v..(CmdLineLen - 1) : argbuf[p] = NUL
  BY <1>5
<1> HIDE DEF E
<1>10. [n \in 1..Len(w) |-> argbuf[v + n - 1]] = [n \in 1..Len(w) |-> w[n]]
  BY <1>3
<1>11. w = [n \in 1..Len(w) |-> w[n]]
  BY <1>2
<1> QED BY <1>4, <1>8, <1>9, <1>10, <1>11 DEF v, w

\* main is called with the arguments of the line, whatever the line and the
\* limits are.
THEOREM ArgvRight == Spec => []ArgvIsWords
<1>1. Init => ArgsOK
  BY DEF Init, StartupInit, ArgsOK
<1>2. ASSUME IndInv, ArgsOK PROVE ArgvIsWords
  <2> SUFFICES ASSUME pc = "main", tool \notin Argless
               PROVE  /\ argc - 1 = Min({Len(Words), MaxArgs})
                      /\ \A k \in 1..(argc - 1) :
                           /\ \E p \in argv[k]..(CmdLineLen - 1) : argbuf[p] = NUL
                           /\ Arg(k) = Words[k]
    BY DEF ArgvIsWords
  <2>1. argc - 1 = Min({Len(Words), MaxArgs}) /\ \A k \in 1..(argc - 1) : ArgIs(k)
    BY <1>2 DEF ArgsOK, Done
  <2>2. line \in Seq(Characters) /\ argc \in Nat /\ argc <= MaxArgs + 1
    BY <1>2 DEF IndInv, TypeOK, StartupTypeOK
  <2>3. Words \in Seq(Seq(Characters)) /\ Len(Words) \in Nat
    <3>1. Length \in Nat
      BY <2>2, TextIs
    <3>2. 1 \in 1..(Length + 1)
      BY <3>1
    <3> QED BY <2>2, <3>2, WordsType DEF Words
  <2>4. argc - 1 <= Len(Words)
    <3> DEFINE S == {Len(Words), MaxArgs}
    <3>1. S \subseteq Nat /\ S # {} /\ Len(Words) \in S
      BY <2>3
    <3> HIDE DEF S
    <3>2. Min(S) <= Len(Words)
      BY <3>1, MinIsLeast
    <3> QED BY <2>1, <3>2 DEF S
  <2>5. \A k \in 1..(argc - 1) : k \in 1..(MaxArgs + 1) /\ k \in 1..Len(Words)
    BY <2>2, <2>3, <2>4
  <2> QED BY <1>2, <2>1, <2>3, <2>5, ArgFound
<1>3. Spec => []ArgsOK
  BY <1>1, ArgsNext, Invariance, PTL DEF Spec
<1> QED BY <1>2, <1>3, Invariance, PTL
=============================================================================
