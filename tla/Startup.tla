------------------------------ MODULE Startup ------------------------------
(***************************************************************************)
(* The startup code the tools are linked with: ai_start_cli for tools      *)
(* without arguments and ai_start_cli_args, which splits the command line  *)
(* in build_argv, for the others.  Either opens dos.library, calls main    *)
(* and closes the library; a start from Workbench is refused, and its      *)
(* message replied.                                                        *)
(*                                                                         *)
(* The makefile links Info, Mem and Tasks with start_cli.c, the scripts of *)
(* the qualification further tools, and DF, DU and Find with               *)
(* start_cli_args.c; a tool that is linked with the compiler's startup     *)
(* code (which is not part of the repository) is given this one.           *)
(*                                                                         *)
(* A module that EXTENDS this one supplies main of a tool: it starts at    *)
(* pc = "main" and ends with Return(code).  Characters are classes: blank, *)
(* quote, ':' or '/' (sep), any other (ch).                                *)
(***************************************************************************)
EXTENDS Integers, SequencesExt

CONSTANTS MaxArgs,       \* AI_MAX_ARGS
          CmdLineLen,    \* AI_CMDLINE_LEN
          MaxLine        \* bound on the length of a command line

ASSUME StartupAssumption ==
  /\ {MaxArgs, CmdLineLen} \subseteq Nat \ {0}
  /\ MaxLine \in Nat

Characters == {"blank", "quote", "sep", "ch"}
NUL == "NUL"

VARIABLES pc, rc,
          tool,               \* the tool that is linked
          line,               \* the command line
          i, argc, out,       \* locals of build_argv
          quoted,
          argv, argbuf,       \* argv_store (offsets in argbuf), argbuf
          dos,                \* DOSBase is open
          wbmsg,              \* Workbench's message: none for a CLI start
          forbid,
          loaded              \* the program's code is in memory

startup == <<line, i, argc, out, quoted, argv, argbuf, dos, wbmsg, forbid, loaded>>

Running == -1
NoArg == -1

\* The tools whose main takes no arguments; "argless" is one of the others.
VectorTools == {"Alerts", "Patches", "BootInfo", "Interrupts", "Vectors", "ROMInfo"}
Argless == {"argless"} \cup VectorTools

StartupTypeOK ==
  /\ rc \in {Running, 0, 5, 10, 20}
  /\ line \in Seq(Characters)
  /\ i \in 0..(CmdLineLen - 1)
  /\ argc \in 1..(MaxArgs + 1)
  /\ out \in 0..CmdLineLen
  /\ {quoted, dos, forbid, loaded} \subseteq BOOLEAN
  /\ argv \in [1..(MaxArgs + 1) -> 0..(CmdLineLen - 1) \cup {NoArg}]
  /\ argbuf \in [0..(CmdLineLen - 1) -> Characters \cup {NUL}]
  /\ wbmsg \in {"none", "due", "sent", "taken", "replied"}

\* A CLI start, or a start from Workbench, which has no command line.
StartupInit ==
  /\ pc = "entry" /\ rc = Running
  /\ \/ line \in BoundedSeq(Characters, MaxLine) /\ wbmsg = "none"
     \/ line = <<>> /\ wbmsg = "due"
  /\ i = 0 /\ argc = 1 /\ out = 0 /\ quoted = FALSE
  /\ argv = [k \in 1..(MaxArgs + 1) |-> NoArg]
  /\ argbuf = [k \in 0..(CmdLineLen - 1) |-> NUL]
  /\ dos = FALSE /\ forbid = FALSE /\ loaded = TRUE

-----------------------------------------------------------------------------
\* main returns; the startup code has the library to close.
Return(code) == pc' = "return" /\ rc' = code
Goto(l) == pc' = l /\ UNCHANGED rc
Exit(code) == pc' = "done" /\ rc' = code

\* pr_CLI tells a CLI from Workbench; OpenLibrary may fail.
OpenDos ==
  /\ pc = "entry" /\ wbmsg = "none"
  /\ \/ dos' = TRUE /\ Goto(IF tool \in Argless THEN "main" ELSE "skip")
     \/ UNCHANGED dos /\ Exit(20)
  /\ UNCHANGED <<tool, line, i, argc, out, quoted, argv, argbuf, wbmsg, forbid, loaded>>

\* WaitPort and GetMsg.
TakeMessage ==
  /\ pc = "entry" /\ wbmsg = "sent"
  /\ wbmsg' = "taken" /\ Goto("reply")
  /\ UNCHANGED <<tool, line, i, argc, out, quoted, argv, argbuf, dos, forbid, loaded>>

\* ReplyMsg without Forbid.
ReplyMessage_Permitted ==
  /\ pc = "reply"
  /\ wbmsg' = "replied" /\ Goto("leave")
  /\ UNCHANGED <<tool, line, i, argc, out, quoted, argv, argbuf, dos, forbid, loaded>>

\* Forbid and ReplyMsg: the reply allows Workbench to unload the program.
ReplyMessage ==
  /\ pc = "reply"
  /\ forbid' = TRUE /\ wbmsg' = "replied" /\ Goto("leave")
  /\ UNCHANGED <<tool, line, i, argc, out, quoted, argv, argbuf, dos, loaded>>

\* return 20: the process ends, and with it its Forbid.
Refuse ==
  /\ pc = "leave" /\ forbid' = FALSE /\ Exit(20)
  /\ UNCHANGED <<tool, line, i, argc, out, quoted, argv, argbuf, dos, wbmsg, loaded>>

-----------------------------------------------------------------------------
\* The line may fill the buffer to the last byte.
Length_NoRoom == Min({Len(line), CmdLineLen})

\* The part of the line that is looked at.
Length == Min({Len(line), CmdLineLen - 1})

Here == line[i + 1]

SkipBlank ==
  /\ pc = "skip" /\ i < Length /\ Here = "blank"
  /\ i' = i + 1
  /\ UNCHANGED <<pc, rc, tool, line, argc, out, quoted, argv, argbuf, dos, wbmsg,
                 forbid, loaded>>

BeginArg ==
  /\ pc = "skip" /\ i < Length /\ Here # "blank" /\ argc <= MaxArgs
  /\ argv' = [argv EXCEPT ![argc] = out]
  /\ argc' = argc + 1
  /\ quoted' = (Here = "quote")
  /\ i' = IF quoted' THEN i + 1 ELSE i
  /\ Goto("word")
  /\ UNCHANGED <<tool, line, out, argbuf, dos, wbmsg, forbid, loaded>>

\* A quote ends an argument that did not begin with one, too.
Ends_AnyQuote(c) == c = "quote" \/ (~quoted /\ c = "blank")

Ends(c) == IF quoted THEN c = "quote" ELSE c = "blank"

\* One character of an argument, or the character that ends it.
TakeChar ==
  /\ pc = "word" /\ i < Length
  /\ i' = i + 1
  /\ \/ Ends(Here) /\ Goto("nul") /\ UNCHANGED <<out, argbuf>>
     \/ /\ ~Ends(Here) /\ UNCHANGED <<pc, rc>>
        /\ IF out < CmdLineLen - 1
           THEN argbuf' = [argbuf EXCEPT ![out] = Here] /\ out' = out + 1
           ELSE UNCHANGED <<argbuf, out>>
  /\ UNCHANGED <<tool, line, argc, quoted, argv, dos, wbmsg, forbid, loaded>>

LineEnds ==
  /\ pc = "word" /\ i >= Length /\ Goto("nul")
  /\ UNCHANGED <<tool, startup>>

\* The terminator.
EndArg ==
  /\ pc = "nul" /\ Goto("skip")
  /\ IF out < CmdLineLen
     THEN argbuf' = [argbuf EXCEPT ![out] = NUL] /\ out' = out + 1
     ELSE UNCHANGED <<argbuf, out>>
  /\ UNCHANGED <<tool, line, i, argc, quoted, argv, dos, wbmsg, forbid, loaded>>

\* The end of the line, or a full argv_store; main is called.
CallMain ==
  /\ pc = "skip"
  /\ i < Length => Here # "blank" /\ argc > MaxArgs
  /\ Goto("main")
  /\ UNCHANGED <<tool, startup>>

-----------------------------------------------------------------------------
\* main of another tool without arguments: what it returns.
ArglessMain ==
  /\ pc = "main" /\ tool = "argless"
  /\ \E code \in {0, 5, 20} : Return(code)
  /\ UNCHANGED <<tool, startup>>

\* main has returned: CloseLibrary.
CloseDos ==
  /\ pc = "return"
  /\ dos' = FALSE /\ pc' = "done"
  /\ UNCHANGED <<rc, tool, line, i, argc, out, quoted, argv, argbuf, wbmsg, forbid, loaded>>

\* Workbench sends the startup message; once it is replied, Workbench unloads
\* the program (external).
SendMessage ==
  /\ wbmsg = "due" /\ wbmsg' = "sent"
  /\ UNCHANGED <<pc, rc, tool, line, i, argc, out, quoted, argv, argbuf, dos, forbid, loaded>>

UnloadSeg ==
  /\ wbmsg = "replied" /\ ~forbid /\ loaded /\ loaded' = FALSE
  /\ UNCHANGED <<pc, rc, tool, line, i, argc, out, quoted, argv, argbuf, dos, wbmsg, forbid>>

Startup ==
  \/ OpenDos \/ TakeMessage \/ ReplyMessage \/ Refuse
  \/ SkipBlank \/ BeginArg \/ TakeChar \/ LineEnds \/ EndArg \/ CallMain
  \/ ArglessMain \/ CloseDos

Workbench == SendMessage \/ UnloadSeg

-----------------------------------------------------------------------------
(***************************************************************************)
(* What main finds, and the properties of the startup code.                *)
(***************************************************************************)
\* The string at argv[k]: argbuf from there up to a terminator.
Arg(k) ==
  LET ends == {p \in argv[k]..(CmdLineLen - 1) : argbuf[p] = NUL}
  IN  [n \in 1..(Min(ends) - argv[k]) |-> argbuf[argv[k] + n - 1]]

\* What is looked at of the line; its arguments are slices of it: from a
\* non-blank to the next blank, or from a leading quote to the next quote.
Text == SubSeq(line, 1, Min({Len(line), CmdLineLen - 1}))
WordStart(p) == IF Text[p] = "quote" THEN p + 1 ELSE p
WordEnd(p) ==
  Min({Len(Text) + 1} \cup {q \in WordStart(p)..Len(Text) :
         Text[q] = IF Text[p] = "quote" THEN "quote" ELSE "blank"})
Behind(p) == Min({WordEnd(p) + 1, Len(Text) + 1})

\* The arguments that begin at p or later.
WordsFrom ==
  LET from[p \in 1..(Len(Text) + 1)] ==
        IF p = Len(Text) + 1 THEN <<>>
        ELSE IF Text[p] = "blank" THEN from[p + 1]
        ELSE <<SubSeq(Text, WordStart(p), WordEnd(p) - 1)>> \o from[Behind(p)]
  IN  from

Words == WordsFrom[1]

\* main is called with the arguments of the line, the first MaxArgs of them:
\* nothing is cut, joined or left without a terminator in the shared buffer,
\* not even by a line that fills it.
ArgvIsWords ==
  pc = "main" /\ tool \notin Argless =>
    /\ argc - 1 = Min({Len(Words), MaxArgs})
    /\ \A k \in 1..(argc - 1) :
         /\ \E p \in argv[k]..(CmdLineLen - 1) : argbuf[p] = NUL
         /\ Arg(k) = Words[k]

\* Code that still runs is in memory: Workbench cannot unload it between the
\* reply and the return.
RunsLoadedCode == pc # "done" => loaded
=============================================================================
