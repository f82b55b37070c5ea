----------------------------- MODULE TextTools -----------------------------
(***************************************************************************)
(* The tools that read files: Head, Tail, Strings, Hex and SnapDiff.  Each *)
(* reads through a small buffer, and its counters, text buffer and offsets *)
(* carry over from one Read to the next.  Read may deliver less than it is *)
(* asked for (a pipe or a console does) or fail; so may every other call;  *)
(* another task may append to a file meanwhile.                            *)
(*                                                                         *)
(* A file is a sequence of printable characters (ch) and line ends (nl).   *)
(* What Hex prints is modelled by the addresses and bytes it shows.        *)
(***************************************************************************)
EXTENDS Integers, SequencesExt

CONSTANTS ReadSize,      \* READ_SIZE, BUFFER_SIZE, READ_BYTES, LINE_BYTES
          StringBytes,   \* STRING_BYTES
          SeekSpace,     \* SEEK_ADDRESS_SPACE
          MaxFile,       \* bound on the length of a file
          MaxNumber,     \* bound on numeric arguments
          MaxGrow        \* bound on what other tasks append

ASSUME TextAssumption ==
  /\ {ReadSize, StringBytes, SeekSpace} \subseteq Nat \ {0}
  /\ {MaxFile, MaxNumber, MaxGrow} \subseteq Nat

VARIABLES tool, pc, rc,
          files, grown,        \* the files; how much was appended
          open,                \* open file handles
          at,                  \* the positions of the handles
          number,              \* wanted (Head, Tail), minimum (Strings), limit (Hex)
          offset,              \* Hex's offset
          lines, pos,          \* Head's and Tail's lines; Tail's pos
          buf, text, emitted,  \* what Strings has to look at; text[0..used-1]
          diff,                \* SnapDiff's figures
          out,                 \* what was written to Output()
          short,               \* history: a Read delivered less than it could
          end                  \* history: the end Tail found

vars == <<tool, pc, rc, files, grown, open, at, number, offset, lines, pos, buf, text,
          emitted, diff, out, short, end>>
arguments == <<tool, number, offset>>
world == <<files, grown>>

Running == -1
NoLimit == MaxNumber + 1
Characters == {"ch", "nl"}
Items == IF tool = "Hex" THEN (0..(SeekSpace - 1)) \X Characters ELSE Characters
NoDiff == [have |-> FALSE, first |-> 0, differing |-> 0, offset |-> 0]

TypeOK ==
  /\ tool \in {"Head", "Tail", "Strings", "Hex", "SnapDiff"}
  /\ pc \in {"args", "open", "second", "end", "back", "start", "read", "scan", "done"}
  /\ rc \in {Running, 0, 5, 10}
  /\ files \in [1..2 -> Seq(Characters)] /\ grown \in 0..MaxGrow
  /\ open \subseteq 1..2 /\ at \in [1..2 -> Nat]
  /\ number \in 0..NoLimit /\ offset \in 0..MaxNumber
  /\ {lines, pos, end} \subseteq Nat
  /\ buf \in Seq(Characters) /\ Len(buf) <= ReadSize
  /\ text \in Seq(Characters) /\ Len(text) <= StringBytes - 1
  /\ emitted \in BOOLEAN /\ short \in BOOLEAN
  /\ diff \in [have : BOOLEAN, first : Nat, differing : Nat, offset : Nat]
  /\ out \in Seq(Items)

\* What a tool does not use is fixed.
Init ==
  /\ tool \in {"Head", "Tail", "Strings", "Hex", "SnapDiff"}
  /\ files \in [1..2 -> BoundedSeq(Characters, MaxFile)]
  /\ tool # "SnapDiff" => files[2] = <<>>
  /\ number \in 0..NoLimit /\ offset \in 0..MaxNumber
  /\ tool # "Hex" => offset = 0 /\ number # NoLimit
  /\ tool = "SnapDiff" => number = 0
  /\ pc = "args" /\ rc = Running /\ grown = 0 /\ open = {} /\ at = <<0, 0>>
  /\ lines = 0 /\ pos = 0 /\ buf = <<>> /\ text = <<>> /\ emitted = FALSE
  /\ diff = NoDiff /\ out = <<>> /\ short = FALSE /\ end = 0

-----------------------------------------------------------------------------
(***************************************************************************)
(* Calls (external).                                                       *)
(***************************************************************************)
Left(f) == Len(files[f]) - at[f]

\* What a successful Read of up to n bytes delivers; nothing at the end.
Chunks(f, n) ==
  {SubSeq(files[f], at[f] + 1, at[f] + k) : k \in Min({1, Left(f)})..Min({n, Left(f)})}

\* A Write that fails may have written a part.
Parts(s) == {SubSeq(s, 1, k) : k \in 0..(Len(s) - 1)}

Goto(l) == pc' = l /\ UNCHANGED <<rc, open>>

\* Close of the handles in closed, as they stand before this return.
Return(code, closed) == pc' = "done" /\ rc' = code /\ open' = open \ closed

\* Write(Output(), s), and one that fails.
Wrote(s) == out' = out \o s
WriteFailed(s) == s # <<>> /\ \E part \in Parts(s) : out' = out \o part

-----------------------------------------------------------------------------
\* Head's and Tail's count of 0.
NoWork == tool \in {"Head", "Tail"} /\ number = 0

\* Strings' minimum has to fit the text buffer, Hex's range the address space.
InRange ==
  /\ tool = "Strings" => number \in 1..(StringBytes - 1)
  /\ tool = "Hex" => /\ offset < SeekSpace
                     /\ number # NoLimit => number <= SeekSpace - offset

\* A usage message is 10, for numbers out of range and for what is no number.
ParseArgs ==
  /\ pc = "args"
  /\ \/ Return(10, {})
     \/ NoWork /\ Return(0, {})
     \/ ~NoWork /\ InRange /\ Goto("open")
  /\ UNCHANGED <<arguments, world, at, lines, pos, buf, text, emitted, diff, out, short, end>>

OpenFile ==
  /\ pc = "open"
  /\ \/ Return(5, {})
     \/ /\ open' = {1} /\ UNCHANGED rc
        /\ pc' = CASE tool = "SnapDiff" -> "second"
                   [] tool = "Tail" -> "end"
                   [] tool = "Hex" /\ offset # 0 -> "start"
                   [] OTHER -> "read"
  /\ UNCHANGED <<arguments, world, at, lines, pos, buf, text, emitted, diff, out, short, end>>

\* The first snapshot stays open when there is no second one.
OpenSecond_KeepFirst ==
  /\ pc = "second"
  /\ \/ Return(5, {})
     \/ open' = {1, 2} /\ pc' = "read" /\ UNCHANGED rc
  /\ UNCHANGED <<arguments, world, at, lines, pos, buf, text, emitted, diff, out, short, end>>

OpenSecond ==
  /\ pc = "second"
  /\ \/ Return(5, {1})
     \/ open' = {1, 2} /\ pc' = "read" /\ UNCHANGED rc
  /\ UNCHANGED <<arguments, world, at, lines, pos, buf, text, emitted, diff, out, short, end>>

\* Seek: to Hex's offset, or to where Tail starts to print.
SeekStart ==
  /\ pc = "start"
  /\ LET to == IF tool = "Hex" THEN offset ELSE pos
     IN  \/ to <= Len(files[1]) /\ at' = [at EXCEPT ![1] = to] /\ Goto("read")
         \/ UNCHANGED at /\ Return(5, {1})
  /\ UNCHANGED <<arguments, world, lines, pos, buf, text, emitted, diff, out, short, end>>

-----------------------------------------------------------------------------
LineEnds(s) == {k \in DOMAIN s : s[k] = "nl"}

\* Where the n-th line of s ends.
NthEnd(s, n) ==
  CHOOSE k \in LineEnds(s) : Cardinality({j \in LineEnds(s) : j <= k}) = n

\* The file stays open when the last Write fails.
HeadLast_NoClose(s) ==
  \/ Wrote(s) /\ Return(0, {1})
  \/ WriteFailed(s) /\ Return(5, {})

\* Head's Write up to the last wanted line, which returns either way.
HeadLast(s) ==
  \/ Wrote(s) /\ Return(0, {1})
  \/ WriteFailed(s) /\ Return(5, {1})

\* One Read: up to the end of the last wanted line, or all of it.
HeadRead ==
  /\ pc = "read" /\ tool = "Head"
  /\ \/ Return(5, {1}) /\ UNCHANGED <<at, lines, out, short>>
     \/ \E c \in Chunks(1, ReadSize) :
          /\ at' = [at EXCEPT ![1] = @ + Len(c)]
          /\ short' = (short \/ Len(c) < Min({ReadSize, Left(1)}))
          /\ lines' = lines + Cardinality(LineEnds(c))
          /\ \/ c = <<>> /\ Return(0, {1}) /\ UNCHANGED out
             \/ /\ c # <<>> /\ lines' >= number
                /\ HeadLast(SubSeq(c, 1, NthEnd(c, number - lines)))
             \/ c # <<>> /\ lines' < number /\ Wrote(c) /\ Goto("read")
             \/ c # <<>> /\ lines' < number /\ WriteFailed(c) /\ Return(5, {1})
  /\ UNCHANGED <<arguments, world, pos, buf, text, emitted, diff, end>>

\* Tail: the end of the file, by two Seeks, of which either may fail.
SeekEnd ==
  /\ pc = "end"
  /\ \/ Return(5, {1}) /\ UNCHANGED <<pos, end>>   \* to the end
     \/ Return(5, {1}) /\ UNCHANGED <<pos, end>>   \* for the position
     \/ pos' = Len(files[1]) /\ end' = pos' /\ Goto("back")
  /\ UNCHANGED <<arguments, world, at, lines, buf, text, emitted, diff, out, short>>

\* The place in the chunk is taken for the place in the file.
FoundStart_InChunk(base, c, missing) ==
  NthEnd(c, Cardinality(LineEnds(c)) - missing + 1)

\* Where the line begins after the line end that is one too many.
FoundStart(base, c, missing) ==
  base + NthEnd(c, Cardinality(LineEnds(c)) - missing + 1)

\* A Read that comes short leaves the file open.
TailBack_NoClose ==
  /\ pc = "back" /\ pos > 0
  /\ Return(5, {}) /\ UNCHANGED <<lines, pos>>
  /\ UNCHANGED <<arguments, world, at, buf, text, emitted, diff, out, short, end>>

\* One chunk backwards: Seek and Read, which has to deliver all of it; either
\* may fail.  The line end that is one too many is where the output starts.
TailBack ==
  /\ pc = "back" /\ pos > 0
  /\ \/ Return(5, {1}) /\ UNCHANGED <<lines, pos>>   \* Seek
     \/ Return(5, {1}) /\ UNCHANGED <<lines, pos>>   \* Read
     \/ LET base == pos - Min({pos, ReadSize})
            c == SubSeq(files[1], base + 1, pos)
            n == Cardinality(LineEnds(c))
        IN  /\ lines' = Min({lines + n, number + 1})
            /\ IF lines + n > number
               THEN pos' = FoundStart(base, c, number + 1 - lines) /\ Goto("start")
               ELSE pos' = base /\ Goto("back")
  /\ UNCHANGED <<arguments, world, at, buf, text, emitted, diff, out, short, end>>

\* There are not that many lines: all of the file.
TailAll ==
  /\ pc = "back" /\ pos = 0 /\ Goto("start")
  /\ UNCHANGED <<arguments, world, at, lines, pos, buf, text, emitted, diff, out, short, end>>

\* A Read that does not fill the buffer is taken for the end of the file.
TailRead_ShortIsEnd ==
  /\ pc = "read" /\ tool = "Tail"
  /\ \/ Return(5, {1}) /\ UNCHANGED <<at, out, short>>
     \/ \E c \in Chunks(1, ReadSize) :
          /\ at' = [at EXCEPT ![1] = @ + Len(c)]
          /\ short' = (short \/ Len(c) < Min({ReadSize, Left(1)}))
          /\ \/ c = <<>> /\ Return(0, {1}) /\ UNCHANGED out
             \/ /\ c # <<>> /\ Wrote(c)
                /\ IF Len(c) < ReadSize THEN Return(0, {1}) ELSE Goto("read")
             \/ WriteFailed(c) /\ Return(5, {1})
  /\ UNCHANGED <<arguments, world, lines, pos, buf, text, emitted, diff, end>>

\* From the start on, as much as there is.
TailRead ==
  /\ pc = "read" /\ tool = "Tail"
  /\ \/ Return(5, {1}) /\ UNCHANGED <<at, out, short>>
     \/ \E c \in Chunks(1, ReadSize) :
          /\ at' = [at EXCEPT ![1] = @ + Len(c)]
          /\ short' = (short \/ Len(c) < Min({ReadSize, Left(1)}))
          /\ \/ c = <<>> /\ Return(0, {1}) /\ UNCHANGED out
             \/ c # <<>> /\ Wrote(c) /\ Goto("read")
             \/ WriteFailed(c) /\ Return(5, {1})
  /\ UNCHANGED <<arguments, world, lines, pos, buf, text, emitted, diff, end>>

-----------------------------------------------------------------------------
\* What a run of printable characters that ends here adds to the output; a
\* part of it may be out already.
RunEnd == IF emitted \/ Len(text) >= number THEN text \o <<"nl">> ELSE <<>>

\* Strings' one Close, behind its loop.
StringsEnd(code) == Return(code, {1})

\* The end of the file does not end the last run.
StringsRead_DropLast ==
  /\ pc = "read" /\ tool = "Strings"
  /\ \/ StringsEnd(5) /\ UNCHANGED <<at, buf, out, short>>
     \/ \E c \in Chunks(1, ReadSize) :
          /\ at' = [at EXCEPT ![1] = @ + Len(c)]
          /\ short' = (short \/ Len(c) < Min({ReadSize, Left(1)}))
          /\ buf' = c
          /\ IF c = <<>> THEN StringsEnd(0) ELSE Goto("scan")
          /\ UNCHANGED out
  /\ UNCHANGED <<arguments, world, lines, pos, text, emitted, diff, end>>

\* One Read; at the end of the file the last run ends.
StringsRead ==
  /\ pc = "read" /\ tool = "Strings"
  /\ \/ StringsEnd(5) /\ UNCHANGED <<at, buf, out, short>>
     \/ \E c \in Chunks(1, ReadSize) :
          /\ at' = [at EXCEPT ![1] = @ + Len(c)]
          /\ short' = (short \/ Len(c) < Min({ReadSize, Left(1)}))
          /\ buf' = c
          /\ \/ c # <<>> /\ Goto("scan") /\ UNCHANGED out
             \/ c = <<>> /\ Wrote(RunEnd) /\ StringsEnd(0)
             \/ c = <<>> /\ WriteFailed(RunEnd) /\ StringsEnd(5)
  /\ UNCHANGED <<arguments, world, lines, pos, text, emitted, diff, end>>

\* The text buffer is flushed one character too late.
Full_Late == Len(text) = StringBytes

Full == Len(text) = StringBytes - 1

\* What the next byte of the buffer has written first: a full text buffer that
\* it no longer fits, or the run that it ends.
Due == IF Head(buf) # "ch" THEN RunEnd ELSE IF Full THEN text ELSE <<>>

\* One byte of the buffer: a printable one is kept, any other ends the run.
StringsScan ==
  /\ pc = "scan" /\ buf # <<>>
  /\ buf' = Tail(buf)
  /\ \/ Wrote(Due) /\ Goto("scan")
     \/ WriteFailed(Due) /\ StringsEnd(5)
  /\ \/ Head(buf) = "ch" /\ Full /\ emitted' = TRUE /\ text' = <<"ch">>
     \/ Head(buf) = "ch" /\ ~Full /\ text' = Append(text, "ch") /\ UNCHANGED emitted
     \/ Head(buf) # "ch" /\ emitted' = FALSE /\ text' = <<>>
  /\ UNCHANGED <<arguments, world, at, lines, pos, diff, short, end>>

StringsNext ==
  /\ pc = "scan" /\ buf = <<>> /\ Goto("read")
  /\ UNCHANGED <<arguments, world, at, lines, pos, buf, text, emitted, diff, out, short, end>>

-----------------------------------------------------------------------------
\* The bytes of the range that are not shown yet.
RangeLeft ==
  LET shown == Len(out)
  IN  Min({SeekSpace - offset - shown, IF number = NoLimit THEN SeekSpace ELSE number - shown})

\* emit_line: what the line shows of the bytes that follow those shown.
Line(c) == [k \in DOMAIN c |-> <<offset + Len(out) + k - 1, c[k]>>]

\* Hex's one Close, behind its loop.
HexEnd(code) == Return(code, {1})

\* The next line; the range or the file may end.
HexLine ==
  /\ pc = "read" /\ tool = "Hex"
  /\ \/ RangeLeft = 0 /\ HexEnd(0) /\ UNCHANGED <<at, out, short>>
     \/ RangeLeft > 0 /\ HexEnd(5) /\ UNCHANGED <<at, out, short>>
     \/ /\ RangeLeft > 0
        /\ LET want == Min({ReadSize, RangeLeft})
           IN  \E c \in Chunks(1, want) :
                 /\ at' = [at EXCEPT ![1] = @ + Len(c)]
                 /\ short' = (short \/ Len(c) < Min({want, Left(1)}))
                 /\ \/ c = <<>> /\ HexEnd(0) /\ UNCHANGED out
                    \/ c # <<>> /\ Wrote(Line(c)) /\ Goto("read")
                    \/ WriteFailed(Line(c)) /\ HexEnd(5)
  /\ UNCHANGED <<arguments, world, lines, pos, buf, text, emitted, diff, end>>

-----------------------------------------------------------------------------
\* What one file has more than the other is not looked at.
Compare_Common(d, l, r) ==
  LET unequal == {k \in 1..Min({Len(l), Len(r)}) : l[k] # r[k]}
  IN  [have |-> d.have \/ unequal # {},
       first |-> IF d.have \/ unequal = {} THEN d.first ELSE d.offset + Min(unequal) - 1,
       differing |-> d.differing + Cardinality(unequal),
       offset |-> d.offset + Max({Len(l), Len(r)})]

\* The first difference is that of the last chunk with one.
Compare_LastChunk(d, l, r) ==
  LET common == Min({Len(l), Len(r)})
      longest == Max({Len(l), Len(r)})
      unequal == {k \in 1..common : l[k] # r[k]} \cup (common + 1)..longest
  IN  [have |-> d.have \/ unequal # {},
       first |-> IF unequal = {} THEN d.first ELSE d.offset + Min(unequal) - 1,
       differing |-> d.differing + Cardinality(unequal),
       offset |-> d.offset + longest]

\* Two chunks, byte by byte, and what one has more than the other.
Compare(d, l, r) ==
  LET common == Min({Len(l), Len(r)})
      longest == Max({Len(l), Len(r)})
      unequal == {k \in 1..common : l[k] # r[k]} \cup (common + 1)..longest
  IN  [have |-> d.have \/ unequal # {},
       first |-> IF d.have \/ unequal = {} THEN d.first ELSE d.offset + Min(unequal) - 1,
       differing |-> d.differing + Cardinality(unequal),
       offset |-> d.offset + longest]

\* A read error closes only one of the two snapshots.
SnapDiffFails_OneClose == Return(5, {2})

\* A read error: Close of both.
SnapDiffFails == Return(5, {1, 2})

\* A Read of each snapshot; the loop ends when both are at their end.
SnapDiffRead ==
  /\ pc = "read" /\ tool = "SnapDiff"
  /\ \/ SnapDiffFails /\ UNCHANGED <<at, short, diff>>
     \/ \E l \in Chunks(1, ReadSize), r \in Chunks(2, ReadSize) :
          /\ at' = <<at[1] + Len(l), at[2] + Len(r)>>
          /\ short' = \/ short \/ Len(l) < Min({ReadSize, Left(1)})
                      \/ Len(r) < Min({ReadSize, Left(2)})
          /\ diff' = Compare(diff, l, r)
          /\ IF l = <<>> /\ r = <<>> THEN Return(IF diff.have THEN 5 ELSE 0, {1, 2})
                                     ELSE Goto("read")
  /\ UNCHANGED <<arguments, world, lines, pos, buf, text, emitted, out, end>>

\* Another task appends to a file (external).
Grow ==
  /\ pc # "done" /\ grown < MaxGrow /\ grown' = grown + 1
  /\ \E f \in 1..2, c \in Characters :
       /\ f = 2 => tool = "SnapDiff"
       /\ files' = [files EXCEPT ![f] = Append(@, c)]
  /\ UNCHANGED <<arguments, pc, rc, open, at, lines, pos, buf, text, emitted, diff, out,
                 short, end>>

Next ==
  \/ ParseArgs \/ OpenFile \/ OpenSecond \/ SeekStart
  \/ HeadRead \/ SeekEnd \/ TailBack \/ TailAll \/ TailRead
  \/ StringsRead \/ StringsScan \/ StringsNext \/ HexLine \/ SnapDiffRead \/ Grow

Spec == Init /\ [][Next]_vars

-----------------------------------------------------------------------------
(***************************************************************************)
(* What each tool is for, said of the whole file.                          *)
(***************************************************************************)
file == files[1]
LineCount == Cardinality(LineEnds(file))

FirstLines == IF LineCount < number THEN file ELSE SubSeq(file, 1, NthEnd(file, number))

\* The last lines, and after them what is not ended by a line end.
LastLines ==
  IF LineCount <= number THEN file
  ELSE SubSeq(file, NthEnd(file, LineCount - number) + 1, Len(file))

\* Where the run that includes p stops.
Stop(p) == Min({Len(file) + 1} \cup {q \in LineEnds(file) : q > p})

\* The longest runs of printable characters, each on a line of its own.
RunsFrom[p \in 1..(Len(file) + 1)] ==
  IF p > Len(file) THEN <<>>
  ELSE IF file[p] = "nl" THEN RunsFrom[p + 1]
  ELSE (IF Stop(p) - p >= number THEN SubSeq(file, p, Stop(p) - 1) \o <<"nl">> ELSE <<>>)
         \o RunsFrom[Stop(p)]

Runs == RunsFrom[1]

\* The bytes of the range, with their addresses.
Dump ==
  LET size == Min({Len(file), SeekSpace, IF number = NoLimit THEN SeekSpace ELSE offset + number})
  IN  [k \in 1..(size - offset) |-> <<offset + k - 1, file[offset + k]>>]

Expected ==
  CASE tool = "Head" -> FirstLines
    [] tool = "Tail" -> LastLines
    [] tool = "Strings" -> Runs
    [] tool = "Hex" -> Dump
    [] tool = "SnapDiff" -> <<>>

-----------------------------------------------------------------------------
(***************************************************************************)
(* Properties.                                                             *)
(***************************************************************************)
\* Every ending has closed the files.
NothingHeldAtExit == pc = "done" => open = {}

\* However the reads cut the file into pieces and whatever call fails, what
\* has been written so far is a beginning of what the whole file calls for.
OutputIsRightSoFar == out # <<>> /\ grown = 0 => IsPrefix(out, Expected)

\* Return code 0 means that all of it has been written, and for SnapDiff, whose
\* "Result=IDENTICAL" it is, that the snapshots are equal, even if a Read came
\* short.  Tail of a file that grows loses nothing of what the file held when
\* Tail looked for its end, from the place it chose on.
ZeroMeansWhole ==
  pc = "done" /\ rc = 0 =>
    /\ grown = 0 /\ ~NoWork => out = Expected
    /\ grown = 0 /\ tool = "SnapDiff" => files[1] = files[2]
    /\ tool = "Tail" /\ number > 0 =>
         \E e \in end..Len(file) : out = SubSeq(file, pos + 1, e)

\* As long as no Read came short, the first difference and the number of
\* differing bytes are those of the files; what one file has more differs.
DifferencesExact ==
  /\ pc = "done" /\ rc = 5 /\ tool = "SnapDiff" /\ grown = 0 /\ ~short
  /\ diff.have /\ \A f \in 1..2 : Left(f) = 0
  => LET longest == Max({Len(files[1]), Len(files[2])})
         same(k) == \A f \in 1..2 : k <= Len(files[f]) /\ files[f][k] = files[1][k]
         unequal == {k \in 1..longest : ~same(k)}
     IN  /\ diff.first = Min(unequal) - 1
         /\ diff.differing = Cardinality(unequal)
         /\ diff.offset = longest
=============================================================================
