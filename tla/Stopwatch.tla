------------------------------ MODULE Stopwatch ------------------------------
(***************************************************************************)
(* Timer and Bench read a number, take a DateStamp before and after what   *)
(* they time, turn both stamps into ticks with stamp_ticks and print the   *)
(* difference, all in unsigned 32-bit arithmetic.                          *)
(*                                                                         *)
(* The numbers of the calendar are constants, so that a model has short    *)
(* days; the code has 24*60 minutes a day, 60 seconds a minute and 50      *)
(* ticks a second.                                                         *)
(***************************************************************************)
EXTENDS Program, Numbers

CONSTANTS MinutesPerDay, SecondsPerMinute, TicksPerSecond,
          BufferDigits,     \* digits that ai_put_u32's buffer has room for: 10
          MaxText,          \* bound on the length of an argument
          MaxDays           \* bound: the clock stops at the end of that day

ASSUME ClockAssumption ==
  /\ {MinutesPerDay, SecondsPerMinute, TicksPerSecond, BufferDigits} \subseteq Nat \ {0}
  /\ WordModulus <= Power[BufferDigits]
  /\ {MaxText, MaxDays} \subseteq Nat

VARIABLES clock,            \* the DateStamp of the system: days, minute, tick
          argc, typed,      \* argv[1]
          request,          \* requested, loops
          before, after,
          shown,            \* the text after "Elapsed ticks"
          passed            \* history: clock ticks between the two stamps

arguments == <<tool, argc, typed>>
watchVars == <<arguments, clock, pc, rc, request, before, after, shown, passed>>

TicksPerMinute == SecondsPerMinute * TicksPerSecond
Stamp == [days : 0..MaxDays, minute : 0..(MinutesPerDay - 1), tick : 0..(TicksPerMinute - 1)]

WatchTypeOK ==
  /\ clock \in Stamp /\ before \in Stamp /\ after \in Stamp
  /\ pc \in {"args", "before", "run", "print", "done"}
  /\ tool \in {"Timer", "Bench"}
  /\ argc \in 1..3 /\ typed \in Seq(0..Base)
  /\ request \in 0..Max({MaxRequest, MaxLoops})
  /\ shown \in Seq(Digits) /\ Len(shown) <= BufferDigits
  /\ passed \in Nat
  /\ rc \in {Running, 0, 10}

WatchInit ==
  /\ clock \in Stamp /\ before = clock /\ after = clock
  /\ pc = "args" /\ tool \in {"Timer", "Bench"}
  /\ argc \in 1..3 /\ typed \in BoundedSeq(0..Base, MaxText)
  /\ argc # 2 => typed = <<>>
  /\ request = 1 /\ shown = <<>> /\ passed = 0 /\ rc = Running

-----------------------------------------------------------------------------
\* The minutes are counted as seconds.
StampTicks_MinuteAsSecond(s) ==
  (s.days * MinutesPerDay * TicksPerSecond + s.minute * TicksPerSecond + s.tick)
    % WordModulus

\* stamp_ticks, as written: the day term has no seconds per minute.
StampTicks(s) ==
  (s.days * MinutesPerDay * TicksPerSecond + s.minute * SecondsPerMinute * TicksPerSecond
     + s.tick) % WordModulus

\* Without an argument the default is left: 1, which for Bench stands for
\* DEFAULT_LOOPS.
ParseArgs ==
  /\ pc = "args"
  /\ LET n == CASE argc = 1 -> request
                [] argc = 2 -> IF tool = "Timer" THEN ParseTicks(typed) ELSE ParseLoops(typed)
                [] OTHER -> NotANumber
     IN  \/ n = NotANumber /\ Return(10) /\ UNCHANGED request
         \/ n # NotANumber /\ Goto("before") /\ request' = n
  /\ UNCHANGED <<clock, arguments, before, after, shown, passed>>

StampBefore ==
  /\ pc = "before" /\ Goto("run")
  /\ before' = clock /\ passed' = 0
  /\ UNCHANGED <<clock, arguments, request, after, shown>>

\* Delay for requested > 0 (at least that many ticks pass), or Bench's loop.
StampAfter ==
  /\ pc = "run" /\ Goto("print")
  /\ tool = "Timer" => passed >= request
  /\ after' = clock
  /\ UNCHANGED <<clock, arguments, request, before, shown, passed>>

\* The difference is computed in more than a word.
PrintElapsed_Wide ==
  /\ pc = "print" /\ Return(0)
  /\ shown' = PutU32(WordModulus + StampTicks(after) - StampTicks(before))
  /\ UNCHANGED <<clock, arguments, request, before, after, passed>>

PrintElapsed ==
  /\ pc = "print" /\ Return(0)
  /\ shown' = PutU32((StampTicks(after) - StampTicks(before)) % WordModulus)
  /\ UNCHANGED <<clock, arguments, request, before, after, passed>>

\* The system clock (external).
Tick ==
  /\ pc # "done"
  /\ clock' =
       CASE clock.tick + 1 < TicksPerMinute -> [clock EXCEPT !.tick = @ + 1]
         [] clock.tick + 1 = TicksPerMinute /\ clock.minute + 1 < MinutesPerDay ->
              [clock EXCEPT !.tick = 0, !.minute = @ + 1]
         [] OTHER -> [days |-> clock.days + 1, minute |-> 0, tick |-> 0]
  /\ clock'.days <= MaxDays
  /\ passed' = IF pc = "run" THEN passed + 1 ELSE passed
  /\ UNCHANGED <<pc, arguments, request, before, after, shown, rc>>

WatchNext == ParseArgs \/ StampBefore \/ StampAfter \/ PrintElapsed \/ Tick

WatchSpec == WatchInit /\ [][WatchNext]_watchVars

-----------------------------------------------------------------------------
Printed == tool \in {"Timer", "Bench"} /\ pc = "done" /\ rc = 0

\* An argument is taken for the number it means, or refused: because it is no
\* numeral, or because it is out of range, however many digits it has.
RequestIsTyped ==
  argc = 2 /\ pc # "args" =>
    LET least == IF tool = "Timer" THEN 0 ELSE 1
        most == IF tool = "Timer" THEN MaxRequest ELSE MaxLoops
    IN  IF IsNumeral(typed) /\ Meaning(typed) \in least..most
        THEN rc # 10 /\ request = Meaning(typed) ELSE rc = 10

\* Within one day the printed text means the number of ticks that passed, also
\* when the tick counts themselves wrap around the 32-bit word, and its digits
\* fit the buffer of put_u32.
ElapsedExactWithinDay ==
  Printed /\ before.days = after.days =>
    /\ IsNumeral(shown) /\ Len(shown) <= BufferDigits
    /\ Meaning(shown) = passed % WordModulus

\* "Elapsed ticks" are the ticks that passed.
ElapsedExact == Printed /\ passed < WordModulus => Meaning(shown) = passed
=============================================================================
