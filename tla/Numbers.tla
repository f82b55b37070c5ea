------------------------------ MODULE Numbers ------------------------------
(***************************************************************************)
(* Numbers as text: the parsers of Timer and Bench, and ai_put_u32.        *)
(*                                                                         *)
(* A text is a sequence of digits 0 .. Base - 1; Base stands for every     *)
(* other character.  Arithmetic is that of unsigned words.                 *)
(***************************************************************************)
EXTENDS Integers, SequencesExt

CONSTANTS Base,            \* 10
          WordModulus,     \* 2^32
          MaxRequest,      \* 32767
          MaxLoops         \* 4000000000

ASSUME NumbersAssumption ==
  /\ {Base, WordModulus, MaxRequest, MaxLoops} \subseteq Nat
  /\ Base > 1 /\ Base <= MaxLoops
  /\ MaxRequest < WordModulus /\ MaxLoops < WordModulus

NotANumber == -1

Digits == 0..(Base - 1)

\* The loops of the parsers: Step takes the value so far and a digit.
Scan(s, Step(_, _)) ==
  LET value[k \in 0..Len(s)] ==
        IF k = 0 THEN 0
        ELSE IF value[k - 1] = NotANumber \/ s[k] \notin Digits THEN NotANumber
        ELSE Step(value[k - 1], s[k])
  IN  IF s = <<>> THEN NotANumber ELSE value[Len(s)]

\* parse_ticks: the new value is tested.
ParseTicks(s) ==
  Scan(s, LAMBDA v, d : IF v * Base + d > MaxRequest THEN NotANumber ELSE v * Base + d)

\* The new value is tested, which may have wrapped around.
ParseLoops_Late(s) ==
  LET n == Scan(s, LAMBDA v, d : LET w == (v * Base + d) % WordModulus
                                 IN  IF w > MaxLoops THEN NotANumber ELSE w)
  IN  IF n = 0 THEN NotANumber ELSE n

\* parse_loops: tested before it could wrap around; and 0 is refused.
ParseLoops(s) ==
  LET n == Scan(s, LAMBDA v, d : IF v > (MaxLoops - d) \div Base THEN NotANumber
                                 ELSE (v * Base + d) % WordModulus)
  IN  IF n = 0 THEN NotANumber ELSE n

\* ai_put_u32: the last digit first, from the end of the buffer.
PutU32(value) ==
  LET text[n \in 0..value] ==
        IF n < Base THEN <<n>> ELSE Append(text[n \div Base], n % Base)
  IN  text[value]

-----------------------------------------------------------------------------
(***************************************************************************)
(* What a text means.                                                      *)
(***************************************************************************)
IsNumeral(s) == s # <<>> /\ \A k \in DOMAIN s : s[k] \in Digits

Power[n \in Nat] == IF n = 0 THEN 1 ELSE Base * Power[n - 1]

\* The sum of the digits' weights.
Meaning(s) ==
  LET sum[k \in 0..Len(s)] ==
        IF k = 0 THEN 0 ELSE sum[k - 1] + s[k] * Power[Len(s) - k]
  IN  sum[Len(s)]
=============================================================================
