------------------------------ MODULE Program ------------------------------
(***************************************************************************)
(* What the models of programs that run from main to a return code have in *)
(* common; a module that EXTENDS this one adds the program.                *)
(***************************************************************************)
EXTENDS Integers

VARIABLES pc, rc,   \* the place in main; the return code
          tool      \* which of the tools it is

Running == -1

Goto(l) == pc' = l /\ UNCHANGED rc
Return(code) == pc' = "done" /\ rc' = code
=============================================================================
