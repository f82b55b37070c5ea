---------------------------- MODULE RexxExchange ----------------------------
(***************************************************************************)
(* What RexxSend promises, without ports, signals or allocations: each     *)
(* command is delivered at most once, a delivered command is never         *)
(* abandoned before its answer, and the return code tells which of the     *)
(* three endings happened.  An answer is 0 (the command succeeded) or      *)
(* anything else.                                                          *)
(***************************************************************************)
EXTENDS Integers

CONSTANTS Clients,   \* the RexxSend processes
          Result1s   \* the primary results a host may return

NoAnswer == "no answer"

VARIABLES phase, answer, code

xvars == <<phase, answer, code>>

XInit ==
  /\ phase = [c \in Clients |-> "local"]
  /\ answer = [c \in Clients |-> NoAnswer]
  /\ code = [c \in Clients |-> -1]

\* The command reaches the host's port.
XSend(c) ==
  /\ phase[c] = "local"
  /\ phase' = [phase EXCEPT ![c] = "sent"]
  /\ UNCHANGED <<answer, code>>

\* The host answers.
XAnswer(c) ==
  /\ phase[c] = "sent"
  /\ phase' = [phase EXCEPT ![c] = "answered"]
  /\ \E r \in Result1s : answer' = [answer EXCEPT ![c] = r]
  /\ UNCHANGED code

\* The tool gives up before it has sent anything.
XRefuse(c) ==
  /\ phase[c] = "local"
  /\ phase' = [phase EXCEPT ![c] = "closed"]
  /\ \E k \in {5, 10} : code' = [code EXCEPT ![c] = k]
  /\ UNCHANGED answer

\* The tool reports the answer.
XReport(c) ==
  /\ phase[c] = "answered"
  /\ phase' = [phase EXCEPT ![c] = "closed"]
  /\ code' = [code EXCEPT ![c] = IF answer[c] = 0 THEN 0 ELSE 5]
  /\ UNCHANGED answer

XNext == \E c \in Clients : XSend(c) \/ XAnswer(c) \/ XRefuse(c) \/ XReport(c)

XSpec == XInit /\ [][XNext]_xvars
=============================================================================
