--------------------------- MODULE RexxSendProofs ---------------------------
(***************************************************************************)
(* Proofs about RexxSend for any number of clients and any primary         *)
(* results: what a client owns, where its message is, and that it carries  *)
(* out a RexxExchange.                                                     *)
(***************************************************************************)
EXTENDS RexxSend, TLAPS

\* The step of a client determines what it owns and where its message is.
Local(c, l, place, owned) ==
  pc[c] = l => where[c] = place /\ held[c] = owned /\ ~result[c].known

Sent == {"lib", "sig", "msg", "arg"}

Answered(c) == result[c].known /\ held[c] = Sent \cup StringIfOK(c)

ClientOK(c) ==
  /\ Local(c, "start", "nowhere", {}) /\ Local(c, "open", "nowhere", {})
  /\ Local(c, "port", "nowhere", {"lib"})
  /\ Local(c, "msg", "nowhere", {"lib", "sig"})
  /\ Local(c, "arg", "client", {"lib", "sig", "msg"})
  /\ Local(c, "find", "client", Sent) /\ Local(c, "put", "client", Sent)
  /\ Local(c, "missing", "client", Sent)
  /\ pc[c] = "wait" =>
       \/ where[c] \in {"queue", "host"} /\ ~result[c].known /\ held[c] = Sent
       \/ where[c] = "reply" /\ Answered(c)
  /\ pc[c] = "get" => where[c] = "reply" /\ Answered(c)
  /\ pc[c] = "report" => where[c] = "client" /\ Answered(c)
  /\ pc[c] = "done" => where[c] = "nowhere" /\ held[c] = {}
  /\ (pc[c] = "done") = (rc[c] # Running)
  /\ ~wild[c]

\* Between Forbid and Permit exactly one client, and what it saw is current.
ForbidOK ==
  \A c \in Clients :
    /\ pc[c] = "put" => forbid = c
    /\ forbid = c => pc[c] = "put" /\ (target[c] => portUp)

IndInv ==
  /\ TypeOK /\ (\A c \in Clients : ClientOK(c)) /\ ForbidOK /\ NoOrphanCommand

-----------------------------------------------------------------------------
USE RexxAssumption DEF RexxAssumption

\* The invariant holds before any client runs.
LEMMA InitInv == Init => IndInv
BY DEF Init, IndInv, TypeOK, ClientOK, Local, ForbidOK, NoOrphanCommand, Labels,
       Places, NoResult, Running

\* The steps before the message is sent.
LEMMA PrepareStep ==
  ASSUME IndInv, NEW c \in Clients,
         ParseArgs(c) \/ OpenRexx(c) \/ SetupReplyPort(c) \/ CreateMsg(c) \/ CreateArg(c)
  PROVE  IndInv'
<1> USE DEF IndInv, ParseArgs, OpenRexx, SetupReplyPort, CreateMsg, CreateArg,
            Allocate, At, CanRun, Goto, Return, Own, Free, Put
<1>1. TypeOK'
  <2>1. wild' \in [Clients -> BOOLEAN]
    BY DEF TypeOK
  <2>2. held' \in [Clients -> SUBSET Resources]
    BY DEF TypeOK, Resources
  <2>3. QED BY <2>1, <2>2 DEF TypeOK, Labels, Places, Running
<1>2. \A d \in Clients : ClientOK(d)'
  BY DEF TypeOK, ClientOK, Local, Sent, Answered, StringIfOK, Running
<1>3. ForbidOK' /\ NoOrphanCommand'
  BY DEF TypeOK, ForbidOK, NoOrphanCommand
<1>4. QED BY <1>1, <1>2, <1>3

\* Forbid, FindPort, PutMsg, Permit.
LEMMA SendStep ==
  ASSUME IndInv, NEW c \in Clients, FindTarget(c) \/ PutTarget(c)
  PROVE  IndInv'
<1> USE DEF IndInv, FindTarget, PutTarget, At, CanRun, Goto, Put
<1>1. TypeOK'
  BY DEF TypeOK, Labels, Places
<1>2. \A d \in Clients : ClientOK(d)'
  BY DEF TypeOK, ClientOK, Local, Sent, Answered, StringIfOK, Running
<1>3. ForbidOK' /\ NoOrphanCommand'
  BY DEF TypeOK, ForbidOK, NoOrphanCommand
<1>4. QED BY <1>1, <1>2, <1>3

\* The steps after it: every ending frees exactly what is owned.
LEMMA EndStep ==
  ASSUME IndInv, NEW c \in Clients,
         TargetMissing(c) \/ WaitReply(c) \/ GetReply(c) \/ Report(c)
  PROVE  IndInv'
<1> USE DEF IndInv, TargetMissing, WaitReply, GetReply, Report, Finish, At,
            CanRun, Goto, Return, Free, Put
<1>1. TypeOK'
  <2>1. wild' \in [Clients -> BOOLEAN]
    BY DEF TypeOK
  <2>2. QED BY <2>1 DEF TypeOK, Labels, Places, Running
<1>2. \A d \in Clients : ClientOK(d)'
  BY DEF TypeOK, ClientOK, Local, Sent, Answered, StringIfOK, Running
<1>3. ForbidOK' /\ NoOrphanCommand'
  BY DEF TypeOK, ForbidOK, NoOrphanCommand
<1>4. QED BY <1>1, <1>2, <1>3

\* The host acts only outside Forbid, and never strands a queued command.
LEMMA PortStep ==
  ASSUME IndInv, OpenPort \/ ClosePort \/ \E c \in Clients : HostGet(c)
  PROVE  IndInv'
<1> USE DEF IndInv, OpenPort, ClosePort, HostGet, Put
<1>1. TypeOK'
  BY DEF TypeOK, Places
<1>2. \A d \in Clients : ClientOK(d)'
  BY DEF TypeOK, ClientOK, Local, Sent, Answered, StringIfOK, Running
<1>3. ForbidOK' /\ NoOrphanCommand'
  BY DEF TypeOK, ForbidOK, NoOrphanCommand
<1>4. QED BY <1>1, <1>2, <1>3

\* A reply hands a result string over exactly when rm_Result1 is 0.
LEMMA ReplyStep == ASSUME IndInv, NEW c \in Clients, HostReply(c) PROVE IndInv'
<1> USE DEF IndInv, HostReply, Put
<1>0. PICK a \in Answers :
        /\ result' = [result EXCEPT ![c] = a]
        /\ held' = [held EXCEPT ![c] =
                      @ \cup (IF a.result1 = 0 /\ a.result2 THEN {"result"} ELSE {})]
  OBVIOUS
<1>1. TypeOK'
  <2>1. held' \in [Clients -> SUBSET Resources]
    BY <1>0 DEF TypeOK, Resources
  <2>2. QED BY <1>0, <2>1 DEF TypeOK, Places
<1>2. ASSUME NEW d \in Clients PROVE ClientOK(d)'
  <2>1. CASE d = c
    <3>1. a.known
      BY DEF Answers
    <3>2. pc[c] = "wait" /\ held[c] = Sent
      BY DEF TypeOK, Labels, ClientOK, Local
    <3>3. held'[c] = Sent \cup StringIfOK(c)' /\ result'[c].known
      BY <1>0, <3>1, <3>2 DEF TypeOK, StringIfOK
    <3>4. QED BY <2>1, <3>2, <3>3 DEF TypeOK, ClientOK, Local, Answered
  <2>2. CASE d # c
    BY <1>0, <2>2 DEF TypeOK, ClientOK, Local, Answered, StringIfOK
  <2>3. QED BY <2>1, <2>2
<1>3. ForbidOK' /\ NoOrphanCommand'
  BY DEF TypeOK, ForbidOK, NoOrphanCommand
<1>4. QED BY <1>1, <1>2, <1>3

\* Every step of every actor keeps the invariant.
LEMMA NextInv == IndInv /\ [Next]_vars => IndInv'
<1> SUFFICES ASSUME IndInv, [Next]_vars PROVE IndInv'
  OBVIOUS
<1>1. CASE UNCHANGED vars
  BY <1>1 DEF vars, IndInv, TypeOK, ClientOK, Local, Answered, StringIfOK,
              ForbidOK, NoOrphanCommand
<1>2. ASSUME NEW c \in Clients, Client(c) PROVE IndInv'
  BY <1>2, PrepareStep, SendStep, EndStep DEF Client
<1>3. CASE Host
  BY <1>3, PortStep, ReplyStep DEF Host
<1>4. QED BY <1>1, <1>2, <1>3 DEF Next

\* The inductive invariant holds in every reachable state.
LEMMA Invariance == Spec => []IndInv
BY InitInv, NextInv, PTL DEF Spec

-----------------------------------------------------------------------------
\* Every variable of the exchange keeps its type.
THEOREM TypeCorrect == Spec => []TypeOK
<1>1. IndInv => TypeOK
  BY DEF IndInv
<1>2. QED BY <1>1, Invariance, PTL

\* A host never reaches a message, argstring or reply port that RexxSend has
\* freed, whatever the host does and however long it takes.
THEOREM LiveMessage == Spec => []HostSeesLiveMessage
<1>1. IndInv => HostSeesLiveMessage
  BY DEF IndInv, TypeOK, Labels, ClientOK, Local, Answered, Sent, HostSeesLiveMessage
<1>2. QED BY <1>1, Invariance, PTL

\* Forbid around FindPort and PutMsg keeps commands off removed ports.
THEOREM NoOrphan == Spec => []NoOrphanCommand
<1>1. IndInv => NoOrphanCommand
  BY DEF IndInv
<1>2. QED BY <1>1, Invariance, PTL

\* Every ending frees everything, and only what the client owned.
THEOREM CleanExit == Spec => []NothingHeldAtExit
<1>1. IndInv => NothingHeldAtExit
  BY DEF IndInv, ClientOK, NothingHeldAtExit
<1>2. QED BY <1>1, Invariance, PTL

-----------------------------------------------------------------------------
(***************************************************************************)
(* RexxSend implements RexxExchange.  A step that changes one client's     *)
(* phase is that client's abstract step; all others leave it where it is.  *)
(***************************************************************************)
AbsPhase == [c \in Clients |-> Phase(c)]
AbsAnswer == [c \in Clients |-> IF result[c].known THEN result[c].result1
                                                  ELSE "no answer"]

\* What the four abstract steps and the stutter look like from below.
LEMMA AbstractStep ==
  ASSUME NEW c \in Clients,
         \/ UNCHANGED <<AbsPhase, AbsAnswer, rc>>
         \/ /\ AbsPhase[c] = "local" /\ AbsPhase' = [AbsPhase EXCEPT ![c] = "sent"]
            /\ UNCHANGED <<AbsAnswer, rc>>
         \/ /\ AbsPhase[c] = "sent" /\ AbsPhase' = [AbsPhase EXCEPT ![c] = "answered"]
            /\ \E r \in Result1s : AbsAnswer' = [AbsAnswer EXCEPT ![c] = r]
            /\ UNCHANGED rc
         \/ /\ AbsPhase[c] = "local" /\ AbsPhase' = [AbsPhase EXCEPT ![c] = "closed"]
            /\ \E k \in {5, 10} : rc' = [rc EXCEPT ![c] = k]
            /\ UNCHANGED AbsAnswer
         \/ /\ AbsPhase[c] = "answered" /\ AbsPhase' = [AbsPhase EXCEPT ![c] = "closed"]
            /\ rc' = [rc EXCEPT ![c] = IF AbsAnswer[c] = 0 THEN 0 ELSE 5]
            /\ UNCHANGED AbsAnswer
  PROVE  [Exchange!XNext]_(Exchange!xvars)
BY DEF AbsPhase, AbsAnswer, Exchange!XNext, Exchange!XSend, Exchange!XAnswer,
       Exchange!XRefuse, Exchange!XReport, Exchange!xvars

\* A client's step changes no phase but its own.
LEMMA OthersKeepPhase ==
  ASSUME TypeOK, NEW c \in Clients, Client(c) \/ HostGet(c) \/ HostReply(c),
         NEW d \in Clients, d # c
  PROVE  Phase(d)' = Phase(d) /\ result'[d] = result[d]
<1>1. pc'[d] = pc[d] /\ where'[d] = where[d] /\ result'[d] = result[d]
  BY DEF TypeOK, Client, ParseArgs, OpenRexx, SetupReplyPort, CreateMsg,
         CreateArg, FindTarget, PutTarget, TargetMissing, WaitReply, GetReply,
         Report, Finish, Allocate, Goto, Return, Put, HostGet, HostReply
<1>2. QED BY <1>1 DEF Phase

\* A client's own step: it stays in its phase, sends, refuses or reports.
LEMMA OwnPhase ==
  ASSUME IndInv, NEW c \in Clients, Client(c)
  PROVE  /\ result' = result
         /\ \/ Phase(c)' = Phase(c) /\ rc' = rc
            \/ Phase(c) = "local" /\ Phase(c)' = "sent" /\ rc' = rc
            \/ /\ Phase(c) = "local" /\ Phase(c)' = "closed"
               /\ \E k \in {5, 10} : rc' = [rc EXCEPT ![c] = k]
            \/ /\ Phase(c) = "answered" /\ Phase(c)' = "closed" /\ result[c].known
               /\ rc' = [rc EXCEPT ![c] = IF result[c].result1 = 0 THEN 0 ELSE 5]
<1> USE DEF IndInv, TypeOK, ClientOK, Local, Answered, Phase, At, CanRun, Goto, Return, Put
<1>1. CASE ParseArgs(c) \/ OpenRexx(c) \/ SetupReplyPort(c) \/ CreateMsg(c) \/ CreateArg(c)
  BY <1>1 DEF ParseArgs, OpenRexx, SetupReplyPort, CreateMsg, CreateArg, Allocate
<1>2. CASE FindTarget(c) \/ PutTarget(c)
  BY <1>2 DEF FindTarget, PutTarget
<1>3. CASE TargetMissing(c)
  BY <1>3 DEF TargetMissing
<1>4. CASE WaitReply(c) \/ GetReply(c)
  BY <1>4 DEF WaitReply, GetReply
<1>5. CASE Report(c)
  BY <1>5 DEF Report, Finish
<1>6. QED BY <1>1, <1>2, <1>3, <1>4, <1>5 DEF Client

\* Every step is an abstract step or leaves the exchange alone.
LEMMA NextRefines == IndInv /\ [Next]_vars => [Exchange!XNext]_(Exchange!xvars)
<1> SUFFICES ASSUME IndInv, [Next]_vars PROVE [Exchange!XNext]_(Exchange!xvars)
  OBVIOUS
<1>1. CASE UNCHANGED vars \/ OpenPort \/ ClosePort
  BY <1>1 DEF vars, OpenPort, ClosePort, Exchange!xvars, Phase
<1>2. ASSUME NEW c \in Clients, Client(c) PROVE [Exchange!XNext]_(Exchange!xvars)
  <2>1. \A d \in Clients : d # c => Phase(d)' = Phase(d)
    BY <1>2, OthersKeepPhase DEF IndInv
  <2>2. AbsPhase' = [AbsPhase EXCEPT ![c] = Phase(c)']
    BY <2>1 DEF AbsPhase
  <2>3. AbsAnswer' = AbsAnswer
    BY <1>2, OwnPhase DEF AbsAnswer
  <2>4. AbsPhase[c] = Phase(c) /\ (result[c].known => AbsAnswer[c] = result[c].result1)
    BY DEF AbsPhase, AbsAnswer
  <2>5. AbsPhase = [AbsPhase EXCEPT ![c] = Phase(c)]
    BY DEF AbsPhase
  <2>6. QED BY <1>2, <2>2, <2>3, <2>4, <2>5, OwnPhase, AbstractStep
<1>3. ASSUME NEW c \in Clients, HostGet(c) PROVE [Exchange!XNext]_(Exchange!xvars)
  <2>1. \A d \in Clients : Phase(d)' = Phase(d)
    BY <1>3, OthersKeepPhase DEF IndInv, TypeOK, HostGet, Put, Phase
  <2>2. QED BY <1>3, <2>1 DEF HostGet, Exchange!xvars
<1>4. ASSUME NEW c \in Clients, HostReply(c) PROVE [Exchange!XNext]_(Exchange!xvars)
  <2>1. \A d \in Clients : d # c => Phase(d)' = Phase(d) /\ result'[d] = result[d]
    BY <1>4, OthersKeepPhase DEF IndInv
  <2>2. PICK a \in Answers : result' = [result EXCEPT ![c] = a]
    BY <1>4 DEF HostReply
  <2>3. result'[c].known /\ result'[c].result1 \in Result1s
    BY <2>2 DEF IndInv, TypeOK, Answers
  <2>4. pc[c] = "wait" /\ ~result[c].known /\ where[c] = "host"
    BY <1>4 DEF HostReply, IndInv, TypeOK, Labels, ClientOK, Local
  <2>5. Phase(c) = "sent" /\ Phase(c)' = "answered"
    BY <1>4, <2>3, <2>4 DEF Phase, HostReply
  <2>6. AbsPhase[c] = "sent" /\ AbsPhase' = [AbsPhase EXCEPT ![c] = "answered"]
    BY <2>1, <2>5 DEF AbsPhase
  <2>7. AbsAnswer' = [AbsAnswer EXCEPT ![c] = result'[c].result1]
    BY <2>1, <2>3 DEF AbsAnswer
  <2>8. rc' = rc
    BY <1>4 DEF HostReply
  <2>9. QED BY <2>3, <2>6, <2>7, <2>8, AbstractStep
<1>5. QED BY <1>1, <1>2, <1>3, <1>4 DEF Next, Host

\* RexxSend carries out a RexxExchange: at most one delivery per run, no
\* abandoned command, and a return code of 0 exactly for an answer of 0.
THEOREM Refinement == Spec => ImplementsExchange
<1>1. Init => Exchange!XInit
  BY DEF Init, Exchange!XInit, Exchange!NoAnswer, Phase, NoResult, Running
<1>2. QED BY <1>1, NextRefines, Invariance, PTL DEF Spec, ImplementsExchange, Exchange!XSpec
=============================================================================
