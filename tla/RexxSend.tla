------------------------------ MODULE RexxSend ------------------------------
(***************************************************************************)
(* RexxSend: any number of processes, each sending one command to the same *)
(* named public port, and the program behind that port.                    *)
(*                                                                         *)
(* Exec is preemptive: a step of another task comes between any two steps  *)
(* of a client, except between Forbid and Permit.  The host program is     *)
(* external: it may publish its port, remove it (after answering what is   *)
(* queued), take a command, and answer it whenever it likes, or never.     *)
(***************************************************************************)
EXTENDS Integers, FiniteSets

CONSTANTS Clients, NoClient,
          Result1s            \* primary results a host may return

ASSUME RexxAssumption ==
  /\ NoClient \notin Clients
  /\ Result1s \subseteq Int /\ 0 \in Result1s

VARIABLES pc,        \* the step of each client
          held,      \* what it has allocated and not freed
          where,     \* where its RexxMsg is
          target,    \* did FindPort find the port?
          result,    \* rm_Result1 and "rm_Result2 is not 0", once answered
          rc,        \* the return code, Running before the return
          wild,      \* history: the client freed something it did not own
          forbid,    \* the client between Forbid and Permit
          portUp     \* is the host's port public?

vars == <<pc, held, where, target, result, rc, wild, forbid, portUp>>

Running == -1
NoResult == [result1 |-> Running, result2 |-> FALSE, known |-> FALSE]
Answers == [result1 : Result1s, result2 : BOOLEAN, known : {TRUE}]

Labels == {"start", "open", "port", "msg", "arg", "find", "put", "missing",
           "wait", "get", "report", "done"}
Resources == {"lib", "sig", "msg", "arg", "result"}
Places == {"nowhere", "client", "queue", "host", "reply"}

TypeOK ==
  /\ pc \in [Clients -> Labels]
  /\ held \in [Clients -> SUBSET Resources]
  /\ where \in [Clients -> Places]
  /\ target \in [Clients -> BOOLEAN]
  /\ result \in [Clients -> Answers \cup {NoResult}]
  /\ rc \in [Clients -> {Running, 0, 5, 10}]
  /\ wild \in [Clients -> BOOLEAN]
  /\ forbid \in Clients \cup {NoClient}
  /\ portUp \in BOOLEAN

Init ==
  /\ pc = [c \in Clients |-> "start"]
  /\ held = [c \in Clients |-> {}]
  /\ where = [c \in Clients |-> "nowhere"]
  /\ target = [c \in Clients |-> FALSE]
  /\ result = [c \in Clients |-> NoResult]
  /\ rc = [c \in Clients |-> Running]
  /\ wild = [c \in Clients |-> FALSE]
  /\ forbid = NoClient
  /\ portUp \in BOOLEAN

-----------------------------------------------------------------------------
\* A task runs unless another one has called Forbid.
CanRun(c) == forbid \in {NoClient, c}

At(c, l) == pc[c] = l /\ CanRun(c)
Goto(c, l) == pc' = [pc EXCEPT ![c] = l] /\ UNCHANGED rc
Return(c, code) == pc' = [pc EXCEPT ![c] = "done"] /\ rc' = [rc EXCEPT ![c] = code]

Own(c, r) == held' = [held EXCEPT ![c] = @ \cup r] /\ UNCHANGED wild
Free(c, r) == /\ held' = [held EXCEPT ![c] = @ \ r]
              /\ wild' = [wild EXCEPT ![c] = @ \/ ~(r \subseteq held[c])]
Put(c, place) == where' = [where EXCEPT ![c] = place]

\* One allocation: it succeeds, or everything in undo is freed and the tool
\* returns 5.
Allocate(c, from, r, to, undo) ==
  /\ At(c, from)
  /\ \/ Own(c, r) /\ Goto(c, to)
     \/ Free(c, undo) /\ Return(c, 5)

-----------------------------------------------------------------------------
ParseArgs(c) ==
  /\ At(c, "start")
  /\ Goto(c, "open") \/ Return(c, 10)
  /\ UNCHANGED <<held, where, target, result, wild, forbid, portUp>>

OpenRexx(c) ==
  /\ Allocate(c, "open", {"lib"}, "port", {})
  /\ UNCHANGED <<where, target, result, forbid, portUp>>

SetupReplyPort(c) ==
  /\ Allocate(c, "port", {"sig"}, "msg", {"lib"})
  /\ UNCHANGED <<where, target, result, forbid, portUp>>

CreateMsg(c) ==
  /\ Allocate(c, "msg", {"msg"}, "arg", {"sig", "lib"})
  /\ Put(c, IF pc'[c] = "arg" THEN "client" ELSE "nowhere")
  /\ UNCHANGED <<target, result, forbid, portUp>>

\* The message is not deleted when its argstring cannot be created.
CreateArg_KeepMsg(c) ==
  /\ Allocate(c, "arg", {"arg"}, "find", {"sig", "lib"})
  /\ Put(c, IF pc'[c] = "find" THEN "client" ELSE "nowhere")
  /\ UNCHANGED <<target, result, forbid, portUp>>

CreateArg(c) ==
  /\ Allocate(c, "arg", {"arg"}, "find", {"msg", "sig", "lib"})
  /\ Put(c, IF pc'[c] = "find" THEN "client" ELSE "nowhere")
  /\ UNCHANGED <<target, result, forbid, portUp>>

\* FindPort without the Forbid around it.
FindTarget_NoForbid(c) ==
  /\ At(c, "find")
  /\ target' = [target EXCEPT ![c] = portUp]
  /\ Goto(c, "put")
  /\ UNCHANGED <<held, where, result, wild, forbid, portUp>>

\* Forbid, FindPort.
FindTarget(c) ==
  /\ At(c, "find")
  /\ forbid' = c
  /\ target' = [target EXCEPT ![c] = portUp]
  /\ Goto(c, "put")
  /\ UNCHANGED <<held, where, result, wild, portUp>>

\* Permit is called only when there is no target.
PutTarget_NoPermit(c) ==
  /\ At(c, "put")
  /\ IF target[c] THEN Put(c, "queue") /\ Goto(c, "wait") /\ UNCHANGED forbid
                  ELSE UNCHANGED where /\ Goto(c, "missing") /\ forbid' = NoClient
  /\ UNCHANGED <<held, target, result, wild, portUp>>

\* PutMsg if there is a target, Permit.
PutTarget(c) ==
  /\ At(c, "put")
  /\ forbid' = NoClient
  /\ IF target[c] THEN Put(c, "queue") /\ Goto(c, "wait")
                  ELSE UNCHANGED where /\ Goto(c, "missing")
  /\ UNCHANGED <<held, target, result, wild, portUp>>

TargetMissing(c) ==
  /\ At(c, "missing")
  /\ Free(c, {"arg", "msg", "sig", "lib"}) /\ Put(c, "nowhere")
  /\ Return(c, 5)
  /\ UNCHANGED <<target, result, forbid, portUp>>

\* The tool does not block for the answer.
WaitReply_Polls(c) ==
  /\ At(c, "wait")
  /\ Goto(c, "get")
  /\ UNCHANGED <<held, where, target, result, wild, forbid, portUp>>

\* WaitPort: no timeout and no break check.
WaitReply(c) ==
  /\ At(c, "wait")
  /\ where[c] = "reply"
  /\ Goto(c, "get")
  /\ UNCHANGED <<held, where, target, result, wild, forbid, portUp>>

\* GetMsg; without a message the tool would keep its RexxMsg and argstring.
GetReply(c) ==
  /\ At(c, "get")
  /\ IF where[c] = "reply"
     THEN Put(c, "client") /\ Goto(c, "report") /\ UNCHANGED <<held, wild>>
     ELSE Free(c, {"sig", "lib"}) /\ Return(c, 5) /\ UNCHANGED where
  /\ UNCHANGED <<target, result, forbid, portUp>>

\* The cleanup at the end of main, and its return.
Finish(c, string, code) ==
  /\ At(c, "report")
  /\ Free(c, {"arg", "msg", "sig", "lib"} \cup string)
  /\ Put(c, "nowhere")
  /\ Return(c, code)
  /\ UNCHANGED <<target, result, forbid, portUp>>

\* rm_Result2 is a string, and the client's, only if rm_Result1 is 0.
StringIfOK(c) ==
  IF result[c].result1 = 0 /\ result[c].result2 THEN {"result"} ELSE {}

\* rm_Result2 is freed as a string whenever it is not 0.
Report_FreeSecondary(c) ==
  Finish(c, IF result[c].result2 THEN {"result"} ELSE {},
            IF result[c].result1 = 0 THEN 0 ELSE 5)

\* The host's rm_Result1 is returned as it is.
Report_RawResult1(c) == Finish(c, StringIfOK(c), result[c].result1)

\* The return code is taken from the exchange, not from the command.
Report_IgnoreResult1(c) == Finish(c, StringIfOK(c), 0)

\* RC is printed, then everything is freed.
Report(c) == Finish(c, StringIfOK(c), IF result[c].result1 = 0 THEN 0 ELSE 5)

-----------------------------------------------------------------------------
(***************************************************************************)
(* The host program (external).                                            *)
(***************************************************************************)
OpenPort ==
  /\ forbid = NoClient /\ ~portUp
  /\ portUp' = TRUE
  /\ UNCHANGED <<pc, held, where, target, result, rc, wild, forbid>>

\* RemPort after the queue has been emptied, both under the host's Forbid.
ClosePort ==
  /\ forbid = NoClient /\ portUp
  /\ \A c \in Clients : where[c] # "queue"
  /\ portUp' = FALSE
  /\ UNCHANGED <<pc, held, where, target, result, rc, wild, forbid>>

HostGet(c) ==
  /\ forbid = NoClient /\ portUp
  /\ where[c] = "queue" /\ Put(c, "host")
  /\ UNCHANGED <<pc, held, target, result, rc, wild, forbid, portUp>>

\* A result string is handed over with the reply.
HostReply(c) ==
  /\ forbid = NoClient
  /\ where[c] = "host" /\ Put(c, "reply")
  /\ \E a \in Answers :
       /\ result' = [result EXCEPT ![c] = a]
       /\ held' = [held EXCEPT ![c] =
                     @ \cup (IF a.result1 = 0 /\ a.result2 THEN {"result"} ELSE {})]
  /\ UNCHANGED <<pc, target, rc, wild, forbid, portUp>>

-----------------------------------------------------------------------------
Client(c) ==
  \/ ParseArgs(c) \/ OpenRexx(c) \/ SetupReplyPort(c) \/ CreateMsg(c)
  \/ CreateArg(c) \/ FindTarget(c) \/ PutTarget(c) \/ TargetMissing(c)
  \/ WaitReply(c) \/ GetReply(c) \/ Report(c)

Host == OpenPort \/ ClosePort \/ \E c \in Clients : HostGet(c) \/ HostReply(c)

Next == (\E c \in Clients : Client(c)) \/ Host

\* Exec runs every ready client.  The host is a stranger: no fairness.
Fairness == \A c \in Clients : WF_vars(Client(c))
Spec == Init /\ [][Next]_vars /\ Fairness

-----------------------------------------------------------------------------
(***************************************************************************)
(* Properties.                                                             *)
(***************************************************************************)
\* As long as a host can reach a command, everything it will touch exists:
\* the RexxMsg, its argstring, and the reply port with its signal, whose
\* client has not returned.
HostSeesLiveMessage ==
  \A c \in Clients :
    where[c] \in {"queue", "host"} => {"msg", "arg", "sig"} \subseteq held[c]
                                      /\ pc[c] # "done"

\* A command waits only at a port that is still public: Forbid keeps the port
\* from vanishing between FindPort and PutMsg.
NoOrphanCommand == \A c \in Clients : where[c] = "queue" => portUp

\* Every return path frees the library, signal, message, argstring and result;
\* so the "No ARexx reply received" path, which keeps two of them, is dead.  No
\* path frees what the client does not own, such as a secondary error code in
\* rm_Result2.
NothingHeldAtExit ==
  \A c \in Clients : ~wild[c] /\ (pc[c] = "done" => held[c] = {})

\* The exchange as the user sees it: RexxSend implements RexxExchange.
Phase(c) ==
  CASE pc[c] = "done" -> "closed"
    [] pc[c] # "done" /\ result[c].known -> "answered"
    [] pc[c] # "done" /\ ~result[c].known /\ where[c] \in {"queue", "host"} -> "sent"
    [] OTHER -> "local"

Exchange == INSTANCE RexxExchange WITH
  phase <- [c \in Clients |-> Phase(c)],
  answer <- [c \in Clients |-> IF result[c].known THEN result[c].result1
                                                 ELSE "no answer"],
  code <- rc

\* RexxSend is a RexxExchange: commands are sent at most once, never abandoned
\* once sent, and the return code is the one the ending calls for.
ImplementsExchange == Exchange!XSpec

\* A client that does not return is waiting for a host that has its command.
StuckOnlyOnHost ==
  \A c \in Clients :
    []<>(pc[c] = "done" \/ (pc[c] = "wait" /\ where[c] \in {"queue", "host"}))
=============================================================================
