------------------------------ MODULE Serving ------------------------------
(***************************************************************************)
(* A running server: connections, the requests they carry, and the files   *)
(* requests leave behind.  The handler that HttpServer calls on a worker   *)
(* thread is a chat turn of a session (handle_chat), a look at a session   *)
(* or its deletion by an administrator (audited), a shutdown, or something *)
(* that touches none of these.                                             *)
(***************************************************************************)
EXTENDS HttpServer, Sessions, AuditChain

CONSTANT MaxRestarts    \* bound: times the process is started again

ASSUME MaxRestartsAssumption == MaxRestarts \in Nat

VARIABLES
  doing,      \* the handler a thread runs
  restarts

vars == <<httpVars, sessVars, auditVars, doing, restarts>>

Doing == {"nothing", "chat", "admin", "other"}

TypeOK ==
  /\ HttpTypeOK /\ SessTypeOK /\ AuditTypeOK
  /\ doing \in [Threads -> Doing]
  /\ restarts \in 0 .. MaxRestarts

Init ==
  /\ HttpInit /\ SessInit /\ AuditInit
  /\ doing = [t \in Threads |-> "nothing"]
  /\ restarts = 0

Do(t, what) == doing' = [doing EXCEPT ![t] = what]

\* server_handler picks the handler.
Free(t) == tpc[t] = "handle" /\ doing[t] = "nothing"

Chat(t) ==
  /\ Free(t)
  /\ \E c \in Clients : BeginTurn(t, c)
  /\ Do(t, "chat")
  /\ UNCHANGED <<httpVars, auditVars, restarts>>

\* handle_admin_session and handle_admin_session_delete: whatever happened to
\* the file, the action is recorded before it is answered.
Administer(t) ==
  /\ Free(t)
  /\ \/ UNCHANGED sessVars
     \/ \E c \in Clients : DeleteFile(c)
  /\ adding' = [adding EXCEPT ![t] = "compose"]
  /\ Do(t, "admin")
  /\ UNCHANGED <<httpVars, log, gseq, gprev, rec, hashes, crossed, torn, damaged, restarts>>

Other(t) ==
  /\ Free(t)
  /\ (UNCHANGED httpVars) \/ Stop(t)
  /\ Do(t, "other")
  /\ UNCHANGED <<sessVars, auditVars, restarts>>

\* The steps of a chat turn that nobody outside sees.
ChatWorks(t) ==
  /\ doing[t] = "chat"
  /\ \/ ReadHistory(t) \/ Unlock(t) \/ OpenFile(t) \/ OpenFails(t)
     \/ WriteFile(t) \/ WriteFails(t) \/ Collect(t)
     \/ ~streamed[t] /\ Infer(t)
     \/ ~streamed[t] /\ InferFails(t)
  /\ UNCHANGED <<httpVars, auditVars, doing, restarts>>

\* decode_loop ends a stream; or the stream is abandoned.
ChatStreams(t) ==
  /\ doing[t] = "chat"
  /\ streamed[t]
  /\ \/ Infer(t) /\ StreamDone(t)
     \/ InferFails(t) /\ StreamFails(t)
  /\ UNCHANGED <<auditVars, doing, restarts>>

\* handle_chat returns after it streamed.
ChatLeaves(t) ==
  /\ doing[t] = "chat"
  /\ StreamReturns(t)
  /\ Leave(t)
  /\ Do(t, "nothing")
  /\ UNCHANGED <<auditVars, restarts>>

AdminWorks(t) ==
  /\ doing[t] = "admin"
  /\ AddStep(t)
  /\ UNCHANGED <<httpVars, sessVars, doing, restarts>>

\* The handler has a response to send.
Ready(t) ==
  CASE doing[t] = "chat"  -> spc[t] = "answer" \/ (spc[t] = "leave" /\ ~streamed[t])
    [] doing[t] = "admin" -> adding[t] = "no"
    [] OTHER              -> doing[t] = "other"

Respond(t) ==
  /\ Ready(t)
  /\ HandlerReturns(t)
  /\ UNCHANGED <<sessVars, auditVars, doing, restarts>>

Send(t) ==
  /\ SendResponse(t)
  /\ IF doing[t] = "chat" THEN Answer(t) \/ Leave(t) ELSE UNCHANGED sessVars
  /\ Do(t, "nothing")
  /\ UNCHANGED <<auditVars, restarts>>

\* What threads do outside a handler.
Network ==
  /\ \/ \E c \in Conns : Accept(c)
     \/ AcceptStep
     \/ \E t \in Threads : PopWaits(t) \/ Pop(t) \/ ReadRequest(t) \/ Refuse(t) \/ SpuriousPop(t)
  /\ UNCHANGED <<sessVars, auditVars, doing, restarts>>

\* The process ends (vllm_server_run returns while workers may still run, or a
\* crash) and is started again.
Restart ==
  /\ restarts < MaxRestarts
  /\ restarts' = restarts + 1
  /\ HttpRestart /\ SessRestart /\ AuditRestart
  /\ doing' = [t \in Threads |-> "nothing"]

Outside ==
  /\ Archive \/ Damage
  /\ UNCHANGED <<httpVars, sessVars, doing, restarts>>

Handler(t) ==
  \/ Chat(t) \/ Administer(t) \/ Other(t) \/ ChatWorks(t) \/ ChatStreams(t) \/ ChatLeaves(t)
  \/ AdminWorks(t) \/ Respond(t) \/ Send(t)

Next == Network \/ (\E t \in Threads : Handler(t)) \/ Restart \/ Outside

Spec == Init /\ [][Next]_vars
=============================================================================
