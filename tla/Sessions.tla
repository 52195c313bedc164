------------------------------ MODULE Sessions ------------------------------
(***************************************************************************)
(* Server-side conversations (src/src/serve/vllm_session.c and the parts   *)
(* of handle_chat that use it): a request with a session_id and a query    *)
(* reads the session's file, appends its question, runs, appends the       *)
(* answer and writes the file back.  One without a query carries its own   *)
(* messages: they take the place of what the file holds.  Reading happens  *)
(* before the inference lock and writing around its release, and the file  *)
(* is rewritten in place.                                                  *)
(*                                                                         *)
(* A turn (question and answer) is its number in its session; a file holds *)
(* the turns of the timeline that was written last, and is whole or cut.   *)
(* Abstracted: metadata of the file, partition names (no hash collisions). *)
(***************************************************************************)
EXTENDS ServerThreads, SequencesExt

CONSTANTS
  Clients,      \* each has one session (tenant, user, session id)
  Turns,        \* bound: questions of a client
  SessionLimit  \* files kept (session_limit)

ASSUME ClientsAssumption == IsFiniteSet(Clients)
ASSUME TurnsAssumption == Turns \in Nat
ASSUME SessionLimitAssumption == SessionLimit \in Nat \ {0}

VARIABLES
  file,      \* each session's file: exists, whole, the turns in it, age
  spc,       \* where the request on each thread is
  owner,     \* its client
  turn,      \* its turn
  streamed,  \* it streams its answer
  own,       \* it carries its own messages and no query
  text,      \* it is a text request on the serial path, the only ones written back
  timeline,  \* __sess_timeline: what it read, and its own turn
  inf,       \* holder of inf_lock
  asked,     \* turns a client has asked
  waiting,   \* a client waits for an answer
  told,      \* turns a client has the answer of
  kept,      \* ghost: turns of the conversation written since the file was last
             \* deleted, collected or cut
  raced      \* ghost: a request read it while another one held a timeline of it

reqVars    == <<owner, turn, streamed, own, text>>
clientVars == <<asked, waiting, told>>
ghosts     == <<kept, raced>>
sessVars   == <<file, spc, reqVars, timeline, inf, clientVars, ghosts>>

NoFile == [exists |-> FALSE, whole |-> TRUE, turns |-> <<>>, age |-> 0]
Nobody == "nobody"

SessAt == {"idle", "read", "infer", "unlock", "open", "write", "collect", "answer", "leave"}

SessTypeOK ==
  /\ \A c \in Clients : /\ DOMAIN file[c] = {"exists", "whole", "turns", "age"}
                        /\ file[c].exists \in BOOLEAN /\ file[c].whole \in BOOLEAN
                        /\ Range(file[c].turns) \subseteq 1 .. Turns
                        /\ file[c].age \in 0 .. Cardinality(Clients)
  /\ spc \in [Threads -> SessAt]
  /\ owner \in [Threads -> Clients \cup {Nobody}] /\ turn \in [Threads -> 0 .. Turns]
  /\ streamed \in [Threads -> BOOLEAN] /\ own \in [Threads -> BOOLEAN]
  /\ text \in [Threads -> BOOLEAN]
  /\ \A t \in Threads : Range(timeline[t]) \subseteq 1 .. Turns
  /\ inf \in Threads \cup {Nobody}
  /\ asked \in [Clients -> 0 .. Turns] /\ waiting \in [Clients -> BOOLEAN]
  /\ told \in [Clients -> SUBSET (1 .. Turns)] /\ kept \in [Clients -> SUBSET (1 .. Turns)]
  /\ raced \in [Clients -> BOOLEAN]

SessInit ==
  /\ file = [c \in Clients |-> NoFile]
  /\ spc = [t \in Threads |-> "idle"]
  /\ owner = [t \in Threads |-> Nobody]
  /\ turn = [t \in Threads |-> 0]
  /\ streamed = [t \in Threads |-> FALSE] /\ own = [t \in Threads |-> FALSE]
  /\ text = [t \in Threads |-> FALSE]
  /\ timeline = [t \in Threads |-> <<>>]
  /\ inf = Nobody
  /\ asked = [c \in Clients |-> 0] /\ waiting = [c \in Clients |-> FALSE]
  /\ told = [c \in Clients |-> {}] /\ kept = [c \in Clients |-> {}]
  /\ raced = [c \in Clients |-> FALSE]

\* Requests of session c other than t's that hold a timeline of it.
Rivals(t, c) ==
  {u \in Threads \ {t} : owner[u] = c /\ spc[u] \in {"infer", "unlock", "open", "write"}}

\* The request on t is over; its locals are gone.
Forget(t) ==
  /\ spc' = [spc EXCEPT ![t] = "idle"]
  /\ owner' = [owner EXCEPT ![t] = Nobody] /\ turn' = [turn EXCEPT ![t] = 0]
  /\ streamed' = [streamed EXCEPT ![t] = FALSE] /\ own' = [own EXCEPT ![t] = FALSE]
  /\ text' = [text EXCEPT ![t] = FALSE]
  /\ timeline' = [timeline EXCEPT ![t] = <<>>]

At(t, at) == spc' = [spc EXCEPT ![t] = at]

\* A client asks its next turn when the last request is over for it.
MayAsk(c) == asked[c] < Turns /\ ~waiting[c]

BeginTurn(t, c) ==
  /\ spc[t] = "idle"
  /\ MayAsk(c)
  /\ asked' = [asked EXCEPT ![c] = @ + 1]
  /\ waiting' = [waiting EXCEPT ![c] = TRUE]
  /\ owner' = [owner EXCEPT ![t] = c]
  /\ turn' = [turn EXCEPT ![t] = asked[c] + 1]
  /\ \E s, o, m \in BOOLEAN : /\ streamed' = [streamed EXCEPT ![t] = s]
                             /\ own' = [own EXCEPT ![t] = o]
                             /\ text' = [text EXCEPT ![t] = m]
  /\ At(t, "read")
  /\ UNCHANGED <<file, timeline, inf, told, ghosts>>

\* vllm_sess_read and vllm_sess_parse: a missing or cut file is no history.
History(c) == IF file[c].exists /\ file[c].whole THEN file[c].turns ELSE <<>>

\* What a client may send as the conversation before its question: some of what it
\* asked before, in order; context_mode leaves out all but the last of that.
Arrays(n) == {s \in UNION {[1 .. k -> 1 .. n] : k \in 0 .. n} :
                \A i, j \in DOMAIN s : i < j => s[i] < s[j]}

\* (mutation: the stored messages do not reach the timeline)
NoPast(t) == IF own[t] THEN Arrays(turn[t] - 1) ELSE {<<>>}

Past(t) == IF own[t] THEN Arrays(turn[t] - 1) ELSE {History(owner[t])}

\* handle_chat before the inference: the stored messages, or the client's own, and
\* this question.
ReadHistory(t) ==
  /\ spc[t] = "read"
  /\ \E past \in Past(t) : timeline' = [timeline EXCEPT ![t] = Append(past, turn[t])]
  /\ raced' = [raced EXCEPT ![owner[t]] = @ \/ Rivals(t, owner[t]) # {}]
  /\ At(t, "infer")
  /\ UNCHANGED <<file, reqVars, inf, clientVars, kept>>

\* The client of the request has its answer, or an error instead of one.
Tell(t) == /\ told' = [told EXCEPT ![owner[t]] = @ \cup {turn[t]}]
           /\ waiting' = [waiting EXCEPT ![owner[t]] = FALSE]
Drop(t) == waiting' = [waiting EXCEPT ![owner[t]] = FALSE] /\ UNCHANGED told

\* The inference under inf_lock.  A stream is complete, and its client told,
\* before run_completion returns.
Infer(t) ==
  /\ spc[t] = "infer"
  /\ inf = Nobody
  /\ inf' = t
  /\ IF streamed[t] THEN Tell(t) ELSE UNCHANGED <<told, waiting>>
  /\ At(t, IF streamed[t] /\ text[t] THEN "open" ELSE "unlock")
  /\ UNCHANGED <<file, reqVars, timeline, asked, ghosts>>

\* It fails: nothing is written.
InferFails(t) ==
  /\ spc[t] = "infer"
  /\ inf = Nobody
  /\ At(t, "leave")
  /\ UNCHANGED <<file, reqVars, timeline, inf, clientVars, ghosts>>

\* infer_done: before the write when not streaming, after it when streaming.
Unlock(t) ==
  /\ spc[t] = "unlock"
  /\ inf' = Nobody
  /\ At(t, IF streamed[t] THEN "leave" ELSE IF text[t] THEN "open" ELSE "answer")
  /\ UNCHANGED <<file, reqVars, timeline, clientVars, ghosts>>

AfterWrite(t) == IF streamed[t] THEN "unlock" ELSE "answer"

\* A file written now is the newest; those that were newer than it move up.
Aged(c) ==
  [d \in Clients |-> IF d = c THEN Cardinality(Clients)
                     ELSE IF file[d].age > file[c].age THEN file[d].age - 1 ELSE file[d].age]

\* The file of session c as it is after a write.
Put(c, whole, turns) ==
  [d \in Clients |-> IF d = c
                       THEN [exists |-> TRUE, whole |-> whole, turns |-> turns, age |-> Aged(c)[d]]
                       ELSE [file[d] EXCEPT !.age = Aged(c)[d]]]

\* vllm_sess_write opens the file with "w": what was in it is gone.
OpenFile(t) ==
  /\ spc[t] = "open"
  /\ file' = Put(owner[t], FALSE, <<>>)
  /\ At(t, "write")
  /\ UNCHANGED <<reqVars, timeline, inf, clientVars, ghosts>>

\* The file cannot be opened: a warning, and the turn is not kept.
OpenFails(t) ==
  /\ spc[t] = "open"
  /\ At(t, AfterWrite(t))
  /\ UNCHANGED <<file, reqVars, timeline, inf, clientVars, ghosts>>

\* Nobody else wrote into the file since this thread emptied it.
Alone(t) ==
  ~file[owner[t]].whole /\ \A u \in Threads \ {t} : ~(spc[u] = "write" /\ owner[u] = owner[t])

\* The conversation that the request leaves in the file.
Leaves(t) == IF own[t] THEN Range(timeline[t]) ELSE kept[owner[t]] \cup {turn[t]}

\* The timeline is written and the file closed.  If the file was removed
\* meanwhile the text goes nowhere; if another request wrote it too, the two
\* texts may be mixed.
WriteFile(t) ==
  /\ spc[t] = "write"
  /\ IF file[owner[t]].exists
       THEN /\ \E whole \in IF Alone(t) THEN {TRUE} ELSE BOOLEAN :
                 file' = Put(owner[t], whole, timeline[t])
            /\ kept' = [kept EXCEPT ![owner[t]] = Leaves(t)]
       ELSE UNCHANGED <<file, kept>>
  /\ At(t, "collect")
  /\ UNCHANGED <<reqVars, timeline, inf, clientVars, raced>>

\* The file was opened, and so emptied, and the write fails (a full disk) with
\* nothing or a part in the file: a warning, and the conversation is gone.
WriteFails(t) ==
  /\ spc[t] = "write"
  /\ \/ UNCHANGED file
     \/ file[owner[t]].exists /\ file' = Put(owner[t], FALSE, <<>>)
  /\ kept' = [kept EXCEPT ![owner[t]] = {}]
  /\ At(t, "collect")
  /\ UNCHANGED <<reqVars, timeline, inf, clientVars, raced>>

Files == {c \in Clients : file[c].exists}

\* The oldest files beyond the limit.
Surplus == {c \in Files : Cardinality({d \in Files : file[d].age > file[c].age}) >= SessionLimit}

RemoveFiles(S) ==
  /\ file' = [c \in Clients |-> IF c \in S THEN [NoFile EXCEPT !.age = file[c].age] ELSE file[c]]
  /\ kept' = [c \in Clients |-> IF c \in S THEN {} ELSE kept[c]]

\* vllm_sess_gc, which one commit in 32 runs.
Collect(t) ==
  /\ spc[t] = "collect"
  /\ \/ UNCHANGED <<file, kept>>
     \/ RemoveFiles(Surplus)
  /\ At(t, AfterWrite(t))
  /\ UNCHANGED <<reqVars, timeline, inf, clientVars, raced>>

\* The answer is sent when the handler has returned.
Answer(t) ==
  /\ spc[t] = "answer"
  /\ Tell(t)
  /\ Forget(t)
  /\ UNCHANGED <<file, inf, asked, ghosts>>

\* A request that failed, or whose answer was streamed, ends.
Leave(t) ==
  /\ spc[t] = "leave"
  /\ IF streamed[t] /\ turn[t] \in told[owner[t]] THEN UNCHANGED <<told, waiting>> ELSE Drop(t)
  /\ Forget(t)
  /\ UNCHANGED <<file, inf, asked, ghosts>>

\* An administrator deletes the file of a session (handle_admin_session_delete).
DeleteFile(c) ==
  /\ file[c].exists
  /\ RemoveFiles({c})
  /\ UNCHANGED <<spc, reqVars, timeline, inf, clientVars, raced>>

\* The server dies and is started again: a file that was being written is cut.
SessRestart ==
  /\ spc' = [t \in Threads |-> "idle"]
  /\ owner' = [t \in Threads |-> Nobody] /\ turn' = [t \in Threads |-> 0]
  /\ streamed' = [t \in Threads |-> FALSE] /\ own' = [t \in Threads |-> FALSE]
  /\ text' = [t \in Threads |-> FALSE]
  /\ timeline' = [t \in Threads |-> <<>>]
  /\ inf' = Nobody
  /\ waiting' = [c \in Clients |-> FALSE]
  /\ kept' = [c \in Clients |-> IF \E t \in Threads : spc[t] = "write" /\ owner[t] = c
                                  THEN {} ELSE kept[c]]
  /\ UNCHANGED <<file, asked, told, raced>>

TurnStep(t) ==
  \/ ReadHistory(t) \/ Infer(t) \/ InferFails(t) \/ Unlock(t) \/ OpenFile(t) \/ OpenFails(t)
  \/ WriteFile(t) \/ WriteFails(t) \/ Collect(t) \/ Answer(t) \/ Leave(t)
=============================================================================
