----------------------------- MODULE HttpServer -----------------------------
(***************************************************************************)
(* The HTTP server (src/src/serve/vllm_http.c): one accept thread pushes   *)
(* connections onto a bounded ring, worker threads pop them, read one      *)
(* request, run the handler and answer.  A streamed answer makes the       *)
(* handler the owner of the connection.                                    *)
(*                                                                         *)
(* Atomicity: a critical section of the queue's lock is one action; the    *)
(* lock is released to close a connection that a full queue sheds.         *)
(* Abstracted: bytes on the wire, parsing (a request is readable or not).  *)
(* Left out: g_vhttp_conns, which all threads change without a lock, so    *)
(* that updates are lost: nothing can be said of it, and nothing but the   *)
(* statistics reads it.                                                    *)
(***************************************************************************)
EXTENDS ServerThreads

CONSTANTS
  Conns,       \* connections clients make
  QueueCap     \* capacity of the ring (128 in the code)

ASSUME ConnsAssumption == IsFiniteSet(Conns)
ASSUME QueueCapAssumption == QueueCap \in Nat \ {0}

NoConn == "none"
ASSUME NoConnAssumption == NoConn \notin Conns

Ring == 0 .. QueueCap - 1

VARIABLES
  fd,        \* a client's connection: "away", "open" or "closed"
  outcome,   \* what its client saw
  items, head, tail, count,   \* the ring of ConnQueue
  stop,      \* g_vhttp_stop
  apc,       \* where the accept thread is
  incoming,  \* the connection it accepted
  shed,      \* the connection it dropped from the queue
  tpc,       \* where each worker thread is
  serving    \* the connection a worker holds

queueVars  == <<items, head, tail, count>>
acceptVars == <<apc, incoming, shed>>
httpVars   == <<fd, outcome, queueVars, stop, acceptVars, tpc, serving>>

AcceptAt == {"listen", "push", "close", "returned"}
ThreadAt == {"pop", "waiting", "read", "refuse", "handle", "send"}
Outcomes == {"pending", "shed", "refused", "answered", "streamed", "lost", "reset"}

HttpTypeOK ==
  /\ fd \in [Conns -> {"away", "open", "closed"}]
  /\ outcome \in [Conns -> Outcomes]
  /\ items \in [Ring -> Conns \cup {NoConn}]
  /\ head \in Ring /\ tail \in Ring /\ count \in 0 .. QueueCap
  /\ stop \in BOOLEAN
  /\ apc \in AcceptAt
  /\ incoming \in Conns \cup {NoConn} /\ shed \in Conns \cup {NoConn}
  /\ tpc \in [Threads -> ThreadAt]
  /\ serving \in [Threads -> Conns \cup {NoConn}]

HttpInit ==
  /\ fd = [c \in Conns |-> "away"]
  /\ outcome = [c \in Conns |-> "pending"]
  /\ items = [i \in Ring |-> NoConn]
  /\ head = 0 /\ tail = 0 /\ count = 0
  /\ stop = FALSE
  /\ apc = "listen" /\ incoming = NoConn /\ shed = NoConn
  /\ tpc = [t \in Threads |-> "pop"]
  /\ serving = [t \in Threads |-> NoConn]

\* vnet_close.
Close(c, seen) ==
  /\ fd' = [fd EXCEPT ![c] = "closed"]
  /\ outcome' = [outcome EXCEPT ![c] = seen]

(***************************************************************************)
(* The accept thread.                                                      *)
(***************************************************************************)

\* select found a client.
Accept(c) ==
  /\ apc = "listen"
  /\ ~stop
  /\ fd[c] = "away"
  /\ fd' = [fd EXCEPT ![c] = "open"]
  /\ incoming' = c
  /\ apc' = "push"
  /\ UNCHANGED <<outcome, queueVars, stop, shed, tpc, serving>>

\* (mutation: off by one)
QueueOverfull == count > QueueCap

QueueFull == count >= QueueCap

Next1(i) == (i + 1) % QueueCap

\* (mutation: the connection is closed but stays in the ring)
PushShedsInPlace ==
  /\ apc = "push"
  /\ QueueFull
  /\ shed' = items[head]
  /\ count' = count - 1
  /\ apc' = "close"
  /\ UNCHANGED <<fd, outcome, items, head, tail, stop, incoming, tpc, serving>>

\* queue_push, one round of its loop: the oldest connection leaves the ring.
PushSheds ==
  /\ apc = "push"
  /\ QueueFull
  /\ shed' = items[head]
  /\ head' = Next1(head)
  /\ count' = count - 1
  /\ apc' = "close"
  /\ UNCHANGED <<fd, outcome, items, tail, stop, incoming, tpc, serving>>

\* It is closed with the lock released.
CloseShed ==
  /\ apc = "close"
  /\ Close(shed, "shed")
  /\ shed' = NoConn
  /\ apc' = "push"
  /\ UNCHANGED <<queueVars, stop, incoming, tpc, serving>>

Waiters == {t \in Threads : tpc[t] = "waiting"}

\* One worker that waits is signalled.
Push ==
  /\ apc = "push"
  /\ ~QueueFull
  /\ items' = [items EXCEPT ![tail] = incoming]
  /\ tail' = Next1(tail)
  /\ count' = count + 1
  /\ incoming' = NoConn
  /\ apc' = "listen"
  /\ IF Waiters = {} THEN UNCHANGED tpc
     ELSE \E t \in Waiters : tpc' = [tpc EXCEPT ![t] = "pop"]
  /\ UNCHANGED <<fd, outcome, head, stop, shed, serving>>

\* The loop looks at the flag at least once a second; vhttp_serve_ex returns.
Return ==
  /\ apc = "listen"
  /\ stop
  /\ apc' = "returned"
  /\ UNCHANGED <<fd, outcome, queueVars, stop, incoming, shed, tpc, serving>>

(***************************************************************************)
(* A worker thread.                                                        *)
(***************************************************************************)
PopWaits(t) ==
  /\ tpc[t] = "pop"
  /\ count = 0
  /\ tpc' = [tpc EXCEPT ![t] = "waiting"]
  /\ UNCHANGED <<fd, outcome, queueVars, stop, acceptVars, serving>>

Pop(t) ==
  /\ tpc[t] = "pop"
  /\ count # 0
  /\ serving' = [serving EXCEPT ![t] = items[head]]
  /\ head' = Next1(head)
  /\ count' = count - 1
  /\ tpc' = [tpc EXCEPT ![t] = "read"]
  /\ UNCHANGED <<fd, outcome, items, tail, stop, acceptVars>>

\* pthread_cond_wait may return by itself.
SpuriousPop(t) ==
  /\ tpc[t] = "waiting"
  /\ tpc' = [tpc EXCEPT ![t] = "pop"]
  /\ UNCHANGED <<fd, outcome, queueVars, stop, acceptVars, serving>>

\* read_request: a whole request arrived, or it did not within the timeout.
ReadRequest(t) ==
  /\ tpc[t] = "read"
  /\ \E at \in {"handle", "refuse"} : tpc' = [tpc EXCEPT ![t] = at]
  /\ UNCHANGED <<fd, outcome, queueVars, stop, acceptVars, serving>>

Release(t) ==
  /\ serving' = [serving EXCEPT ![t] = NoConn]
  /\ tpc' = [tpc EXCEPT ![t] = "pop"]

Refuse(t) ==
  /\ tpc[t] = "refuse"
  /\ Close(serving[t], "refused")
  /\ Release(t)
  /\ UNCHANGED <<queueVars, stop, acceptVars>>

\* The handler filled a response.
HandlerReturns(t) ==
  /\ tpc[t] = "handle"
  /\ outcome[serving[t]] = "pending"
  /\ tpc' = [tpc EXCEPT ![t] = "send"]
  /\ UNCHANGED <<fd, outcome, queueVars, stop, acceptVars, serving>>

SendResponse(t) ==
  /\ tpc[t] = "send"
  /\ Close(serving[t], "answered")
  /\ Release(t)
  /\ UNCHANGED <<queueVars, stop, acceptVars>>

\* The handler set resp->stream, wrote the whole stream and closed it with
\* vhttp_stream_done: the client has its answer while the handler still runs.
StreamDone(t) ==
  /\ tpc[t] = "handle"
  /\ outcome[serving[t]] = "pending"
  /\ Close(serving[t], "streamed")
  /\ UNCHANGED <<queueVars, stop, acceptVars, tpc, serving>>

\* The inference failed, or its client left, after resp->stream was set: nobody
\* calls vhttp_stream_done, and serve_conn leaves the connection to the handler.
StreamFails(t) ==
  /\ tpc[t] = "handle"
  /\ outcome[serving[t]] = "pending"
  /\ outcome' = [outcome EXCEPT ![serving[t]] = "lost"]
  /\ UNCHANGED <<fd, queueVars, stop, acceptVars, tpc, serving>>

\* A handler that streamed returns: serve_conn does not touch the connection.
StreamReturns(t) ==
  /\ tpc[t] = "handle"
  /\ outcome[serving[t]] # "pending"
  /\ Release(t)
  /\ UNCHANGED <<fd, outcome, queueVars, stop, acceptVars>>

\* vhttp_stop, called by the handler of an administrator.
Stop(t) ==
  /\ tpc[t] = "handle"
  /\ stop' = TRUE
  /\ UNCHANGED <<fd, outcome, queueVars, acceptVars, tpc, serving>>

\* The process ends, after vhttp_serve_ex returned or in a crash, and is started
\* again: the system closes what was open.
HttpRestart ==
  /\ fd' = [c \in Conns |-> IF fd[c] = "open" THEN "closed" ELSE fd[c]]
  /\ outcome' = [c \in Conns |-> IF fd[c] = "open" THEN "reset" ELSE outcome[c]]
  /\ items' = [i \in Ring |-> NoConn] /\ head' = 0 /\ tail' = 0 /\ count' = 0
  /\ stop' = FALSE
  /\ apc' = "listen" /\ incoming' = NoConn /\ shed' = NoConn
  /\ tpc' = [t \in Threads |-> "pop"]
  /\ serving' = [t \in Threads |-> NoConn]

AcceptStep == PushSheds \/ CloseShed \/ Push \/ Return
\* What a worker does around the handler.
ThreadStep(t) ==
  PopWaits(t) \/ Pop(t) \/ ReadRequest(t) \/ Refuse(t) \/ SendResponse(t)
=============================================================================
