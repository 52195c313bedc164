---------------------------- MODULE EpTransport ----------------------------
(***************************************************************************)
(* The transport of expert parallelism (src/src/core/vllm_ep.c): a star of *)
(* TCP connections between rank 0, the coordinator, and one worker process *)
(* per further rank.  A worker connects and says its rank; the coordinator *)
(* accepts until every rank is there, and refuses a rank it already has.   *)
(*                                                                         *)
(* A connection is a queue of frames each way.  Who has gone leaves what   *)
(* it sent to be read, or not: a reset may discard it.  A send to a peer   *)
(* that has gone may be accepted all the same, or fail, or, on POSIX,      *)
(* raise SIGPIPE, which nothing ignores in these modes.                    *)
(* Abstracted: bytes and byte order, counters, the timer of connect's      *)
(* retries, sends that block on a full buffer.                             *)
(***************************************************************************)
EXTENDS Integers, SequencesExt

CONSTANTS
  Workers,      \* worker processes that are started
  MaxRanks,     \* bound: largest nranks (16 in the callers)
  None,         \* no worker
  MaxCrashes    \* bound: workers that die

ASSUME NoneAssumption == None \notin Workers
ASSUME RanksAssumption == MaxRanks \in Nat /\ MaxRanks >= 2
ASSUME CrashesAssumption == MaxCrashes \in Nat

VARIABLES
  nranks,    \* processes of the session, the same for all
  rank,      \* what each worker was started as
  slow,      \* SO_RCVTIMEO may expire: a process is slow, or has nothing to say
  rpc,       \* where the coordinator is
  backlog,   \* connections that wait to be accepted
  arriving,  \* the one that was accepted and has not said its rank
  peer,      \* r->peer
  wpc,       \* where each worker is
  down, up,  \* frames under way to, and from, each worker
  rootShut,  \* the coordinator closed the connection
  crashes

processes == <<nranks, rank, slow>>
linkVars  == <<peer, backlog, arriving>>
transport == <<processes, rpc, linkVars, wpc, down, up, rootShut, crashes>>

Others == 1 .. nranks - 1
Over   == {"closed", "killed"}

TransportInit ==
  /\ nranks \in 2 .. MaxRanks
  /\ rank \in [Workers -> Others]
  /\ slow \in BOOLEAN
  /\ rpc = "listen"
  /\ backlog = <<>> /\ arriving = None
  /\ peer = [r \in Others |-> None]
  /\ wpc = [w \in Workers |-> "start"]
  /\ down = [w \in Workers |-> <<>>] /\ up = [w \in Workers |-> <<>>]
  /\ rootShut = [w \in Workers |-> FALSE]
  /\ crashes = 0

Gone(w) == wpc[w] = "gone"

(***************************************************************************)
(* The coordinator: vllm_ep_root_open and vllm_ep_root_close.              *)
(***************************************************************************)

\* Every connection ends, those in the backlog with the listener.  A process
\* that ends does the same.
EndAs(how) ==
  /\ rpc' = how
  /\ rootShut' = [w \in Workers |-> TRUE]
  /\ backlog' = <<>> /\ arriving' = None
  /\ UNCHANGED peer

Accept ==
  /\ rpc = "listen"
  /\ backlog # <<>>
  /\ arriving' = Head(backlog) /\ backlog' = Tail(backlog)
  /\ rpc' = "greet"
  /\ UNCHANGED <<processes, peer, wpc, down, up, rootShut, crashes>>

\* select waited a minute.
AcceptTimesOut ==
  /\ rpc = "listen"
  /\ backlog = <<>>
  /\ EndAs("closed")
  /\ UNCHANGED <<processes, wpc, down, up, crashes>>

AllHere(p) == \A r \in Others : p[r] # None

\* The rank is read; one that is taken is refused.
Greet ==
  /\ rpc = "greet"
  /\ up[arriving] # <<>>
  /\ LET w == arriving
         r == Head(up[w]).rank
     IN /\ up' = [up EXCEPT ![w] = Tail(@)]
        /\ IF peer[r] = None
             THEN /\ peer' = [peer EXCEPT ![r] = w]
                  /\ rpc' = IF AllHere(peer') THEN "ready" ELSE "listen"
                  /\ UNCHANGED rootShut
             ELSE /\ rootShut' = [rootShut EXCEPT ![w] = TRUE]
                  /\ rpc' = "listen"
                  /\ UNCHANGED peer
  /\ arriving' = None
  /\ UNCHANGED <<processes, backlog, wpc, down, crashes>>

\* This read has no timeout yet: it fails only when the worker has gone.
GreetFails ==
  /\ rpc = "greet"
  /\ Gone(arriving)
  /\ rootShut' = [rootShut EXCEPT ![arriving] = TRUE]
  /\ arriving' = None
  /\ rpc' = "listen"
  /\ UNCHANGED <<processes, backlog, peer, wpc, down, up, crashes>>

\* ep_send_all to a worker that is there.
SendTo(w, f) == ~Gone(w) /\ down' = [down EXCEPT ![w] = Append(@, f)]

\* To one that has gone, before its reset arrived.
SendIntoVoid(w) == Gone(w) /\ UNCHANGED down

\* ep_recv_all of a whole frame.
RecvFrom(w) == up[w] # <<>> /\ up' = [up EXCEPT ![w] = Tail(@)]

\* The end of the stream, a reset, or the timeout.
RecvFails(w) == Gone(w) \/ (slow /\ up[w] = <<>>)

(***************************************************************************)
(* A worker: vllm_ep_worker_open and vllm_ep_worker_close.                 *)
(***************************************************************************)
MoveTo(w, at) == wpc' = [wpc EXCEPT ![w] = at]

\* connect succeeds as long as there is a listener, accepted or not.
Connect(w) ==
  /\ wpc[w] = "start"
  /\ rpc \notin Over
  /\ backlog' = Append(backlog, w)
  /\ MoveTo(w, "say")
  /\ UNCHANGED <<processes, rpc, arriving, peer, down, up, rootShut, crashes>>

\* The retries are used up.
GiveUp(w) ==
  /\ wpc[w] = "start"
  /\ MoveTo(w, "gone")
  /\ UNCHANGED <<processes, rpc, linkVars, down, up, rootShut, crashes>>

SendUp(w, fs) == up' = [up EXCEPT ![w] = @ \o fs]

SayRank(w) ==
  /\ wpc[w] = "say"
  /\ SendUp(w, <<[k |-> "rank", rank |-> rank[w]]>>)
  /\ MoveTo(w, "shake")
  /\ UNCHANGED <<processes, rpc, linkVars, down, rootShut, crashes>>

\* vllm_ep_worker_recv of a whole frame.
Take(w) == down[w] # <<>> /\ down' = [down EXCEPT ![w] = Tail(@)]

Receiving == {"shake", "table", "header", "body", "astray"}

\* A worker that cannot receive or send any more leaves.
Leave(w) ==
  /\ wpc[w] \in Receiving \cup {"say", "reply"}
  /\ rootShut[w] \/ (slow /\ wpc[w] \in Receiving /\ down[w] = <<>>)
  /\ MoveTo(w, "gone")
  /\ UNCHANGED <<processes, rpc, linkVars, down, up, rootShut, crashes>>

Crash(w) ==
  /\ crashes < MaxCrashes
  /\ wpc[w] \notin {"start", "gone"}
  /\ MoveTo(w, "gone")
  /\ crashes' = crashes + 1
  /\ UNCHANGED <<processes, rpc, linkVars, down, up, rootShut>>

Opening == Accept \/ AcceptTimesOut \/ Greet \/ GreetFails
=============================================================================
