--------------------------- MODULE ExpertParallel ---------------------------
(***************************************************************************)
(* Expert parallelism of mixture-of-experts layers (the EP section of      *)
(* src/src/model/vllm_safetensors.c) over EpTransport.  The coordinator    *)
(* routes each call of a layer's FFN to TopK experts, broadcasts the call, *)
(* and collects from every worker the rows of the experts it owns.  Who    *)
(* owns an expert is static, or a table that is balanced by load (EPLB)    *)
(* and handed out before the first call.                                   *)
(*                                                                         *)
(* The coordinator is the forward pass (st_moe_ep_forward_ffn), where a    *)
(* call that fails is done locally and the session goes on, or the check   *)
(* (st_moe_ep_coord_run), which gives up.                                  *)
(*                                                                         *)
(* A row is the call and the expert it was computed for; the reduction     *)
(* adds the rows of all slots.  Abstracted: numbers, memory that runs out, *)
(* statistics, the geometry of the weights (an expert fits the buffers).   *)
(***************************************************************************)
EXTENDS EpTransport

CONSTANTS
  NExperts,    \* ne
  TopK,        \* tk
  Inputs,      \* what layers are called with: the router's logit of each expert
  Plans,       \* EPLB settings: load of the experts and power of the ranks, or Static
  Splits,      \* --ep-split
  SlowDrivers, \* drivers of which a session may be slow
  Alike,       \* all processes are started with the same --ep-split
  MaxCalls     \* bound: calls of layers

Experts == 0 .. NExperts - 1
Slots   == 0 .. TopK - 1
NaN     == -1     \* a logit that is not a number
NoOne   == -1     \* a slot without an expert
Root    == "root"
Static  == [load |-> <<>>, cap |-> <<>>]     \* no EPLB

ASSUME RootAssumption == Root \notin Workers
ASSUME ExpertsAssumption ==
  /\ NExperts \in Nat /\ \A n \in 2 .. MaxRanks : NExperts % n = 0
  /\ TopK \in Nat \ {0}
ASSUME InputsAssumption == Inputs \subseteq [Experts -> Nat \cup {NaN}]
ASSUME PlansAssumption == \* EPLB takes no other power than one above 0
  \A p \in Plans \ {Static} :
    p.load \in [Experts -> Nat] /\ p.cap \in [0 .. MaxRanks - 1 -> Nat \ {0}]
ASSUME CallsAssumption == MaxCalls \in Nat /\ Alike \in BOOLEAN /\ SlowDrivers \subseteq {"forward", "check"}

VARIABLES
  driver,    \* "forward" or "check"
  plan,      \* the EPLB setting of the coordinator
  table,     \* the owner of each expert as each process sees it
  bound,     \* g_moe_ep_bound: the table was handed out
  call,      \* number of the call
  x,         \* its input
  sel,       \* its experts
  cbuf,      \* Cbuf: the row of each slot, kept from call to call
  outbox,    \* frames the coordinator has still to broadcast
  at,        \* the rank it is sending to or reading from
  left,      \* rows it still expects of that rank
  wout       \* what a worker has still to send of its answer

callVars   == <<call, x, sel, cbuf>>
rootVars == <<driver, plan, bound, callVars, outbox, at, left>>
vars     == <<transport, rootVars, table, wout>>

(***************************************************************************)
(* Who owns an expert, and which experts a call needs.                     *)
(***************************************************************************)
Owners(split) ==
  [e \in Experts |-> IF split > 0 /\ nranks = 2 /\ split < NExperts
                       THEN (IF e < split THEN 0 ELSE 1)
                       ELSE e \div (NExperts \div nranks)]

\* (mutation: the power of the ranks is forgotten)
FewerRows(acc, cap, r, q) == acc[r] < acc[q] \/ (acc[r] = acc[q] /\ r <= q)

\* Rank r is less busy than q for its power; of equals the first.
LessBusy(acc, cap, r, q) ==
  acc[r] * cap[q] < acc[q] * cap[r] \/ (acc[r] * cap[q] = acc[q] * cap[r] /\ r <= q)

\* The expert of S with the largest load, of equals the first.
Busiest(load, S) ==
  CHOOSE e \in S : \A d \in S : load[e] > load[d] \/ (load[e] = load[d] /\ e <= d)

LeastBusy(acc, cap, n) ==
  CHOOSE r \in 0 .. n - 1 : \A q \in 0 .. n - 1 : LessBusy(acc, cap, r, q)

\* One more expert is given to one of n ranks: free are those without a rank.
Give(p, n, s) ==
  LET e == Busiest(p.load, s.free)
      r == LeastBusy(s.acc, p.cap, n)
  IN [free |-> s.free \ {e}, own |-> [s.own EXCEPT ![e] = r],
      acc |-> [s.acc EXCEPT ![r] = @ + p.load[e]]]

\* st_moe_ep_eplb_build for n processes: the busiest expert first, to the rank that is
\* least busy.
Balanced(p, n) ==
  LET given[i \in 0 .. NExperts] ==
        IF i = 0 THEN [free |-> Experts, own |-> [e \in Experts |-> 0],
                       acc |-> [r \in 0 .. n - 1 |-> 0]]
                 ELSE Give(p, n, given[i - 1])
  IN given[NExperts].own

\* Expert e belongs before the one in a slot: NaN never does.
Beats(in, e, held) ==
  in[e] # NaN /\ (held = NoOne \/ in[e] > in[held] \/ (in[e] = in[held] /\ e < held))

\* Expert e is put before the first slot it beats, and the last falls out.
Insert(in, s, e) ==
  LET Before(k) == \E i \in 0 .. k : Beats(in, e, s[i])
  IN [k \in Slots |-> IF ~Before(k) THEN s[k] ELSE IF ~Before(k - 1) THEN e ELSE s[k - 1]]

\* moe_ep_router: one expert after the other.
Route(in) ==
  LET best[n \in 0 .. NExperts] ==
        IF n = 0 THEN [k \in Slots |-> NoOne] ELSE Insert(in, best[n - 1], n - 1)
  IN best[NExperts]

Row(n, e) == [call |-> n, expert |-> e]
Owns(p, r, e) == e # NoOne /\ table[p][e] = r

Init ==
  /\ TransportInit
  /\ driver \in {"forward", "check"}
  /\ slow => driver \in SlowDrivers
  /\ plan \in Plans
  /\ \E split \in [Workers \cup {Root} -> Splits] :
       /\ Alike => \A w \in Workers : split[w] = split[Root]
       /\ table = [p \in Workers \cup {Root} |-> Owners(split[p])]
  /\ bound = FALSE
  /\ call = 0 /\ x = [e \in Experts |-> NaN] /\ sel = [j \in Slots |-> NoOne]
  /\ cbuf = [j \in Slots |-> Row(0, NoOne)]
  /\ outbox = <<>> /\ at = 1 /\ left = 0
  /\ wout = [w \in Workers |-> [call |-> 0, sel |-> sel, counted |-> FALSE, todo |-> {}]]

(***************************************************************************)
(* The coordinator.                                                        *)
(***************************************************************************)
End == [k |-> "header", call |-> 0]     \* h.l < 0

\* The header, and x, sel and pr, which nobody looks at before the last has come.
CallFrames(n, s) == << [k |-> "header", call |-> n], [k |-> "body", call |-> n, sel |-> s] >>

\* (mutation: a table comes unannounced)
TableFrames(own) ==
  << IF plan = Static THEN [k |-> "shake", mode |-> 0] ELSE [k |-> "table", own |-> own] >>

ShakeFrames(own) ==
  IF plan = Static THEN << [k |-> "shake", mode |-> 0] >>
                   ELSE << [k |-> "shake", mode |-> 1], [k |-> "table", own |-> own] >>

\* A layer calls its FFN; before the first one the table is handed out.
StartCall ==
  /\ rpc = "ready"
  /\ call < MaxCalls
  /\ call' = call + 1
  /\ \E in \in Inputs : x' = in /\ sel' = Route(in)
  /\ IF bound
       THEN /\ rpc' = "cast"
            /\ outbox' = CallFrames(call', sel')
            /\ UNCHANGED table
       ELSE /\ rpc' = "shake"
            /\ table' = IF plan = Static THEN table ELSE [table EXCEPT ![Root] = Balanced(plan, nranks)]
            /\ outbox' = ShakeFrames(table'[Root])
  /\ UNCHANGED <<processes, linkVars, wpc, down, up, rootShut, crashes>>
  /\ UNCHANGED <<driver, plan, bound, cbuf, at, left, wout>>

\* st_moe_ep_root_end.
StartEnd ==
  /\ rpc = "ready"
  /\ IF bound THEN /\ rpc' = "bye" /\ outbox' = <<End>>
                   /\ UNCHANGED <<linkVars, rootShut>>
              ELSE EndAs("closed") /\ UNCHANGED outbox
  /\ UNCHANGED <<processes, wpc, down, up, crashes>>
  /\ UNCHANGED <<driver, plan, bound, callVars, at, left, table, wout>>

Broadcasting == rpc \in {"shake", "cast", "bye"}

\* What follows the last frame.
AfterBroadcast ==
  CASE rpc = "shake" -> /\ rpc' = "cast" /\ bound' = TRUE /\ outbox' = CallFrames(call, sel)
                        /\ UNCHANGED <<linkVars, rootShut>>
    [] rpc = "cast"  -> /\ rpc' = "own" /\ outbox' = <<>>
                        /\ UNCHANGED <<bound, linkVars, rootShut>>
    [] rpc = "bye"   -> /\ EndAs("closed") /\ outbox' = <<>> /\ UNCHANGED bound

\* vllm_ep_root_bcast: each frame to each rank.
SendNext ==
  /\ Broadcasting
  /\ SendTo(peer[at], Head(outbox)) \/ SendIntoVoid(peer[at])
  /\ IF at < nranks - 1
       THEN at' = at + 1 /\ UNCHANGED <<rpc, outbox, bound, linkVars, rootShut>>
       ELSE /\ at' = 1
            /\ IF Len(outbox) > 1
                 THEN outbox' = Tail(outbox) /\ UNCHANGED <<rpc, bound, linkVars, rootShut>>
                 ELSE AfterBroadcast
  /\ UNCHANGED <<processes, wpc, up, crashes>>
  /\ UNCHANGED <<driver, plan, callVars, left, table, wout>>

\* A call that failed: the forward pass computes the layer itself and keeps the
\* session, with whatever is under way in it; the check closes it.
Abandon ==
  /\ IF driver = "forward" THEN rpc' = "ready" /\ UNCHANGED <<linkVars, rootShut>>
                           ELSE EndAs("closed")
  /\ outbox' = <<>> /\ at' = 1 /\ left' = 0
  /\ UNCHANGED <<driver, plan, bound, callVars>>

\* A send that fails, or kills the process; what is sent last is not looked at.
SendFails ==
  /\ Broadcasting
  /\ Gone(peer[at])
  /\ \/ EndAs("killed") /\ UNCHANGED rootVars
     \/ rpc = "bye" /\ EndAs("closed") /\ UNCHANGED rootVars
     \/ rpc # "bye" /\ Abandon
  /\ UNCHANGED <<processes, wpc, down, up, crashes, table, wout>>

\* moe_ep_contrib for rank 0.
Contribute ==
  /\ rpc = "own"
  /\ cbuf' = [j \in Slots |-> IF Owns(Root, 0, sel[j]) THEN Row(call, sel[j]) ELSE cbuf[j]]
  /\ rpc' = "count"
  /\ UNCHANGED <<processes, linkVars, wpc, down, up, rootShut, crashes>>
  /\ UNCHANGED <<driver, plan, bound, call, x, sel, outbox, at, left, table, wout>>

\* (mutation: one rank too few is read)
LastButOne == at >= nranks - 2

LastRank == at >= nranks - 1

\* The replies of this rank are read.
NextRank == IF LastRank THEN rpc' = "reduce" /\ at' = 1 ELSE rpc' = "count" /\ at' = at + 1

\* The number at the start of frame f, which may be of another kind than expected.
NumberOf(f, k) == IF f.k = k THEN {f.n} ELSE -1 .. TopK

ReadCount ==
  /\ rpc = "count"
  /\ RecvFrom(peer[at])
  /\ \E n \in NumberOf(Head(up[peer[at]]), "count") :
       \/ n \notin 0 .. TopK /\ Abandon
       \/ /\ n \in 0 .. TopK
          /\ left' = n
          /\ IF n = 0 THEN NextRank ELSE rpc' = "row" /\ UNCHANGED at
          /\ UNCHANGED <<driver, plan, bound, callVars, outbox, linkVars, rootShut>>
  /\ UNCHANGED <<processes, wpc, down, crashes, table, wout>>

\* j, and C_j into its slot.
ReadRow ==
  /\ rpc = "row"
  /\ RecvFrom(peer[at])
  /\ LET f == Head(up[peer[at]])
     IN \E n \in NumberOf(f, "row") :
          \/ n \notin Slots /\ Abandon
          \/ /\ n \in Slots
             /\ cbuf' = [cbuf EXCEPT ![n] = IF f.k = "row" THEN f.row ELSE Row(0, NoOne)]
             /\ left' = left - 1
             /\ IF left = 1 THEN NextRank ELSE UNCHANGED <<rpc, at>>
             /\ UNCHANGED <<driver, plan, bound, call, x, sel, outbox, linkVars, rootShut>>
  /\ UNCHANGED <<processes, wpc, down, crashes, table, wout>>

\* What had come and was not read is lost with the connection.
ReadFails ==
  /\ rpc \in {"count", "row"}
  /\ RecvFails(peer[at])
  /\ up' = [up EXCEPT ![peer[at]] = <<>>]
  /\ Abandon
  /\ UNCHANGED <<processes, wpc, down, crashes, table, wout>>

\* moe_ep_reduce: the layer has its output.
Reduce ==
  /\ rpc = "reduce"
  /\ rpc' = "ready"
  /\ UNCHANGED <<processes, linkVars, wpc, down, up, rootShut, crashes, rootVars, table, wout>>

(***************************************************************************)
(* A worker: st_moe_ep_worker_run.  One that meets a frame of another kind *)
(* where it looks at what it read leaves; where it does not, it has lost   *)
(* the framing and goes astray.                                            *)
(***************************************************************************)
RecvShake(w) ==
  /\ wpc[w] = "shake"
  /\ Take(w)
  /\ LET f == Head(down[w]) IN
       MoveTo(w, IF f.k # "shake" THEN "gone" ELSE IF f.mode = 0 THEN "header" ELSE "table")
  /\ UNCHANGED <<processes, rpc, linkVars, up, rootShut, crashes, rootVars, table, wout>>

RecvTable(w) ==
  /\ wpc[w] = "table"
  /\ Take(w)
  /\ LET f == Head(down[w]) IN
       IF f.k = "table" THEN table' = [table EXCEPT ![w] = f.own] /\ MoveTo(w, "header")
                        ELSE UNCHANGED table /\ MoveTo(w, "astray")
  /\ UNCHANGED <<processes, rpc, linkVars, up, rootShut, crashes, rootVars, wout>>

RecvHeader(w) ==
  /\ wpc[w] = "header"
  /\ Take(w)
  /\ LET f == Head(down[w]) IN
       MoveTo(w, IF f.k = "header" /\ f.call > 0 THEN "body" ELSE "gone")
  /\ UNCHANGED <<processes, rpc, linkVars, up, rootShut, crashes, rootVars, table, wout>>

\* The slots of worker w.
Mine(w, s) == {j \in Slots : Owns(w, rank[w], s[j])}

\* (mutation: every slot is counted)
CountAll(mine) == TopK

CountOf(mine) == Cardinality(mine)

\* The rest of the call, whose rows are computed at once.
RecvBody(w) ==
  /\ wpc[w] = "body"
  /\ Take(w)
  /\ LET f == Head(down[w]) IN
       IF f.k = "body"
         THEN /\ wout' = [wout EXCEPT ![w] = [call |-> f.call, sel |-> f.sel,
                                              counted |-> FALSE, todo |-> Mine(w, f.sel)]]
              /\ MoveTo(w, "reply")
         ELSE UNCHANGED wout /\ MoveTo(w, "astray")
  /\ UNCHANGED <<processes, rpc, linkVars, up, rootShut, crashes, rootVars, table>>

\* The frame f of the answer goes out; the rows of slots that remain follow.
Reply(w, f, remain) ==
  /\ SendUp(w, <<f>>)
  /\ wout' = [wout EXCEPT ![w] = [@ EXCEPT !.counted = TRUE, !.todo = remain]]
  /\ IF remain = {} THEN MoveTo(w, "header") ELSE UNCHANGED wpc

\* How many rows there are, then the row of each slot in order.
SendReply(w) ==
  LET a == wout[w] IN
  /\ wpc[w] = "reply"
  /\ IF ~a.counted
       THEN Reply(w, [k |-> "count", n |-> CountOf(a.todo)], a.todo)
       ELSE \E j \in a.todo :
              /\ \A i \in a.todo : j <= i
              /\ Reply(w, [k |-> "row", n |-> j, row |-> Row(a.call, a.sel[j])], a.todo \ {j})
  /\ UNCHANGED <<processes, rpc, linkVars, down, rootShut, crashes, rootVars, table>>

\* Without the framing it reads on, answers something, or leaves.
Stray(w) ==
  /\ wpc[w] = "astray"
  /\ \/ /\ Take(w)
        /\ UNCHANGED up
        /\ UNCHANGED wpc \/ MoveTo(w, "gone")
     \/ /\ up[w] = <<>>
        /\ SendUp(w, << [k |-> "junk"] >>)
        /\ UNCHANGED <<down, wpc>>
  /\ UNCHANGED <<processes, rpc, linkVars, rootShut, crashes, rootVars, table, wout>>

RootWorks ==
  \/ Opening /\ UNCHANGED <<rootVars, table, wout>>
  \/ SendNext \/ SendFails \/ Contribute \/ ReadCount \/ ReadRow \/ ReadFails \/ Reduce

WorkerWorks(w) ==
  \/ /\ Connect(w) \/ GiveUp(w) \/ SayRank(w) \/ Leave(w)
     /\ UNCHANGED <<rootVars, table, wout>>
  \/ RecvShake(w) \/ RecvTable(w) \/ RecvHeader(w) \/ RecvBody(w) \/ SendReply(w) \/ Stray(w)

Next ==
  \/ RootWorks \/ StartCall \/ StartEnd
  \/ \E w \in Workers : WorkerWorks(w) \/ (Crash(w) /\ UNCHANGED <<rootVars, table, wout>>)

Spec == Init /\ [][Next]_vars

\* Both processes go on; nothing is asked of the program that calls layers.
FairSpec == Spec /\ WF_vars(RootWorks) /\ \A w \in Workers : WF_vars(WorkerWorks(w))
=============================================================================
