------------------------ MODULE ExpertParallelProps ------------------------
(***************************************************************************)
(* What expert parallelism must get right.                                 *)
(***************************************************************************)
EXTENDS ExpertParallel

\* What the variables hold.
TypeOK ==
  /\ rpc \in {"listen", "greet", "ready", "shake", "cast", "own", "count", "row",
              "reduce", "bye"} \cup Over
  /\ arriving \in Workers \cup {None} /\ backlog \in Seq(Workers)
  /\ peer \in [Others -> Workers \cup {None}]
  /\ wpc \in [Workers -> Receiving \cup {"start", "say", "reply", "gone"}]
  /\ at \in Others /\ left \in 0 .. TopK
  /\ table \in [Workers \cup {Root} -> [Experts -> 0 .. nranks - 1]]
  /\ sel \in [Slots -> Experts \cup {NoOne}]

\* Slot for slot, s holds the experts of S a single process would use: the TopK largest
\* logits, of equal ones the first, and no expert whose logit is not a number.
Ahead(in, a, b) == in[a] > in[b] \/ (in[a] = in[b] /\ a < b)
Preferred(in, S, s) ==
  /\ \A i \in Slots : s[i] = NoOne \/ (s[i] \in S /\ in[s[i]] # NaN)
  /\ \A i, j \in Slots : i < j /\ s[j] # NoOne => s[i] # NoOne /\ Ahead(in, s[i], s[j])
  /\ \A e \in S : \/ in[e] = NaN \/ \E i \in Slots : s[i] = e
                  \/ \A i \in Slots : s[i] # NoOne /\ Ahead(in, s[i], e)

\* What a layer is given is what a single process would compute ("bit for bit",
\* as the comments promise): the call's experts are the ones it would choose, and every slot
\* holds the row of this call and of its expert, whichever process computed it and whoever died.
FfnExact ==
  rpc = "reduce" =>
    Preferred(x, Experts, sel) /\ \A j \in Slots : sel[j] # NoOne => cbuf[j] = Row(call, sel[j])

\* As long as nobody dies or is late, whoever reads a frame finds the kind it expects, and
\* nothing is left under way when a call is over.
FramesPaired ==
  crashes = 0 /\ ~slow =>
    /\ \A w \in Workers :
         wpc[w] \in Receiving /\ down[w] # <<>> => Head(down[w]).k = wpc[w]
    /\ rpc \in {"count", "row"} /\ up[peer[at]] # <<>> => Head(up[peer[at]]).k = rpc
    /\ rpc = "ready" => \A r \in Others : up[peer[r]] = <<>>

\* f[0] + ... + f[n-1]
Total(f, n) ==
  LET sum[i \in 0 .. n] == IF i = 0 THEN 0 ELSE sum[i - 1] + f[i - 1] IN sum[n]

\* The load of the experts that table own gives to rank r.
Work(load, own, r) == Total([e \in Experts |-> IF own[e] = r THEN load[e] ELSE 0], NExperts)

\* EPLB: a rank that gave any one of its experts away would have no more work for its power
\* than the average.
EvenlyGiven(p, n, own) ==
  \A e \in Experts :
    (Work(p.load, own, own[e]) - p.load[e]) * Total(p.cap, n)
      <= Total(p.load, NExperts) * p.cap[own[e]]

TableIsBalanced == bound /\ plan # Static => EvenlyGiven(plan, nranks, table[Root])

\* Opening a session and every call of a layer end, whoever dies.
EveryCallReturns == rpc # "ready" ~> rpc \in {"ready"} \cup Over
=============================================================================
