------------------------ MODULE ExpertParallelProofs ------------------------
(***************************************************************************)
(* Proofs about ExpertParallel: for any number of processes, experts,      *)
(* slots and calls, any settings, any order in which connections and       *)
(* frames arrive, and whoever dies.  The frames agree with where the       *)
(* coordinator and the workers are until a call is given up; from then on  *)
(* no call is completed.  So a call that is completed has the rows of all  *)
(* its experts.  What is out of step, and not seen, are answers that come  *)
(* too late: the forward pass may not have a timeout expire.  The router   *)
(* and the balancer are right for any logits, loads and powers.            *)
(***************************************************************************)
EXTENDS ExpertParallelProps, FiniteSetTheorems, WellFoundedInduction, TLAPS

\* Nobody dies or is late.
Quiet == crashes = 0 /\ ~slow

\* A sequence, of whatever elements.
IsSeq(s) == \E S : s \in Seq(S)

\* What is to be sent of an answer.
IsReply(a) == \E X, Y : a \in [call : X, sel : Y, counted : BOOLEAN, todo : SUBSET Slots]

Kinds  == {"shake", "table", "header", "body"}
Places == Receiving \cup {"start", "say", "reply", "gone"}

\* The kind of the frame that follows f.
After(f) ==
  CASE f.k = "shake"  -> IF f.mode = 0 THEN "header" ELSE "table"
    [] f.k = "table"  -> "header"
    [] f.k = "header" -> IF f.call > 0 THEN "body" ELSE "gone"
    [] f.k = "body"   -> "header"

EpTypes ==
  /\ nranks \in Nat /\ nranks >= 2
  /\ rank \in [Workers -> Others] /\ slow \in BOOLEAN
  /\ peer \in [Others -> Workers \cup {None}]
  /\ backlog \in Seq(Workers) /\ arriving \in Workers \cup {None}
  /\ wpc \in [Workers -> Places \ {"astray"}]
  /\ rootShut \in [Workers -> BOOLEAN]
  /\ down = [w \in Workers |-> down[w]] /\ up = [w \in Workers |-> up[w]]
  /\ wout = [w \in Workers |-> wout[w]]
  /\ call \in Nat /\ bound \in BOOLEAN /\ at \in Others /\ left \in Nat /\ crashes \in Nat

\* Where the coordinator is, and what it has still to broadcast.
Sending == {"shake", "cast", "bye"}
Open    == {"ready", "own", "count", "row", "reduce"} \cup Sending

OutboxInv ==
  /\ rpc \in {"listen", "greet"} \cup Open \cup Over
  /\ rpc \in {"own", "count", "row", "reduce", "cast", "bye"} => bound
  /\ rpc \in {"listen", "greet", "shake"} => ~bound
  /\ rpc = "shake" => call > 0
  /\ rpc \in Sending =>
       /\ IsSeq(outbox) /\ Len(outbox) \in {1, 2}
       /\ \A i \in 1..Len(outbox) : outbox[i].k \in Kinds
       /\ Len(outbox) = 2 => After(outbox[1]) = outbox[2].k /\ outbox[1].k # "body"
       /\ After(outbox[Len(outbox)]) = IF rpc = "bye" THEN "gone" ELSE "header"
       /\ outbox[Len(outbox)].k = "body" <=> rpc = "cast"
       /\ rpc = "bye" => Len(outbox) = 1
  /\ rpc = "row" => left > 0
  /\ rpc \in {"listen", "greet", "ready", "own", "reduce"} => at = 1
  /\ rpc \in Open => \A r \in Others : peer[r] # None

\* Frames to a worker follow one another, and it expects the first of them.
DownInv(w) ==
  LET q == down[w] IN
  /\ IsSeq(q) /\ \A i \in 1..Len(q) : q[i].k \in Kinds
  /\ \A i \in 1..Len(q) : i < Len(q) => After(q[i]) = q[i + 1].k /\ q[i].k # "body"
  /\ Len(q) > 0 => wpc[w] \in Receiving \cup {"gone"}
  /\ Len(q) > 0 /\ wpc[w] # "gone" => q[1].k = wpc[w]

\* A worker that has not said its rank, or has not been heard.
QueuedInv(w) ==
  /\ wpc[w] \in {"start", "say"} => up[w] = <<>>
  /\ rpc \notin Over =>
       /\ wpc[w] = "start" => ~rootShut[w]
       /\ (\E i \in 1..Len(backlog) : backlog[i] = w) \/ arriving = w =>
            /\ wpc[w] \in {"say", "shake", "gone"} /\ ~rootShut[w] /\ down[w] = <<>>
            /\ \A r \in Others : peer[r] # w
            /\ IsSeq(up[w]) /\ Len(up[w]) \in {0, 1}
            /\ Len(up[w]) = 1 => up[w][1].k = "rank" /\ up[w][1].rank = rank[w]
            /\ wpc[w] = "shake" => Len(up[w]) = 1
            /\ wpc[w] = "gone" => ~Quiet

WaitInv ==
  rpc \notin Over =>
    /\ \A i, j \in 1..Len(backlog) : backlog[i] = backlog[j] => i = j
    /\ \A i \in 1..Len(backlog) : backlog[i] # arriving
    /\ rpc = "greet" <=> arriving # None

\* The kind of frame that rank r is sent next.
Upcoming(r) ==
  IF rpc \in Sending
    THEN IF r >= at THEN outbox[1].k ELSE After(outbox[1])
    ELSE IF bound THEN "header" ELSE "shake"

\* What worker w expects once it has read what is under way.
Reach(w) ==
  IF Len(down[w]) > 0 THEN After(down[w][Len(down[w])])
  ELSE IF wpc[w] = "reply" THEN "header" ELSE wpc[w]

\* A call is under way to w.
Called(w) == Len(down[w]) > 0 /\ down[w][Len(down[w])].k = "body"

\* No answer is owed.
Idle(w) ==
  /\ up[w] = <<>> /\ wpc[w] # "reply"
  /\ wpc[w] # "gone" => ~Called(w)

Todo(w) == wout[w].todo

Rows(w, from) == \A i \in from..Len(up[w]) : up[w][i].k = "row" /\ up[w][i].n \in Slots

\* An answer is owed, and none of it was read: the call is under way, or computed, or
\* its count has gone out and it says how many rows come, or would have come.
Pending(w) ==
  \/ up[w] = <<>> /\ wpc[w] = "gone"
  \/ up[w] = <<>> /\ wpc[w] # "reply" /\ Called(w)
  \/ up[w] = <<>> /\ wpc[w] = "reply" /\ ~wout[w].counted
  \/ /\ wpc[w] = "reply" => wout[w].counted
     /\ wpc[w] # "gone" => Len(down[w]) = 0
     /\ Len(up[w]) > 0
     /\ up[w][1].k = "count" /\ up[w][1].n \in 0..TopK
     /\ up[w][1].n = (Len(up[w]) - 1) + Cardinality(Todo(w))
     /\ Rows(w, 2)

\* The count was read, and left rows are to come, or would be.
Answering(w) ==
  /\ wpc[w] = "reply" => wout[w].counted
  /\ wpc[w] # "gone" => Len(down[w]) = 0
  /\ Rows(w, 1)
  /\ left = Len(up[w]) + Cardinality(Todo(w))

\* What a rank owes.
Owes(r) ==
  \/ rpc = "cast" /\ Len(outbox) = 1 /\ r < at
  \/ rpc = "own"
  \/ rpc = "count" /\ r >= at
  \/ rpc = "row" /\ r > at

\* The connection of rank r.
PeerInv(r) ==
  LET w == peer[r] IN
  rpc \notin Over /\ w # None =>
    /\ rank[w] = r /\ ~rootShut[w]
    /\ wpc[w] \in Receiving \cup {"reply", "gone"}
    /\ wpc[w] = "gone" => ~Quiet \/ (rpc = "bye" /\ r < at)
    /\ IsSeq(up[w])
    /\ wpc[w] # "gone" => Reach(w) = Upcoming(r)
    /\ IF rpc = "row" /\ r = at THEN Answering(w)
       ELSE IF Owes(r) THEN Pending(w) ELSE Idle(w)

ReplyInv(w) ==
  /\ IsReply(wout[w])
  /\ wpc[w] \notin {"reply", "gone"} => wout[w].todo = {}
  /\ wpc[w] = "reply" /\ wout[w].counted => wout[w].todo # {}

WorkersInv == \A w \in Workers : DownInv(w) /\ QueuedInv(w) /\ ReplyInv(w)
PeersInv   == \A r \in Others : PeerInv(r)

EpInv == EpTypes /\ OutboxInv /\ WaitInv /\ WorkersInv /\ PeersInv

\* A rank is dead and says nothing more: no call gets past it.
Stuck(d) ==
  /\ peer[d] \in Workers /\ wpc[peer[d]] = "gone" /\ up[peer[d]] = <<>>
  /\ rpc \in {"ready", "own", "count", "row"} \cup Sending
  /\ at \in Others
  /\ rpc = "own" => at = 1
  /\ rpc = "count" => at <= d
  /\ rpc = "row" => at < d

\* A call was given up.
Spoilt ==
  /\ crashes \in Nat /\ ~Quiet
  /\ nranks \in Nat /\ nranks >= 2
  /\ wpc = [w \in Workers |-> wpc[w]] /\ up = [w \in Workers |-> up[w]]
  /\ rpc \in Over \/ \E d \in Others : Stuck(d)

\* The answers that come late are those of the check, which ends with the first.
Punctual == ~slow \/ driver = "check"

-----------------------------------------------------------------------------
(***************************************************************************)
(* Sequences and counts.                                                   *)
(***************************************************************************)
LEMMA SeqFacts ==
  ASSUME NEW s, IsSeq(s)
  PROVE  Len(s) \in Nat /\ (s = <<>> <=> Len(s) = 0)
BY DEF IsSeq

LEMMA EmptyFacts == IsSeq(<<>>) /\ Len(<<>>) = 0
BY DEF IsSeq

LEMMA AppendFacts ==
  ASSUME NEW s, IsSeq(s), NEW e
  PROVE  /\ IsSeq(Append(s, e)) /\ Len(Append(s, e)) = Len(s) + 1
         /\ \A i \in 1..Len(s) : Append(s, e)[i] = s[i]
         /\ Append(s, e)[Len(s) + 1] = e
         /\ s \o <<e>> = Append(s, e)
<1>1. PICK S : s \in Seq(S)
  BY DEF IsSeq
<1>2. s \in Seq(S \cup {e}) /\ e \in S \cup {e}
  BY <1>1
<1>3. Append(s, e) \in Seq(S \cup {e})
  BY <1>2
<1>4. s \o <<e>> = Append(s, e)
  BY <1>2
<1> QED BY <1>2, <1>3, <1>4 DEF IsSeq

LEMMA TailFacts ==
  ASSUME NEW s, IsSeq(s), Len(s) > 0
  PROVE  /\ IsSeq(Tail(s)) /\ Len(Tail(s)) = Len(s) - 1 /\ Head(s) = s[1]
         /\ \A i \in 1..Len(s)-1 : Tail(s)[i] = s[i + 1]
<1>1. PICK S : s \in Seq(S)
  BY DEF IsSeq
<1>2. s # <<>>
  BY <1>1
<1>3. Tail(s) \in Seq(S)
  BY <1>1, <1>2
<1> QED BY <1>1, <1>2, <1>3 DEF IsSeq

\* The answer a after a frame of it, when R is left.
Answered(a, R) == [a EXCEPT !.counted = TRUE, !.todo = R]

LEMMA ReplyFacts ==
  ASSUME NEW a, IsReply(a), NEW R \in SUBSET a.todo
  PROVE  LET b == Answered(a, R)
         IN  IsReply(b) /\ b.counted /\ b.todo = R /\ b.call = a.call /\ b.sel = a.sel
<1>1. PICK X, Y : a \in [call : X, sel : Y, counted : BOOLEAN, todo : SUBSET Slots]
  BY DEF IsReply
<1>2. R \in SUBSET Slots
  BY <1>1
<1> HIDE DEF Slots
<1> QED BY <1>1, <1>2 DEF IsReply, Answered

\* The slots that are left to answer for.
LEMMA SlotsFacts ==
  ASSUME NEW T, T \subseteq Slots
  PROVE  /\ IsFiniteSet(T) /\ Cardinality(T) \in 0..TopK
         /\ Cardinality(T) = 0 <=> T = {}
         /\ \A j \in T : Cardinality(T \ {j}) = Cardinality(T) - 1
<1>1. TopK \in Nat \ {0} /\ 0 \in Int /\ TopK - 1 \in Int
  BY ExpertsAssumption
<1>2. IsFiniteSet(Slots) /\ Cardinality(Slots) = TopK
  <2>1. IsFiniteSet(0..TopK-1) /\ Cardinality(0..TopK-1) = TopK - 1 - 0 + 1
    BY <1>1, FS_Interval
  <2> QED BY <1>1, <2>1 DEF Slots
<1> HIDE DEF Slots
<1>3. IsFiniteSet(T) /\ Cardinality(T) <= Cardinality(Slots)
  BY <1>2, FS_Subset
<1>4. Cardinality(T) \in Nat
  BY <1>3, FS_CardinalityType
<1>5. Cardinality(T) = 0 <=> T = {}
  BY <1>3, FS_EmptySet
<1>6. \A j \in T : Cardinality(T \ {j}) = Cardinality(T) - 1
  BY <1>3, FS_RemoveElement
<1> QED BY <1>1, <1>2, <1>3, <1>4, <1>5, <1>6

-----------------------------------------------------------------------------
(***************************************************************************)
(* A step of one worker.                                                   *)
(***************************************************************************)
RootSame ==
  /\ UNCHANGED <<nranks, rank, slow, rpc, peer, backlog, arriving, rootShut,
                 bound, call, outbox, at, left>>
  /\ crashes \in Nat => crashes' \in Nat
  /\ Quiet' => Quiet

\* Nothing changes for worker v.
Same(v) == wpc'[v] = wpc[v] /\ down'[v] = down[v] /\ up'[v] = up[v] /\ wout'[v] = wout[v]

LEMMA WorkerStays ==
  ASSUME RootSame, NEW v \in Workers, Same(v), DownInv(v), QueuedInv(v), ReplyInv(v)
  PROVE  DownInv(v)' /\ QueuedInv(v)' /\ ReplyInv(v)'
<1>1. DownInv(v)'
  BY DEF Same, DownInv
<1>2. QueuedInv(v)'
  BY DEF RootSame, Same, QueuedInv, Others
<1>3. ReplyInv(v)'
  BY DEF Same, ReplyInv
<1> QED BY <1>1, <1>2, <1>3

LEMMA PeerStays ==
  ASSUME RootSame, NEW r \in Others, peer[r] # None => Same(peer[r]), PeerInv(r)
  PROVE  PeerInv(r)'
<1>1. CASE peer[r] = None
  BY <1>1 DEF RootSame, PeerInv
<1>2. CASE peer[r] # None
  <2>1. PICK v : v = peer[r] /\ peer'[r] = v /\ v # None
    BY <1>2 DEF RootSame
  <2>2. Same(v)
    BY <1>2, <2>1
  <2>3. /\ Reach(v)' = Reach(v) /\ Upcoming(r)' = Upcoming(r) /\ (Idle(v)' <=> Idle(v))
        /\ (Owes(r)' <=> Owes(r))
    BY <2>2 DEF Same, RootSame, Reach, Upcoming, Idle, Called, Owes
  <2>4. Todo(v)' = Todo(v)
    BY <2>2 DEF Same, Todo
  <2>5. Pending(v)' <=> Pending(v)
    BY <2>2, <2>4 DEF Same, Pending, Called, Rows
  <2>6. Answering(v)' <=> Answering(v)
    BY <2>2, <2>4 DEF Same, Answering, RootSame, Rows
  <2> QED BY <2>1, <2>2, <2>3, <2>5, <2>6 DEF PeerInv, Same, RootSame
<1> QED BY <1>1, <1>2

\* What a step of worker w has to keep.
LEMMA OneWorker ==
  ASSUME EpInv, RootSame, NEW w \in Workers, \A v \in Workers \ {w} : Same(v),
         wpc'[w] \in Places \ {"astray"},
         wpc' = [wpc EXCEPT ![w] = wpc'[w]], down' = [down EXCEPT ![w] = down'[w]],
         up' = [up EXCEPT ![w] = up'[w]], wout' = [wout EXCEPT ![w] = wout'[w]],
         DownInv(w)', QueuedInv(w)', ReplyInv(w)',
         \A r \in Others : peer[r] = w => PeerInv(r)'
  PROVE  EpInv'
<1>1. EpTypes'
  <2>1. /\ wpc' \in [Workers -> Places \ {"astray"}]
        /\ down' = [v \in Workers |-> down'[v]] /\ up' = [v \in Workers |-> up'[v]]
        /\ wout' = [v \in Workers |-> wout'[v]]
    BY DEF EpInv, EpTypes
  <2> QED BY <2>1 DEF EpInv, EpTypes, RootSame, Others
<1>2. OutboxInv' /\ WaitInv'
  BY DEF EpInv, OutboxInv, WaitInv, RootSame, Others
<1>3. WorkersInv'
  BY WorkerStays DEF EpInv, WorkersInv
<1>4. PeersInv'
  <2> SUFFICES ASSUME NEW r \in Others PROVE PeerInv(r)'
    BY DEF PeersInv, RootSame, Others
  <2>1. peer[r] # None => peer[r] \in Workers
    BY DEF EpInv, EpTypes
  <2>2. CASE peer[r] # w
    BY <2>1, <2>2, PeerStays DEF EpInv, PeersInv
  <2> QED BY <2>2
<1> QED BY <1>1, <1>2, <1>3, <1>4 DEF EpInv

\* A worker reads the frame it expects, and expects the one that follows.
LEMMA TakeKeeps ==
  ASSUME EpInv, RootSame, NEW w \in Workers, wpc[w] \in Kinds,
         down[w] # <<>>, down' = [down EXCEPT ![w] = Tail(@)], up' = up,
         NEW next, next = IF down[w][1].k = "body" THEN "reply" ELSE After(down[w][1]),
         wpc' = [wpc EXCEPT ![w] = next], NEW a, wout' = [wout EXCEPT ![w] = a],
         next = "reply" => IsReply(a) /\ ~a.counted,
         next # "reply" => a = wout[w]
  PROVE  EpInv'
<1>1. /\ \A v \in Workers \ {w} : Same(v)
      /\ wpc'[w] = next /\ down'[w] = Tail(down[w]) /\ up'[w] = up[w] /\ wout'[w] = a
  BY DEF EpInv, EpTypes, Same
<1>2. DownInv(w) /\ QueuedInv(w) /\ ReplyInv(w)
  BY DEF EpInv, WorkersInv
<1> DEFINE q == down[w]
           t == Tail(down[w])
<1>3. /\ IsSeq(q) /\ Len(q) \in Nat /\ Len(q) > 0 /\ wpc[w] # "gone"
      /\ q[1].k = wpc[w] /\ q[1].k \in Kinds /\ \A i \in 1..Len(q) : q[i].k \in Kinds
      /\ \A i \in 1..Len(q) : i < Len(q) => After(q[i]) = q[i + 1].k /\ q[i].k # "body"
  BY <1>2, SeqFacts DEF DownInv, Kinds
<1>4. IsSeq(t) /\ Len(t) = Len(q) - 1 /\ \A i \in 1..Len(q)-1 : t[i] = q[i + 1]
  BY <1>3, TailFacts
<1> HIDE DEF q, t
<1>5. Len(t) > 0 => next = t[1].k /\ next \in Kinds /\ q[1].k # "body" /\ t[Len(t)] = q[Len(q)]
  <2> SUFFICES ASSUME Len(t) > 0
               PROVE  next = t[1].k /\ next \in Kinds /\ q[1].k # "body" /\ t[Len(t)] = q[Len(q)]
    OBVIOUS
  <2>1. 1 \in 1..Len(q)-1 /\ 1 < Len(q) /\ Len(t) \in 1..Len(q)-1 /\ Len(t) + 1 = Len(q) /\ 2 \in 1..Len(q)
    BY <1>3, <1>4
  <2>2. t[1] = q[2] /\ t[Len(t)] = q[Len(q)] /\ After(q[1]) = q[2].k /\ q[1].k # "body"
    BY <1>3, <1>4, <2>1
  <2> QED BY <1>3, <2>1, <2>2 DEF q
<1>6. next \in Kinds \cup {"reply", "gone"}
  BY <1>3 DEF q, After, Kinds
<1>7. DownInv(w)'
  <2>1. ASSUME NEW i \in 1..Len(t)
        PROVE  t[i].k \in Kinds /\ (i < Len(t) => After(t[i]) = t[i + 1].k /\ t[i].k # "body")
    <3>1. i \in 1..Len(q)-1 /\ i + 1 \in 1..Len(q) /\ t[i] = q[i + 1]
      BY <1>3, <1>4
    <3>2. i < Len(t) => i + 1 \in 1..Len(q)-1 /\ i + 1 < Len(q) /\ t[i + 1] = q[i + 1 + 1]
      BY <1>3, <1>4, <3>1
    <3> QED BY <1>3, <3>1, <3>2
  <2>2. Len(t) > 0 => next \in Receiving /\ t[1].k = next
    BY <1>5 DEF Kinds, Receiving
  <2>3. down'[w] = t
    BY <1>1 DEF t
  <2> QED BY <1>1, <1>4, <2>1, <2>2, <2>3 DEF DownInv
<1>8. \A i \in 1..Len(backlog) : rpc \notin Over => backlog[i] # w
  BY <1>2, <1>3 DEF QueuedInv, q
<1>9. rpc \notin Over => arriving # w
  BY <1>2, <1>3 DEF QueuedInv, q
<1>10. QueuedInv(w)'
  <2>1. next \notin {"start", "say"}
    BY <1>3 DEF q, After, Kinds
  <2> QED BY <1>1, <1>8, <1>9, <2>1 DEF QueuedInv, RootSame
<1>11. ReplyInv(w)'
  BY <1>1, <1>2, <1>3 DEF ReplyInv, Kinds, q
<1>12. ASSUME NEW r \in Others, peer[r] = w
       PROVE  PeerInv(r)'
  <2> SUFFICES ASSUME rpc \notin Over, w # None
               PROVE  PeerInv(r)'
    BY <1>12 DEF PeerInv, RootSame
  <2>1. /\ rank[w] = r /\ ~rootShut[w] /\ IsSeq(up[w])
        /\ Reach(w) = Upcoming(r) /\ Reach(w) = After(q[Len(q)])
        /\ ~(rpc = "row" /\ r = at)
        /\ IF Owes(r) THEN Pending(w) ELSE Idle(w)
    BY <1>3, <1>12 DEF PeerInv, EpInv, PeersInv, Reach, Answering, q
  <2>2. Reach(w)' = Reach(w)
    <3>1. Len(t) > 0 => After(t[Len(t)]) = After(q[Len(q)])
      BY <1>5
    <3>2. ~(Len(t) > 0) => Len(q) = 1
      BY <1>3, <1>4
    <3>3. ~(Len(t) > 0) => After(q[Len(q)]) = IF next = "reply" THEN "header" ELSE next
      <4> SUFFICES ASSUME Len(q) = 1
                   PROVE  After(q[1]) = IF next = "reply" THEN "header" ELSE next
        BY <3>2
      <4> QED BY <1>3 DEF q, After, Kinds
    <3> QED BY <1>1, <2>1, <3>1, <3>3 DEF Reach, t
  <2>3. Upcoming(r)' = Upcoming(r) /\ (Owes(r)' <=> Owes(r))
    BY DEF RootSame, Upcoming, Owes
  <2>4. next = "gone" => rpc = "bye" /\ r < at
    <3> SUFFICES ASSUME next = "gone"
                 PROVE  rpc = "bye" /\ r < at
      OBVIOUS
    <3>1. Len(t) = 0
      BY <1>3, <1>4, <1>5 DEF Kinds
    <3>2. Upcoming(r) = "gone"
      BY <1>1, <2>1, <2>2, <3>1 DEF Reach, t
    <3>3. OutboxInv
      BY DEF EpInv
    <3>4. rpc \in Sending
      BY <3>2 DEF Upcoming
    <3>5. Len(outbox) \in {1, 2} /\ outbox[1].k \in Kinds
      BY <3>3, <3>4 DEF OutboxInv
    <3>6. ~(r >= at) /\ After(outbox[1]) = "gone"
      BY <3>2, <3>4, <3>5 DEF Upcoming, Kinds
    <3>7. Len(outbox) = 1
      BY <3>3, <3>4, <3>5, <3>6 DEF OutboxInv, Kinds
    <3>8. rpc = "bye"
      BY <3>3, <3>4, <3>6, <3>7 DEF OutboxInv
    <3>9. r \in Int /\ at \in Int
      BY DEF EpInv, EpTypes, Others
    <3> QED BY <3>6, <3>8, <3>9
  <2>5. CASE Owes(r)
    <3>1. up[w] = <<>> /\ q[Len(q)].k = "body"
      BY <1>3, <2>1, <2>5, EmptyFacts DEF Pending, Called, q, Kinds
    <3>2. Pending(w)'
      <4>1. CASE Len(t) > 0
        BY <1>1, <1>5, <3>1, <4>1 DEF Pending, Called, t, Kinds
      <4>2. CASE ~(Len(t) > 0)
        <5>1. Len(q) = 1
          BY <1>3, <1>4, <4>2
        <5>2. next = "reply" /\ ~a.counted
          BY <3>1, <5>1 DEF q
        <5> QED BY <1>1, <3>1, <5>2 DEF Pending, Called
      <4> QED BY <4>1, <4>2
    <3> QED BY <1>1, <1>6, <1>12, <2>1, <2>2, <2>3, <2>4, <2>5, <3>2 DEF PeerInv, RootSame, Kinds, Receiving
  <2>6. CASE ~Owes(r)
    <3>1. up[w] = <<>> /\ q[Len(q)].k # "body"
      BY <1>3, <2>1, <2>6 DEF Idle, Called, q
    <3>2. next # "reply"
      <4>1. Len(t) > 0 => q[1].k # "body"
        BY <1>5
      <4>2. ~(Len(t) > 0) => Len(q) = 1
        BY <1>3, <1>4
      <4>3. q[1].k # "body"
        BY <3>1, <4>1, <4>2
      <4> QED BY <1>3, <4>3 DEF q, After, Kinds
    <3>3. Idle(w)'
      <4>1. Len(t) > 0 => t[Len(t)].k # "body"
        BY <1>5, <3>1
      <4> QED BY <1>1, <3>1, <3>2, <4>1 DEF Idle, Called, t
    <3> QED BY <1>1, <1>6, <1>12, <2>1, <2>2, <2>3, <2>4, <2>6, <3>3 DEF PeerInv, RootSame, Kinds, Receiving
  <2> QED BY <2>5, <2>6
<1>13. /\ wpc'[w] \in Places \ {"astray"}
       /\ wpc' = [wpc EXCEPT ![w] = wpc'[w]] /\ down' = [down EXCEPT ![w] = down'[w]]
       /\ up' = [up EXCEPT ![w] = up'[w]] /\ wout' = [wout EXCEPT ![w] = wout'[w]]
  <2>1. wpc' = [wpc EXCEPT ![w] = wpc'[w]] /\ wpc'[w] \in Places \ {"astray"}
    BY <1>1, <1>6 DEF Kinds, Places, Receiving
  <2>2. down' = [down EXCEPT ![w] = down'[w]]
    BY <1>1
  <2>3. up' = [up EXCEPT ![w] = up'[w]]
    BY DEF EpInv, EpTypes
  <2> QED BY <1>1, <2>1, <2>2, <2>3
<1> QED BY <1>1, <1>7, <1>10, <1>11, <1>12, <1>13, OneWorker

\* st_moe_ep_worker_run reads the shake, the table, a header, or the rest of a call.
LEMMA ReceiveKeeps ==
  ASSUME EpInv, NEW w \in Workers,
         RecvShake(w) \/ RecvTable(w) \/ RecvHeader(w) \/ RecvBody(w)
  PROVE  EpInv'
<1>1. RootSame /\ up' = up /\ Take(w) /\ wpc[w] \in Kinds
  BY DEF RecvShake, RecvTable, RecvHeader, RecvBody, RootSame, Quiet, processes, linkVars, rootVars,
         callVars, Kinds
<1>2. /\ down[w] # <<>> /\ down' = [down EXCEPT ![w] = Tail(@)]
      /\ Head(down[w]) = down[w][1] /\ down[w][1].k = wpc[w]
  <2>1. down[w] # <<>> /\ down' = [down EXCEPT ![w] = Tail(@)]
    BY <1>1 DEF Take
  <2>2. DownInv(w)
    BY DEF EpInv, WorkersInv
  <2>3. Len(down[w]) \in Nat /\ Len(down[w]) # 0
    BY <2>1, <2>2, SeqFacts DEF DownInv
  <2> QED BY <1>1, <2>1, <2>2, <2>3, TailFacts DEF DownInv, Kinds
<1> DEFINE f == down[w][1]
<1>3. wout = [wout EXCEPT ![w] = wout[w]]
  BY DEF EpInv, EpTypes
<1>4. CASE RecvShake(w) \/ RecvTable(w) \/ RecvHeader(w)
  <2>1. /\ wout' = wout /\ f.k # "body"
        /\ wpc' = [wpc EXCEPT ![w] = After(f)]
    BY <1>2, <1>4 DEF RecvShake, RecvTable, RecvHeader, MoveTo, After
  <2>2. After(f) # "reply"
    BY <1>1, <1>2, <2>1 DEF After, Kinds
  <2>3. wout' = [wout EXCEPT ![w] = wout[w]]
    BY <1>3, <2>1
  <2> HIDE DEF f
  <2> QED BY <1>1, <1>2, <2>1, <2>2, <2>3, TakeKeeps DEF f
<1>5. CASE RecvBody(w)
  <2> DEFINE a == [call |-> f.call, sel |-> f.sel, counted |-> FALSE, todo |-> Mine(w, f.sel)]
  <2>1. f.k = "body" /\ wpc' = [wpc EXCEPT ![w] = "reply"] /\ wout' = [wout EXCEPT ![w] = a]
    BY <1>2, <1>5 DEF RecvBody, MoveTo
  <2>2. IsReply(a) /\ ~a.counted
    <3>1. Mine(w, f.sel) \in SUBSET Slots
      BY DEF Mine
    <3>2. a \in [call : {f.call}, sel : {f.sel}, counted : BOOLEAN, todo : SUBSET Slots]
      BY <3>1
    <3> QED BY <3>2 DEF IsReply
  <2> HIDE DEF f, a
  <2> QED BY <1>1, <1>2, <2>1, <2>2, TakeKeeps DEF f
<1> QED BY <1>4, <1>5

\* It sends the count, or a row.
LEMMA ReplyKeeps ==
  ASSUME EpInv, NEW w \in Workers, SendReply(w)
  PROVE  EpInv'
<1>1. RootSame /\ down' = down /\ wpc[w] = "reply"
  BY DEF SendReply, RootSame, Quiet, processes, linkVars, rootVars, callVars
<1>2. DownInv(w) /\ QueuedInv(w) /\ ReplyInv(w)
  BY DEF EpInv, WorkersInv
<1> DEFINE T == wout[w].todo
<1>3. T \subseteq Slots /\ Len(down[w]) = 0 /\ IsReply(wout[w])
  <2>1. Len(down[w]) = 0
    BY <1>1, <1>2, SeqFacts DEF DownInv, Receiving
  <2> QED BY <1>2, <2>1 DEF ReplyInv, IsReply
<1>4. PICK f, R :
        /\ R \subseteq T /\ Reply(w, f, R)
        /\ \/ ~wout[w].counted /\ f.k = "count" /\ f.n = Cardinality(T) /\ R = T
           \/ wout[w].counted /\ f.k = "row" /\ \E j \in T : f.n = j /\ R = T \ {j}
  <2>1. CASE ~wout[w].counted
    BY <2>1 DEF SendReply, CountOf
  <2>2. CASE wout[w].counted
    <3>1. PICK j \in T : Reply(w, [k |-> "row", n |-> j, row |-> Row(wout[w].call, wout[w].sel[j])], T \ {j})
      BY <2>2 DEF SendReply
    <3> DEFINE g == [k |-> "row", n |-> j, row |-> Row(wout[w].call, wout[w].sel[j])]
    <3>2. g.k = "row" /\ g.n = j /\ T \ {j} \subseteq T
      OBVIOUS
    <3> HIDE DEF g, T
    <3> QED BY <2>2, <3>1, <3>2 DEF g
  <2> QED BY <2>1, <2>2
<1>5. /\ \A v \in Workers \ {w} : Same(v)
      /\ up'[w] = up[w] \o <<f>> /\ down'[w] = down[w]
      /\ wpc'[w] = IF R = {} THEN "header" ELSE "reply"
      /\ wout'[w].counted /\ wout'[w].todo = R
      /\ IsReply(wout'[w])
      /\ wpc' = [wpc EXCEPT ![w] = wpc'[w]] /\ down' = [down EXCEPT ![w] = down'[w]]
      /\ up' = [up EXCEPT ![w] = up'[w]] /\ wout' = [wout EXCEPT ![w] = wout'[w]]
  <2>1. /\ up' = [up EXCEPT ![w] = @ \o <<f>>]
        /\ wout' = [wout EXCEPT ![w] = [@ EXCEPT !.counted = TRUE, !.todo = R]]
        /\ wpc' = [wpc EXCEPT ![w] = IF R = {} THEN "header" ELSE "reply"]
    BY <1>1, <1>4 DEF Reply, SendUp, MoveTo, EpInv, EpTypes
  <2>2. R \in SUBSET wout[w].todo
    BY <1>4
  <2>3. /\ wout'[w] = Answered(wout[w], R)
        /\ up'[w] = up[w] \o <<f>> /\ wpc'[w] = IF R = {} THEN "header" ELSE "reply"
    BY <2>1 DEF EpInv, EpTypes, Answered
  <2>4. IsReply(wout'[w]) /\ wout'[w].counted /\ wout'[w].todo = R
    BY <1>3, <2>2, <2>3, ReplyFacts
  <2>5. wout' = [wout EXCEPT ![w] = wout'[w]] /\ up' = [up EXCEPT ![w] = up'[w]]
        /\ wpc' = [wpc EXCEPT ![w] = wpc'[w]] /\ down' = [down EXCEPT ![w] = down'[w]]
    BY <1>1, <2>1, <2>3 DEF EpInv, EpTypes
  <2>6. \A v \in Workers \ {w} : Same(v)
    BY <1>1, <2>1 DEF EpInv, EpTypes, Same
  <2> QED BY <1>1, <2>2, <2>3, <2>4, <2>5, <2>6
<1> HIDE DEF T
<1>6. DownInv(w)' /\ QueuedInv(w)' /\ ReplyInv(w)'
  <2>1. DownInv(w)'
    BY <1>2, <1>3, <1>5 DEF DownInv
  <2>2. QueuedInv(w)'
    BY <1>1, <1>2, <1>5 DEF QueuedInv, RootSame
  <2>3. ReplyInv(w)'
    BY <1>3, <1>4, <1>5 DEF ReplyInv, T
  <2> QED BY <2>1, <2>2, <2>3
<1>7. ASSUME NEW r \in Others, peer[r] = w
      PROVE  PeerInv(r)'
  <2> SUFFICES ASSUME rpc \notin Over, w # None
               PROVE  PeerInv(r)'
    BY <1>1, <1>7 DEF PeerInv, RootSame
  <2>1. /\ rank[w] = r /\ ~rootShut[w] /\ IsSeq(up[w]) /\ Reach(w) = Upcoming(r)
        /\ IF rpc = "row" /\ r = at THEN Answering(w) ELSE Pending(w)
        /\ ~(rpc = "row" /\ r = at) => Owes(r)
    BY <1>1, <1>7 DEF PeerInv, EpInv, PeersInv, Idle, Called
  <2>2. Reach(w)' = Reach(w) /\ Upcoming(r)' = Upcoming(r) /\ (Owes(r)' <=> Owes(r))
    BY <1>1, <1>3, <1>5 DEF Reach, Upcoming, Owes, RootSame
  <2>3. /\ IsSeq(up'[w]) /\ Len(up'[w]) = Len(up[w]) + 1 /\ Len(up[w]) \in Nat
        /\ up'[w][Len(up[w]) + 1] = f /\ \A i \in 1..Len(up[w]) : up'[w][i] = up[w][i]
    <3>1. up'[w] = up[w] \o <<f>> /\ IsSeq(up[w])
      BY <1>5, <2>1
    <3>2. up'[w] = Append(up[w], f)
      BY <3>1, AppendFacts
    <3>3. /\ IsSeq(Append(up[w], f)) /\ Len(Append(up[w], f)) = Len(up[w]) + 1
          /\ \A i \in 1..Len(up[w]) : Append(up[w], f)[i] = up[w][i]
          /\ Append(up[w], f)[Len(up[w]) + 1] = f
      BY <3>1, AppendFacts
    <3>4. Len(up[w]) \in Nat
      BY <3>1, SeqFacts
    <3> QED BY <3>2, <3>3, <3>4
  <2>4. Todo(w) = T /\ Todo(w)' = R
    BY <1>1, <1>5 DEF Todo, T
  <2>5. /\ Cardinality(T) \in 0..TopK /\ Cardinality(R) \in Nat
        /\ TopK \in Nat /\ \A j \in T : j \in Slots /\ Cardinality(T \ {j}) = Cardinality(T) - 1
    <3>1. R \subseteq Slots
      BY <1>3, <1>4 DEF T
    <3> QED BY <1>3, <3>1, SlotsFacts, ExpertsAssumption DEF T
  <2>6. wpc'[w] \in Receiving \cup {"reply", "gone"} /\ wpc'[w] # "gone"
    BY <1>5 DEF Receiving
  <2>7. CASE rpc = "row" /\ r = at
    <3>1. wout[w].counted /\ Rows(w, 1) /\ left = Len(up[w]) + Cardinality(T)
      BY <1>1, <2>1, <2>4, <2>7 DEF Answering
    <3>2. f.k = "row" /\ f.n \in Slots /\ Cardinality(R) = Cardinality(T) - 1
      BY <1>4, <2>5, <3>1
    <3>3. Rows(w, 1)'
      <4> SUFFICES ASSUME NEW i \in 1..Len(up'[w])
                   PROVE  up'[w][i].k = "row" /\ up'[w][i].n \in Slots
        BY DEF Rows
      <4>1. i \in 1..Len(up[w]) \/ i = Len(up[w]) + 1
        BY <2>3
      <4> QED BY <2>3, <3>1, <3>2, <4>1 DEF Rows
    <3>4. left' = Len(up'[w]) + Cardinality(R)
      <4>1. left' = left /\ Len(up[w]) \in Nat /\ Cardinality(T) \in Nat
        BY <1>1, <2>3, <2>5 DEF RootSame
      <4> QED BY <2>3, <3>1, <3>2, <4>1
    <3>5. Answering(w)'
      BY <1>3, <1>5, <2>4, <3>3, <3>4 DEF Answering
    <3> QED BY <1>1, <1>7, <2>1, <2>2, <2>3, <2>6, <2>7, <3>5 DEF PeerInv, RootSame
  <2>8. CASE ~(rpc = "row" /\ r = at)
    <3>1. Pending(w)'
      <4>1. CASE ~wout[w].counted
        <5>1. up[w] = <<>> /\ Len(up[w]) = 0 /\ f.k = "count" /\ f.n = Cardinality(T) /\ R = T
          BY <1>1, <1>4, <2>1, <2>8, <4>1, EmptyFacts DEF Pending, Called
        <5>2. Len(up'[w]) = 1 /\ up'[w][1] = f
          BY <2>3, <5>1
        <5>3. Rows(w, 2)'
          BY <5>2 DEF Rows
        <5> QED BY <1>3, <1>5, <2>4, <2>5, <5>1, <5>2, <5>3 DEF Pending, Called
      <4>2. CASE wout[w].counted
        <5>1. /\ Len(up[w]) > 0 /\ up[w][1].k = "count" /\ up[w][1].n \in 0..TopK
              /\ up[w][1].n = (Len(up[w]) - 1) + Cardinality(T) /\ Rows(w, 2)
          BY <1>1, <2>1, <2>4, <2>8, <4>2 DEF Pending, Called
        <5>2. f.k = "row" /\ f.n \in Slots /\ Cardinality(R) = Cardinality(T) - 1
          BY <1>4, <2>5, <4>2
        <5>3. Rows(w, 2)'
          <6> SUFFICES ASSUME NEW i \in 2..Len(up'[w])
                       PROVE  up'[w][i].k = "row" /\ up'[w][i].n \in Slots
            BY DEF Rows
          <6>1. (i \in 2..Len(up[w]) /\ i \in 1..Len(up[w])) \/ i = Len(up[w]) + 1
            BY <2>3
          <6> QED BY <2>3, <5>1, <5>2, <6>1 DEF Rows
        <5>4. up'[w][1] = up[w][1] /\ Len(up'[w]) > 0
          BY <2>3, <5>1
        <5>5. up'[w][1].n = (Len(up'[w]) - 1) + Cardinality(R)
          BY <2>3, <2>5, <5>1, <5>2, <5>4
        <5> QED BY <1>3, <1>5, <2>4, <5>1, <5>3, <5>4, <5>5 DEF Pending, Called
      <4> QED BY <4>1, <4>2
    <3> QED BY <1>1, <1>7, <2>1, <2>2, <2>3, <2>6, <2>8, <3>1 DEF PeerInv, RootSame
  <2> QED BY <2>7, <2>8
<1>8. wpc'[w] \in Places \ {"astray"}
  BY <1>5 DEF Places, Receiving
<1> QED BY <1>1, <1>5, <1>6, <1>7, <1>8, OneWorker

\* It says its rank.
LEMMA SayRankKeeps ==
  ASSUME EpInv, NEW w \in Workers, SayRank(w), UNCHANGED <<rootVars, table, wout>>
  PROVE  EpInv'
<1>1. RootSame /\ down' = down /\ wout' = wout
  BY DEF SayRank, RootSame, Quiet, processes, linkVars, rootVars, callVars
<1>2. DownInv(w) /\ QueuedInv(w) /\ ReplyInv(w) /\ Len(down[w]) \in Nat
  BY SeqFacts DEF EpInv, WorkersInv, DownInv
<1>3. /\ wpc' = [wpc EXCEPT ![w] = wpc'[w]] /\ wpc'[w] = "shake" /\ wpc[w] = "say"
      /\ up' = [up EXCEPT ![w] = up'[w]]
      /\ down' = [down EXCEPT ![w] = down'[w]] /\ wout' = [wout EXCEPT ![w] = wout'[w]]
      /\ \A v \in Workers \ {w} : Same(v)
      /\ down'[w] = down[w] /\ wout'[w] = wout[w]
  <2>1. wpc' = [wpc EXCEPT ![w] = wpc'[w]] /\ wpc'[w] = "shake" /\ wpc[w] = "say"
    BY DEF SayRank, MoveTo, EpInv, EpTypes
  <2>2. up' = [up EXCEPT ![w] = up'[w]]
    BY DEF SayRank, SendUp, EpInv, EpTypes
  <2>3. down' = [down EXCEPT ![w] = down'[w]] /\ wout' = [wout EXCEPT ![w] = wout'[w]]
    BY <1>1 DEF EpInv, EpTypes
  <2>4. \A v \in Workers \ {w} : Same(v)
    BY <1>1, <2>1, <2>2 DEF EpInv, EpTypes, Same
  <2> QED BY <1>1, <2>1, <2>2, <2>3, <2>4
<1>4. ReplyInv(w)'
  BY <1>2, <1>3 DEF ReplyInv
<1>5. wpc'[w] \in Places \ {"astray"}
  BY <1>3 DEF Places, Receiving
<1>6. /\ up[w] = <<>> /\ Len(down[w]) = 0
      /\ up'[w] = <<>> \o <<[k |-> "rank", rank |-> rank[w]]>>
  BY <1>2, <1>3 DEF SayRank, SendUp, EpInv, EpTypes, QueuedInv, DownInv, Receiving
<1>7. up'[w] = <<[k |-> "rank", rank |-> rank[w]]>>
  BY <1>6
<1> DEFINE f == [k |-> "rank", rank |-> rank[w]]
<1>8. IsSeq(<<f>>) /\ Len(<<f>>) = 1 /\ <<f>>[1] = f
  <2> HIDE DEF f
  <2>1. <<f>> \in Seq({f})
    OBVIOUS
  <2> QED BY <2>1 DEF IsSeq
<1>9. f.k = "rank" /\ f.rank = rank[w]
  OBVIOUS
<1>10. up'[w] = <<f>>
  BY <1>7
<1> HIDE DEF f
<1>11. DownInv(w)'
  BY <1>2, <1>3, <1>6 DEF DownInv
<1>12. QueuedInv(w)'
  BY <1>1, <1>2, <1>3, <1>8, <1>9, <1>10 DEF QueuedInv, RootSame, Others
<1>13. ASSUME NEW r \in Others, peer[r] = w PROVE PeerInv(r)'
  BY <1>1, <1>3, <1>13 DEF EpInv, PeersInv, PeerInv, RootSame, Receiving
<1> QED BY <1>1, <1>3, <1>4, <1>5, <1>11, <1>12, <1>13, OneWorker

\* A worker has gone: it gave up connecting, left because the coordinator has closed or is
\* late, or died.
LEMMA GoneKeeps ==
  ASSUME EpInv, NEW w \in Workers, GiveUp(w) \/ Leave(w) \/ Crash(w),
         UNCHANGED <<rootVars, table, wout>>
  PROVE  EpInv'
<1>1. /\ RootSame /\ down' = down /\ up' = up /\ wout' = wout
      /\ wpc' = [wpc EXCEPT ![w] = "gone"]
      /\ wpc[w] = "start" \/ rootShut[w] \/ ~Quiet'
  <2>1. CASE GiveUp(w)
    BY <2>1 DEF GiveUp, MoveTo, RootSame, Quiet, processes, linkVars, rootVars, callVars
  <2>2. CASE Leave(w)
    BY <2>2 DEF Leave, MoveTo, RootSame, Quiet, processes, linkVars, rootVars, callVars
  <2>3. CASE Crash(w)
    <3>1. crashes \in Nat /\ crashes' = crashes + 1
      BY <2>3 DEF Crash, EpInv, EpTypes
    <3>2. crashes' \in Nat /\ crashes' # 0
      BY <3>1
    <3>3. ~Quiet'
      BY <3>2 DEF Quiet
    <3> QED BY <2>3, <3>2, <3>3 DEF Crash, MoveTo, RootSame, processes, linkVars, rootVars, callVars
  <2> QED BY <2>1, <2>2, <2>3
<1>2. DownInv(w) /\ QueuedInv(w) /\ ReplyInv(w)
  BY DEF EpInv, WorkersInv
<1>3. /\ wpc' = [wpc EXCEPT ![w] = wpc'[w]] /\ wpc'[w] = "gone"
      /\ up' = [up EXCEPT ![w] = up'[w]]
      /\ down' = [down EXCEPT ![w] = down'[w]] /\ wout' = [wout EXCEPT ![w] = wout'[w]]
      /\ \A v \in Workers \ {w} : Same(v)
  <2>1. wpc' = [wpc EXCEPT ![w] = wpc'[w]] /\ wpc'[w] = "gone" /\ \A v \in Workers \ {w} : wpc'[v] = wpc[v]
    BY <1>1 DEF EpInv, EpTypes
  <2>2. /\ up' = [up EXCEPT ![w] = up'[w]]
        /\ down' = [down EXCEPT ![w] = down'[w]] /\ wout' = [wout EXCEPT ![w] = wout'[w]]
    BY <1>1 DEF EpInv, EpTypes
  <2> QED BY <1>1, <2>1, <2>2 DEF Same
<1>4. wpc'[w] \in Places \ {"astray"}
  BY <1>3 DEF Places, Receiving
<1>5. ReplyInv(w)'
  BY <1>1, <1>2, <1>3 DEF ReplyInv
<1>6. DownInv(w)'
  BY <1>1, <1>2, <1>3 DEF DownInv
<1>7. QueuedInv(w)'
  BY <1>1, <1>2, <1>3 DEF QueuedInv, RootSame, Others
<1>8. ASSUME NEW r \in Others, peer[r] = w PROVE PeerInv(r)'
  <2> SUFFICES ASSUME rpc \notin Over, w # None
               PROVE  PeerInv(r)'
    BY <1>1, <1>8 DEF PeerInv, RootSame
  <2>1. /\ rank[w] = r /\ ~rootShut[w] /\ IsSeq(up[w]) /\ wpc[w] # "start"
        /\ IF rpc = "row" /\ r = at THEN Answering(w)
           ELSE IF Owes(r) THEN Pending(w) ELSE Idle(w)
    BY <1>8 DEF PeerInv, EpInv, PeersInv, Receiving
  <2>2. ~Quiet'
    BY <1>1, <2>1
  <2>3. Owes(r)' <=> Owes(r)
    BY <1>1 DEF Owes, RootSame
  <2>4. Idle(w) => Idle(w)'
    BY <1>1, <1>3 DEF Idle
  <2>5. Pending(w) => Pending(w)'
    BY <1>1, <1>3 DEF Pending, Rows, Todo
  <2>6. Answering(w) => Answering(w)'
    BY <1>1, <1>3 DEF Answering, Rows, Todo, RootSame
  <2> QED BY <1>1, <1>3, <1>8, <2>1, <2>2, <2>3, <2>4, <2>5, <2>6 DEF PeerInv, RootSame
<1> QED BY <1>1, <1>3, <1>4, <1>5, <1>6, <1>7, <1>8, OneWorker

\* It connects, and waits to be accepted.
LEMMA ConnectKeeps ==
  ASSUME EpInv, NEW w \in Workers, Connect(w), UNCHANGED <<rootVars, table, wout>>
  PROVE  EpInv'
<1>1. /\ wpc[w] = "start" /\ rpc \notin Over
      /\ backlog' = Append(backlog, w) /\ wpc' = [wpc EXCEPT ![w] = "say"]
      /\ UNCHANGED <<nranks, rank, slow, rpc, arriving, peer, down, up, rootShut, crashes,
                     bound, call, outbox, at, left, wout>>
  BY DEF Connect, MoveTo, processes, rootVars, callVars
<1>2. /\ wpc'[w] = "say" /\ \A v \in Workers \ {w} : wpc'[v] = wpc[v]
      /\ backlog \in Seq(Workers) /\ Len(backlog) \in Nat
  BY <1>1 DEF EpInv, EpTypes
<1>3. /\ backlog' \in Seq(Workers) /\ Len(backlog') = Len(backlog) + 1
      /\ \A i \in 1..Len(backlog) : backlog'[i] = backlog[i]
      /\ backlog'[Len(backlog) + 1] = w
  BY <1>1, <1>2
<1>4. /\ \A i \in 1..Len(backlog) : backlog[i] # w
      /\ arriving # w /\ ~rootShut[w] /\ up[w] = <<>> /\ DownInv(w) /\ QueuedInv(w) /\ ReplyInv(w)
      /\ \A r \in Others : peer[r] # w
  <2>1. DownInv(w) /\ QueuedInv(w) /\ ReplyInv(w)
    BY DEF EpInv, WorkersInv
  <2>2. \A r \in Others : peer[r] # w
    BY <1>1, NoneAssumption DEF EpInv, PeersInv, PeerInv, Receiving
  <2> QED BY <1>1, <2>1, <2>2 DEF QueuedInv
<1>5. EpTypes'
  <2>1. wpc' \in [Workers -> Places \ {"astray"}]
    BY <1>1 DEF EpInv, EpTypes, Places
  <2> QED BY <1>1, <1>3, <2>1 DEF EpInv, EpTypes, Others
<1>6. OutboxInv'
  BY <1>1 DEF EpInv, OutboxInv, Others
<1>7. WaitInv'
  <2>1. WaitInv
    BY DEF EpInv
  <2>2. \A i \in 1..Len(backlog') : i \in 1..Len(backlog) \/ i = Len(backlog) + 1
    BY <1>2, <1>3
  <2> QED BY <1>1, <1>3, <1>4, <2>1, <2>2 DEF WaitInv
<1>8. WorkersInv'
  <2> SUFFICES ASSUME NEW v \in Workers PROVE DownInv(v)' /\ QueuedInv(v)' /\ ReplyInv(v)'
    BY DEF WorkersInv
  <2>1. DownInv(v) /\ QueuedInv(v) /\ ReplyInv(v)
    BY DEF EpInv, WorkersInv
  <2>2. CASE v = w
    <3>1. Len(down[w]) = 0 /\ down[w] = <<>>
      BY <1>1, <1>4, SeqFacts DEF DownInv, Receiving
    <3> QED BY <1>1, <1>2, <1>4, <2>2, <3>1, EmptyFacts DEF DownInv, QueuedInv, ReplyInv, Others
  <2>3. CASE v # w
    <3>1. DownInv(v)' /\ ReplyInv(v)'
      BY <1>1, <1>2, <2>1, <2>3 DEF DownInv, ReplyInv
    <3>2. (\E i \in 1..Len(backlog') : backlog'[i] = v) => \E i \in 1..Len(backlog) : backlog[i] = v
      BY <1>2, <1>3, <2>3
    <3>3. QueuedInv(v)'
      BY <1>1, <1>2, <2>1, <2>3, <3>2 DEF QueuedInv, Quiet, Others
    <3> QED BY <3>1, <3>3
  <2> QED BY <2>2, <2>3
<1>9. PeersInv'
  <2> SUFFICES ASSUME NEW r \in Others PROVE PeerInv(r)'
    BY <1>1 DEF PeersInv, Others
  <2>1. PeerInv(r) /\ peer[r] # w /\ (peer[r] # None => peer[r] \in Workers)
    BY <1>4 DEF EpInv, PeersInv, EpTypes
  <2>2. CASE peer[r] = None
    BY <1>1, <2>2 DEF PeerInv
  <2>3. CASE peer[r] # None
    <3>1. PICK v \in Workers : v = peer[r] /\ peer'[r] = v /\ v # w /\ v # None
      BY <1>1, <2>1, <2>3
    <3>2. wpc'[v] = wpc[v] /\ Todo(v)' = Todo(v) /\ (Rows(v, 1)' <=> Rows(v, 1)) /\ (Rows(v, 2)' <=> Rows(v, 2))
      BY <1>1, <1>2, <3>1 DEF Todo, Rows
    <3>3. /\ Reach(v)' = Reach(v) /\ Upcoming(r)' = Upcoming(r) /\ (Idle(v)' <=> Idle(v))
          /\ (Owes(r)' <=> Owes(r)) /\ (Pending(v)' <=> Pending(v)) /\ (Answering(v)' <=> Answering(v))
      BY <1>1, <3>2 DEF Reach, Upcoming, Idle, Owes, Pending, Called, Answering
    <3> QED BY <1>1, <2>1, <3>1, <3>2, <3>3 DEF PeerInv, Quiet
  <2> QED BY <2>2, <2>3
<1> QED BY <1>5, <1>6, <1>7, <1>8, <1>9 DEF EpInv

\* Whatever a worker does.
LEMMA WorkerKeeps ==
  ASSUME EpInv, NEW w \in Workers,
         WorkerWorks(w) \/ (Crash(w) /\ UNCHANGED <<rootVars, table, wout>>)
  PROVE  EpInv'
<1>1. CASE Stray(w)
  BY <1>1 DEF Stray, EpInv, EpTypes
<1> QED BY <1>1, SayRankKeeps, GoneKeeps, ConnectKeeps, ReceiveKeeps, ReplyKeeps DEF WorkerWorks

-----------------------------------------------------------------------------
(***************************************************************************)
(* A step of the coordinator.                                              *)
(***************************************************************************)
\* Once all are there, each rank has a worker of its own.
LEMMA PeerFacts ==
  ASSUME EpInv, rpc \in Open, NEW r \in Others
  PROVE  /\ peer[r] \in Workers /\ peer[r] # None /\ rank[peer[r]] = r /\ ~rootShut[peer[r]]
         /\ IsSeq(up[peer[r]]) /\ IsSeq(down[peer[r]])
         /\ wpc[peer[r]] \in Receiving \cup {"reply", "gone"}
         /\ wpc[peer[r]] = "gone" => ~Quiet \/ (rpc = "bye" /\ r < at)
         /\ wpc[peer[r]] # "gone" => Reach(peer[r]) = Upcoming(r)
         /\ IF rpc = "row" /\ r = at THEN Answering(peer[r])
            ELSE IF Owes(r) THEN Pending(peer[r]) ELSE Idle(peer[r])
<1>1. peer[r] \in Workers /\ peer[r] # None /\ rpc \notin Over
  BY DEF EpInv, EpTypes, OutboxInv, Open, Sending, Over
<1>2. IsSeq(down[peer[r]])
  BY <1>1 DEF EpInv, WorkersInv, DownInv
<1> QED BY <1>1, <1>2 DEF EpInv, PeersInv, PeerInv

\* The coordinator has closed its connections.
LEMMA EndKeeps ==
  ASSUME EpInv, rpc' \in Over, EpTypes', \A w \in Workers : DownInv(w)',
         \A w \in Workers : up'[w] = up[w] \/ up'[w] = <<>>,
         UNCHANGED <<wpc, wout>>
  PROVE  EpInv'
<1>1. OutboxInv' /\ WaitInv' /\ PeersInv'
  BY DEF OutboxInv, WaitInv, PeersInv, PeerInv, Open, Sending, Over
<1>2. WorkersInv'
  BY DEF EpInv, WorkersInv, QueuedInv, ReplyInv
<1> QED BY <1>1, <1>2 DEF EpInv

\* It goes on; of the workers only its peers are sent or read anything.
LEMMA OpenKeeps ==
  ASSUME EpInv, rpc \in Open, rpc' \in Open, EpTypes', OutboxInv',
         UNCHANGED <<nranks, rank, slow, crashes, peer, backlog, arriving, rootShut, wpc, wout>>,
         \A w \in Workers : DownInv(w)',
         \A w \in Workers : (\A r \in Others : peer[r] # w) => up'[w] = up[w] /\ down'[w] = down[w],
         \A r \in Others : PeerInv(r)'
  PROVE  EpInv'
<1>1. rpc \notin Over /\ rpc' \notin Over /\ rpc # "greet" /\ rpc' # "greet"
  BY DEF Open, Sending, Over
<1>2. WaitInv'
  BY <1>1 DEF EpInv, WaitInv
<1>3. PeersInv'
  BY DEF PeersInv, Others
<1>4. ASSUME NEW w \in Workers PROVE QueuedInv(w)' /\ ReplyInv(w)'
  <2>1. QueuedInv(w) /\ ReplyInv(w)
    BY DEF EpInv, WorkersInv
  <2>2. CASE \A r \in Others : peer[r] # w
    BY <1>1, <2>1, <2>2 DEF QueuedInv, ReplyInv, Quiet, Others
  <2>3. CASE \E r \in Others : peer[r] = w
    <3>1. wpc[w] \notin {"start", "say"}
      BY <2>3, PeerFacts DEF Receiving
    <3> QED BY <1>1, <2>1, <2>3, <3>1 DEF QueuedInv, ReplyInv
  <2> QED BY <2>2, <2>3
<1>5. WorkersInv'
  BY <1>4 DEF WorkersInv
<1> QED BY <1>2, <1>3, <1>5 DEF EpInv

\* The first rank is another than the coordinator.
LEMMA RankFacts ==
  ASSUME EpTypes
  PROVE  /\ 1 \in Others /\ at \in Nat /\ at >= 1 /\ at <= nranks - 1 /\ nranks \in Nat
         /\ \A r \in Others : r \in Nat /\ r >= 1 /\ r <= nranks - 1
BY DEF EpTypes, Others

\* vllm_ep_root_open: a connection is accepted, or nobody comes.
LEMMA AcceptKeeps ==
  ASSUME EpInv, Accept \/ AcceptTimesOut, UNCHANGED <<rootVars, table, wout>>
  PROVE  EpInv'
<1>1. CASE AcceptTimesOut
  <2>1. /\ UNCHANGED <<nranks, rank, slow, peer, wpc, down, up, crashes, wout,
                       bound, call, outbox, at, left>>
        /\ rpc' = "closed" /\ rpc = "listen"
        /\ backlog' = <<>> /\ arriving' = None /\ rootShut' = [w \in Workers |-> TRUE]
    BY <1>1 DEF AcceptTimesOut, EndAs, processes, rootVars, callVars
  <2>2. EpTypes'
    BY <2>1 DEF EpInv, EpTypes, Others
  <2>3. \A w \in Workers : DownInv(w)'
    BY <2>1 DEF EpInv, WorkersInv, DownInv
  <2> QED BY <2>1, <2>2, <2>3, EndKeeps DEF Over
<1>2. CASE Accept
  <2>1. /\ UNCHANGED <<nranks, rank, slow, peer, wpc, down, up, rootShut, crashes, wout,
                       bound, call, outbox, at, left>>
        /\ rpc' = "greet" /\ rpc = "listen"
        /\ backlog # <<>> /\ backlog' = Tail(backlog) /\ arriving' = Head(backlog)
    BY <1>2 DEF Accept, processes, rootVars, callVars
  <2>2. /\ backlog \in Seq(Workers) /\ Len(backlog) \in Nat /\ Len(backlog) > 0
        /\ backlog' \in Seq(Workers) /\ Len(backlog') = Len(backlog) - 1
        /\ arriving' = backlog[1] /\ arriving' \in Workers
        /\ \A i \in 1..Len(backlog') : backlog'[i] = backlog[i + 1] /\ i + 1 \in 1..Len(backlog)
    BY <2>1 DEF EpInv, EpTypes
  <2>3. EpTypes'
    BY <2>1, <2>2 DEF EpInv, EpTypes, Others
  <2>4. OutboxInv'
    BY <2>1 DEF EpInv, OutboxInv, Open, Sending, Over
  <2>5. WaitInv'
    <3>1. \A i, j \in 1..Len(backlog) : backlog[i] = backlog[j] => i = j
      BY <2>1 DEF EpInv, WaitInv, Over
    <3>2. 1 \in 1..Len(backlog)
      BY <2>2
    <3>3. \A i, j \in 1..Len(backlog') : backlog'[i] = backlog'[j] => i = j
      BY <2>2, <3>1
    <3>4. \A i \in 1..Len(backlog') : backlog'[i] # arriving'
      BY <2>2, <3>1, <3>2
    <3>5. arriving' # None
      BY <2>2, NoneAssumption
    <3> QED BY <2>1, <3>3, <3>4, <3>5 DEF WaitInv
  <2>6. WorkersInv'
    <3> SUFFICES ASSUME NEW w \in Workers PROVE DownInv(w)' /\ QueuedInv(w)' /\ ReplyInv(w)'
      BY DEF WorkersInv
    <3>1. DownInv(w) /\ QueuedInv(w) /\ ReplyInv(w)
      BY DEF EpInv, WorkersInv
    <3>2. (\E i \in 1..Len(backlog') : backlog'[i] = w) \/ arriving' = w
             => \E i \in 1..Len(backlog) : backlog[i] = w
      <4>1. 1 \in 1..Len(backlog)
        BY <2>2
      <4> QED BY <2>2, <4>1
    <3>3. QueuedInv(w)'
      BY <2>1, <3>1, <3>2 DEF QueuedInv, Quiet, Others, Over
    <3> QED BY <2>1, <3>1, <3>3 DEF DownInv, ReplyInv
  <2>7. PeersInv'
    <3> SUFFICES ASSUME NEW r \in Others PROVE PeerInv(r)'
      BY <2>1 DEF PeersInv, Others
    <3>1. PeerInv(r)
      BY DEF EpInv, PeersInv
    <3>2. PICK v : v = peer[r] /\ peer'[r] = v
      BY <2>1
    <3>3. Todo(v)' = Todo(v) /\ (Rows(v, 1)' <=> Rows(v, 1)) /\ (Rows(v, 2)' <=> Rows(v, 2))
      BY <2>1 DEF Todo, Rows
    <3>4. /\ Reach(v)' = Reach(v) /\ Upcoming(r)' = Upcoming(r) /\ (Idle(v)' <=> Idle(v))
          /\ ~Owes(r)' /\ ~Owes(r)
      BY <2>1 DEF Reach, Upcoming, Idle, Called, Owes, Sending
    <3> QED BY <2>1, <3>1, <3>2, <3>4 DEF PeerInv, Quiet, Over
  <2> QED BY <2>3, <2>4, <2>5, <2>6, <2>7 DEF EpInv
<1> QED BY <1>1, <1>2

\* The rank is read; the worker is a peer, or refused.
LEMMA GreetKeeps ==
  ASSUME EpInv, Greet \/ GreetFails, UNCHANGED <<rootVars, table, wout>>
  PROVE  EpInv'
<1>1. PICK w : w = arriving
  OBVIOUS
<1>2. /\ rpc = "greet" /\ w \in Workers /\ w # None /\ arriving = w
      /\ \A i \in 1..Len(backlog) : backlog[i] # w
      /\ \A i, j \in 1..Len(backlog) : backlog[i] = backlog[j] => i = j
      /\ arriving' = None
  BY <1>1 DEF Greet, GreetFails, EpInv, WaitInv, EpTypes, Over
<1>3. DownInv(w) /\ QueuedInv(w)
  BY <1>2 DEF EpInv, WorkersInv
<1>4. /\ wpc[w] \in {"say", "shake", "gone"} /\ ~rootShut[w] /\ down[w] = <<>>
      /\ \A s \in Others : peer[s] # w
      /\ wpc[w] = "say" => up[w] = <<>>
      /\ wpc[w] = "gone" => ~Quiet
      /\ IsSeq(up[w]) /\ Len(up[w]) \in {0, 1}
      /\ Len(up[w]) = 1 => up[w][1].rank = rank[w]
  BY <1>2, <1>3 DEF QueuedInv, Over
<1>5. PICK r : r = rank[w] /\ r \in Others
  BY <1>2 DEF EpInv, EpTypes
\* it is a peer, or its connection is closed
<1>6. \/ /\ wpc[w] # "say" /\ up' = [up EXCEPT ![w] = <<>>] /\ peer[r] = None
         /\ peer' = [peer EXCEPT ![r] = w] /\ rootShut' = rootShut
         /\ rpc' = IF AllHere(peer') THEN "ready" ELSE "listen"
      \/ /\ wpc[w] # "say" /\ up' = [up EXCEPT ![w] = up'[w]] /\ peer' = peer
         /\ rootShut' = [rootShut EXCEPT ![w] = TRUE] /\ rpc' = "listen"
  <2>1. CASE Greet
    <3>1. up[w] # <<>> /\ Len(up[w]) = 1
      BY <1>2, <1>4, <2>1, SeqFacts DEF Greet
    <3>2. Head(up[w]).rank = r /\ IsSeq(Tail(up[w])) /\ Len(Tail(up[w])) = 0
      <4>1. IsSeq(Tail(up[w])) /\ Len(Tail(up[w])) = Len(up[w]) - 1 /\ Head(up[w]) = up[w][1]
        BY <1>4, <3>1, TailFacts
      <4> QED BY <1>4, <1>5, <3>1, <4>1
    <3>3. Tail(up[w]) = <<>>
      BY <3>2, SeqFacts
    <3>4. up' = [up EXCEPT ![w] = <<>>]
      BY <1>2, <2>1, <3>3 DEF Greet
    <3>5. up' = [up EXCEPT ![w] = up'[w]]
      BY <1>2, <3>4 DEF EpInv, EpTypes
    <3> QED BY <1>2, <1>4, <2>1, <3>1, <3>2, <3>4, <3>5 DEF Greet
  <2>2. CASE GreetFails
    BY <1>2, <2>2 DEF GreetFails, Gone, EpInv, EpTypes
  <2> QED BY <2>1, <2>2
<1>7. /\ UNCHANGED <<nranks, rank, slow, backlog, wpc, down, crashes, wout, bound, call, outbox, at, left>>
      /\ arriving' = None
  BY DEF Greet, GreetFails, processes, rootVars, callVars
<1>8. peer \in [Others -> Workers \cup {None}] /\ rootShut \in [Workers -> BOOLEAN]
  BY DEF EpInv, EpTypes
<1>9. /\ rpc' \in {"listen", "ready"}
      /\ up' = [v \in Workers |-> up'[v]]
      /\ \A v \in Workers \ {w} : up'[v] = up[v] /\ rootShut'[v] = rootShut[v]
      /\ peer' \in [Others -> Workers \cup {None}]
      /\ \A s \in Others :
           peer'[s] = peer[s] \/ (s = r /\ peer'[s] = w /\ rootShut'[w] = FALSE /\ up'[w] = <<>>)
      /\ rootShut' \in [Workers -> BOOLEAN]
      /\ rpc' = "ready" => \A s \in Others : peer'[s] # None
  <2>1. /\ rpc' \in {"listen", "ready"}
        /\ up' = [v \in Workers |-> up'[v]] /\ \A v \in Workers \ {w} : up'[v] = up[v]
    BY <1>2, <1>6 DEF EpInv, EpTypes
  <2>2. CASE peer[r] = None /\ peer' = [peer EXCEPT ![r] = w] /\ rootShut' = rootShut
             /\ up' = [up EXCEPT ![w] = <<>>] /\ rpc' = IF AllHere(peer') THEN "ready" ELSE "listen"
    <3>1. peer' \in [Others -> Workers \cup {None}] /\ peer'[r] = w
          /\ \A s \in Others : s # r => peer'[s] = peer[s]
      BY <1>2, <1>5, <1>8, <2>2
    <3>2. rootShut'[w] = FALSE /\ up'[w] = <<>>
      BY <1>2, <1>4, <1>8, <2>2 DEF EpInv, EpTypes
    <3>3. rpc' = "ready" => \A s \in Others : peer'[s] # None
      BY <2>2 DEF AllHere
    <3>4. \A s \in Others :
           peer'[s] = peer[s] \/ (s = r /\ peer'[s] = w /\ rootShut'[w] = FALSE /\ up'[w] = <<>>)
      BY <3>1, <3>2
    <3>5. rootShut' \in [Workers -> BOOLEAN] /\ \A v \in Workers \ {w} : rootShut'[v] = rootShut[v]
      BY <1>8, <2>2
    <3> QED BY <2>1, <3>1, <3>3, <3>4, <3>5
  <2>3. CASE peer' = peer /\ rootShut' = [rootShut EXCEPT ![w] = TRUE] /\ rpc' = "listen"
    <3>1. rootShut' \in [Workers -> BOOLEAN] /\ \A v \in Workers \ {w} : rootShut'[v] = rootShut[v]
      BY <1>2, <1>8, <2>3
    <3>2. /\ peer' \in [Others -> Workers \cup {None}] /\ \A s \in Others : peer'[s] = peer[s]
          /\ rpc' # "ready"
      BY <1>8, <2>3
    <3> QED BY <2>1, <3>1, <3>2
  <2> QED BY <1>6, <2>2, <2>3
<1>10. EpTypes'
  <2>1. /\ peer' \in [Others' -> Workers \cup {None}] /\ rootShut' \in [Workers -> BOOLEAN]
        /\ up' = [v \in Workers |-> up'[v]] /\ Others' = Others
    BY <1>7, <1>9 DEF Others
  <2> QED BY <1>7, <2>1 DEF EpInv, EpTypes
<1>11. OutboxInv'
  <2>2. rpc' \notin Sending \cup {"own", "count", "row", "reduce", "cast", "bye", "greet"}
    BY <1>9 DEF Sending
  <2>3. at = 1 /\ ~bound
    BY <1>2 DEF EpInv, OutboxInv, Sending
  <2> QED BY <1>7, <1>9, <2>2, <2>3 DEF OutboxInv, Open, Sending, Others
<1>12. WaitInv'
  <2>1. \A i \in 1..Len(backlog) : backlog[i] # None
    BY NoneAssumption DEF EpInv, EpTypes
  <2> QED BY <1>2, <1>7, <1>9, <2>1 DEF WaitInv
<1>13. WorkersInv'
  <2> SUFFICES ASSUME NEW v \in Workers PROVE DownInv(v)' /\ QueuedInv(v)' /\ ReplyInv(v)'
    BY DEF WorkersInv
  <2>1. DownInv(v) /\ QueuedInv(v) /\ ReplyInv(v) /\ v # None
    BY NoneAssumption DEF EpInv, WorkersInv
  <2>2. DownInv(v)' /\ ReplyInv(v)'
    BY <1>7, <2>1 DEF DownInv, ReplyInv
  <2>3. CASE v = w
    <3>1. wpc[w] # "say"
      BY <1>6
    <3> QED BY <1>2, <1>4, <1>7, <2>1, <2>2, <2>3, <3>1 DEF QueuedInv
  <2>4. CASE v # w
    <3>1. \A s \in Others : peer[s] # v => peer'[s] # v
      BY <1>9, <2>4
    <3> QED BY <1>2, <1>7, <1>9, <2>1, <2>2, <2>4, <3>1 DEF QueuedInv, Quiet, Others, Over
  <2> QED BY <2>3, <2>4
<1>14. PeersInv'
  <2> SUFFICES ASSUME NEW s \in Others PROVE PeerInv(s)'
    BY <1>7 DEF PeersInv, Others
  <2>1. PeerInv(s) /\ (peer[s] # None => peer[s] \in Workers) /\ ~bound
    BY <1>2 DEF EpInv, PeersInv, EpTypes, OutboxInv
  <2>2. /\ Upcoming(s)' = "shake" /\ Upcoming(s) = "shake" /\ ~Owes(s)' /\ ~Owes(s)
    BY <1>2, <1>7, <1>9, <2>1 DEF Upcoming, Owes, Sending
  <2>3. CASE peer'[s] = None
    BY <2>3 DEF PeerInv
  <2>4. CASE s = r /\ peer'[s] = w /\ rootShut'[w] = FALSE /\ up'[w] = <<>>
    <3>1. /\ wpc[w] # "gone" => Reach(w)' = "shake"
          /\ Idle(w)' /\ IsSeq(up'[w]) /\ wpc[w] \in {"shake", "gone"}
      BY <1>4, <1>6, <1>7, <2>4, EmptyFacts DEF Reach, Idle, Called
    <3> QED BY <1>4, <1>5, <1>7, <1>9, <2>2, <2>4, <3>1 DEF PeerInv, Quiet, Receiving
  <2>5. CASE peer'[s] = peer[s] /\ peer[s] # None
    <3>1. PICK v \in Workers : v = peer[s] /\ peer'[s] = v /\ v # None /\ v # w
      BY <1>4, <2>1, <2>5
    <3>2. /\ Reach(v)' = Reach(v) /\ (Idle(v)' <=> Idle(v))
          /\ up'[v] = up[v] /\ rootShut'[v] = rootShut[v]
      BY <1>7, <1>9, <3>1 DEF Reach, Idle, Called
    <3> QED BY <1>2, <1>7, <1>9, <2>1, <2>2, <3>1, <3>2 DEF PeerInv, Quiet, Over
  <2> QED BY <1>9, <2>3, <2>4, <2>5
<1> QED BY <1>10, <1>11, <1>12, <1>13, <1>14 DEF EpInv

\* What the coordinator broadcasts at once.
LEMMA SingleFacts ==
  ASSUME NEW a
  PROVE  IsSeq(<<a>>) /\ Len(<<a>>) = 1 /\ <<a>>[1] = a
<1>1. <<a>> \in Seq({a})
  OBVIOUS
<1> QED BY <1>1 DEF IsSeq

LEMMA PairFacts ==
  ASSUME NEW a, NEW b
  PROVE  IsSeq(<<a, b>>) /\ Len(<<a, b>>) = 2 /\ <<a, b>>[1] = a /\ <<a, b>>[2] = b
<1> DEFINE S == {a, b}
<1>1. <<a, b>> \in Seq(S) /\ Len(<<a, b>>) = 2
  OBVIOUS
<1>2. <<a, b>>[1] = a /\ <<a, b>>[2] = b
  OBVIOUS
<1> HIDE DEF S
<1>3. IsSeq(<<a, b>>)
  BY <1>1 DEF IsSeq
<1> QED BY <1>1, <1>2, <1>3

\* The frames q are sent, from the kind first on; last is what follows them.
Batch(q, first, last) ==
  /\ IsSeq(q) /\ Len(q) \in {1, 2}
  /\ \A i \in 1..Len(q) : q[i].k \in Kinds
  /\ Len(q) = 2 => After(q[1]) = q[2].k /\ q[1].k # "body"
  /\ After(q[Len(q)]) = last /\ q[1].k = first

LEMMA CallBatch ==
  ASSUME NEW n \in Nat, n > 0, NEW l
  PROVE  LET q == CallFrames(n, l)
         IN  Batch(q, "header", "header") /\ q[Len(q)].k = "body"
<1> DEFINE h == [k |-> "header", call |-> n]
           b == [k |-> "body", call |-> n, sel |-> l]
<1>1. h.k = "header" /\ b.k = "body" /\ After(h) = "body" /\ After(b) = "header"
  BY DEF After
<1>2. CallFrames(n, l) = <<h, b>>
  BY DEF CallFrames
<1> HIDE DEF h, b
<1>3. IsSeq(<<h, b>>) /\ Len(<<h, b>>) = 2 /\ <<h, b>>[1] = h /\ <<h, b>>[2] = b
  BY PairFacts
<1> QED BY <1>1, <1>2, <1>3 DEF Batch, Kinds

LEMMA ShakeBatch ==
  ASSUME NEW own
  PROVE  LET q == ShakeFrames(own)
         IN  Batch(q, "shake", "header") /\ q[Len(q)].k # "body"
<1> DEFINE s(m) == [k |-> "shake", mode |-> m]
           t == [k |-> "table", own |-> own]
<1>1. /\ \A m : s(m).k = "shake"
      /\ t.k = "table" /\ After(s(0)) = "header" /\ After(s(1)) = "table" /\ After(t) = "header"
  BY DEF After
<1>2. ShakeFrames(own) = IF plan = Static THEN <<s(0)>> ELSE <<s(1), t>>
  BY DEF ShakeFrames
<1> HIDE DEF s, t
<1>3. /\ IsSeq(<<s(0)>>) /\ Len(<<s(0)>>) = 1 /\ <<s(0)>>[1] = s(0)
      /\ IsSeq(<<s(1), t>>) /\ Len(<<s(1), t>>) = 2 /\ <<s(1), t>>[1] = s(1) /\ <<s(1), t>>[2] = t
  BY SingleFacts, PairFacts
<1>4. CASE plan = Static
  BY <1>1, <1>2, <1>3, <1>4 DEF Batch, Kinds
<1>5. CASE plan # Static
  BY <1>1, <1>2, <1>3, <1>5 DEF Batch, Kinds
<1> QED BY <1>4, <1>5

LEMMA EndBatch ==
  Batch(<<End>>, "header", "gone") /\ <<End>>[Len(<<End>>)].k # "body" /\ Len(<<End>>) = 1
<1>1. End.k = "header" /\ After(End) = "gone"
  BY DEF After, End
<1>2. IsSeq(<<End>>) /\ Len(<<End>>) = 1 /\ <<End>>[1] = End
  BY SingleFacts
<1> QED BY <1>1, <1>2 DEF Batch, Kinds

\* A broadcast begins: the next frame of each rank is the first of it.
LEMMA BroadcastBegins ==
  ASSUME EpInv, rpc \in {"ready"}, rpc' \in Sending, at' = at,
         UNCHANGED <<nranks, rank, slow, crashes, peer, backlog, arriving, rootShut, wpc, down, up,
                     wout, bound, left>>,
         call' \in Nat, rpc' = "shake" => ~bound /\ call' > 0, rpc' # "shake" => bound,
         Batch(outbox', IF bound THEN "header" ELSE "shake", IF rpc' = "bye" THEN "gone" ELSE "header"),
         outbox'[Len(outbox')].k = "body" <=> rpc' = "cast",
         rpc' = "bye" => Len(outbox') = 1
  PROVE  EpInv'
<1>1. EpTypes'
  BY DEF EpInv, EpTypes, Others
<1>2. at = 1 /\ rpc \in Open /\ rpc' \in Open /\ rpc # "row" /\ rpc' # "row"
  BY DEF EpInv, OutboxInv, Open, Sending
<1>3. OutboxInv'
  <2>1. \A r \in Others : peer[r] # None
    BY <1>2, PeerFacts
  <2> QED BY <1>2, <2>1 DEF OutboxInv, Sending, Open, Others, Batch
<1>4. \A w \in Workers : DownInv(w)'
  BY DEF EpInv, WorkersInv, DownInv
<1>5. ASSUME NEW r \in Others PROVE PeerInv(r)'
  <2>1. PICK v \in Workers : v = peer[r] /\ peer'[r] = v /\ v # None
    BY <1>2, PeerFacts
  <2>2. r >= at /\ ~(r < at) /\ ~Owes(r)
    BY <1>2, RankFacts DEF Owes, EpInv
  <2>3. /\ rank[v] = r /\ ~rootShut[v] /\ IsSeq(up[v])
        /\ wpc[v] \in Receiving \cup {"reply", "gone"} /\ (wpc[v] = "gone" => ~Quiet)
        /\ wpc[v] # "gone" => Reach(v) = Upcoming(r)
        /\ Idle(v)
    BY <1>2, <2>1, <2>2, PeerFacts
  <2>4. Reach(v)' = Reach(v) /\ (Idle(v)' <=> Idle(v)) /\ ~Owes(r)'
    BY <1>2, <2>2 DEF Reach, Idle, Called, Owes, Sending
  <2>5. Upcoming(r)' = Upcoming(r)
    BY <2>2 DEF Upcoming, Batch, Sending
  <2> QED BY <1>2, <2>1, <2>3, <2>4, <2>5 DEF PeerInv, Quiet
<1> QED BY <1>1, <1>2, <1>3, <1>4, <1>5, OpenKeeps

\* A layer calls its FFN.
LEMMA StartCallKeeps ==
  ASSUME EpInv, StartCall
  PROVE  EpInv'
<1>1. /\ rpc \in {"ready"} /\ at' = at /\ call' = call + 1
      /\ UNCHANGED <<nranks, rank, slow, crashes, peer, backlog, arriving, rootShut, wpc, down, up,
                     wout, bound, left>>
  BY DEF StartCall, processes, linkVars
<1>2. call' \in Nat /\ call' > 0
  BY <1>1 DEF EpInv, EpTypes
<1>3. CASE bound
  <2>1. rpc' = "cast" /\ outbox' = CallFrames(call', sel')
    BY <1>3 DEF StartCall
  <2>2. Batch(outbox', "header", "header") /\ outbox'[Len(outbox')].k = "body"
    BY <1>2, <2>1, CallBatch
  <2> QED BY <1>1, <1>2, <1>3, <2>1, <2>2, BroadcastBegins DEF Sending
<1>4. CASE ~bound
  <2>1. rpc' = "shake" /\ outbox' = ShakeFrames(table'[Root])
    BY <1>4 DEF StartCall
  <2>2. Batch(outbox', "shake", "header") /\ outbox'[Len(outbox')].k # "body"
    BY <2>1, ShakeBatch
  <2> QED BY <1>1, <1>2, <1>4, <2>1, <2>2, BroadcastBegins DEF Sending
<1> QED BY <1>3, <1>4

\* st_moe_ep_root_end.
LEMMA StartEndKeeps ==
  ASSUME EpInv, StartEnd
  PROVE  EpInv'
<1>1. /\ rpc \in {"ready"} /\ at' = at /\ call' = call
      /\ UNCHANGED <<nranks, rank, slow, crashes, peer, wpc, down, up, wout, bound, left>>
  BY DEF StartEnd, processes, linkVars, callVars, EndAs
<1>2. CASE bound
  <2>1. /\ rpc' = "bye" /\ outbox' = <<End>> /\ UNCHANGED <<backlog, arriving, rootShut>>
    BY <1>2 DEF StartEnd, linkVars
  <2>2. /\ Batch(outbox', "header", "gone") /\ outbox'[Len(outbox')].k # "body" /\ call' \in Nat
        /\ Len(outbox') = 1
    BY <1>1, <2>1, EndBatch DEF EpInv, EpTypes
  <2> QED BY <1>1, <1>2, <2>1, <2>2, BroadcastBegins DEF Sending
<1>3. CASE ~bound
  <2>1. /\ rpc' = "closed" /\ backlog' = <<>> /\ arriving' = None /\ outbox' = outbox
        /\ rootShut' = [w \in Workers |-> TRUE]
    BY <1>3 DEF StartEnd, EndAs
  <2>2. EpTypes'
    BY <1>1, <2>1 DEF EpInv, EpTypes, Others
  <2>3. \A w \in Workers : DownInv(w)'
    BY <1>1 DEF EpInv, WorkersInv, DownInv
  <2> QED BY <1>1, <2>1, <2>2, <2>3, EndKeeps DEF Over
<1> QED BY <1>2, <1>3

\* The next frame goes to the next rank; after the last rank comes the next frame, and
\* after the last frame the call is under way, or the session over.
LEMMA SendNextKeeps ==
  ASSUME EpInv, SendNext
  PROVE  EpInv'
<1>1. /\ rpc \in Sending /\ rpc \in Open /\ at \in Others /\ rpc # "row"
      /\ IsSeq(outbox) /\ Len(outbox) \in {1, 2} /\ outbox # <<>> /\ Len(outbox) \in Nat
      /\ \A i \in 1..Len(outbox) : outbox[i].k \in Kinds
      /\ Len(outbox) = 2 => After(outbox[1]) = outbox[2].k /\ outbox[1].k # "body"
      /\ After(outbox[Len(outbox)]) = IF rpc = "bye" THEN "gone" ELSE "header"
      /\ outbox[Len(outbox)].k = "body" <=> rpc = "cast"
      /\ rpc \in {"cast", "bye"} => bound
      /\ rpc = "shake" => ~bound /\ call > 0
      /\ rpc = "bye" => Len(outbox) = 1
  BY SeqFacts DEF SendNext, Broadcasting, EpInv, EpTypes, OutboxInv, Sending, Open
<1>0. PICK w, f : w = peer[at] /\ f = outbox[1]
  OBVIOUS
<1>2. /\ w \in Workers /\ w # None /\ wpc[w] \in Receiving \cup {"reply", "gone"}
      /\ IsSeq(down[w]) /\ Len(down[w]) \in Nat
      /\ wpc[w] # "gone" => Reach(w) = f.k
      /\ Idle(w) /\ ~Owes(at) /\ f.k \in Kinds
  <2>1. ~(at < at) /\ at >= at
    BY RankFacts DEF EpInv
  <2>2. ~Owes(at)
    BY <1>1, <2>1 DEF Owes, Sending
  <2>3. Upcoming(at) = f.k /\ f.k \in Kinds
    BY <1>0, <1>1, <2>1 DEF Upcoming
  <2> QED BY <1>0, <1>1, <2>1, <2>2, <2>3, PeerFacts, SeqFacts
<1>3. /\ UNCHANGED <<nranks, rank, slow, wpc, up, crashes, wout, call, left>>
      /\ down' = IF wpc[w] = "gone" THEN down ELSE [down EXCEPT ![w] = Append(@, f)]
  <2>1. Head(outbox) = f
    BY <1>0, <1>1, TailFacts
  <2> QED BY <1>0, <1>2, <2>1 DEF SendNext, SendTo, SendIntoVoid, Gone, processes, callVars
<1>4. /\ down'[w] = IF wpc[w] = "gone" THEN down[w] ELSE Append(down[w], f)
      /\ \A v \in Workers \ {w} : down'[v] = down[v]
      /\ down' = [v \in Workers |-> down'[v]]
  BY <1>2, <1>3 DEF EpInv, EpTypes
<1>5. wpc[w] # "gone" =>
      /\ IsSeq(down'[w]) /\ Len(down'[w]) = Len(down[w]) + 1
      /\ down'[w][Len(down[w]) + 1] = f
      /\ \A i \in 1..Len(down[w]) : down'[w][i] = down[w][i]
  <2>1. /\ IsSeq(Append(down[w], f)) /\ Len(Append(down[w], f)) = Len(down[w]) + 1
        /\ \A i \in 1..Len(down[w]) : Append(down[w], f)[i] = down[w][i]
        /\ Append(down[w], f)[Len(down[w]) + 1] = f
    BY <1>2, AppendFacts
  <2> QED BY <1>4, <2>1
<1>6. wpc[w] # "gone" =>
      /\ Len(down[w]) = 0 => wpc[w] = f.k
      /\ Len(down[w]) > 0 => After(down[w][Len(down[w])]) = f.k /\ down[w][Len(down[w])].k # "body"
  BY <1>2 DEF Reach, Idle, Called
<1>7. \A v \in Workers : DownInv(v)'
  <2> SUFFICES ASSUME NEW v \in Workers PROVE DownInv(v)'
    OBVIOUS
  <2>1. DownInv(v)
    BY DEF EpInv, WorkersInv
  <2>2. CASE v # w \/ wpc[w] = "gone"
    BY <1>3, <1>4, <2>1, <2>2 DEF DownInv
  <2>3. CASE v = w /\ wpc[w] # "gone"
    <3> DEFINE n == Len(down[w])
    <3>1. n \in Nat /\ Len(down'[w]) = n + 1 /\ \A i \in 1..n + 1 : i \in 1..n \/ i = n + 1
      BY <1>2, <1>5, <2>3
    <3>2. DownInv(w)
      BY <2>1, <2>3
    <3>3. ASSUME NEW i \in 1..n + 1
          PROVE  /\ down'[w][i].k \in Kinds
                 /\ i < n + 1 => After(down'[w][i]) = down'[w][i + 1].k /\ down'[w][i].k # "body"
      <4>1. CASE i = n + 1
        BY <1>2, <1>5, <2>3, <3>1, <4>1
      <4>2. CASE i \in 1..n /\ i < n
        <5>1. i + 1 \in 1..n
          BY <3>1, <4>2
        <5> QED BY <1>5, <2>3, <3>2, <4>2, <5>1 DEF DownInv
      <4>3. CASE i \in 1..n /\ i = n
        <5>1. n > 0 /\ down'[w][i] = down[w][n] /\ down'[w][i + 1] = f /\ down[w][n].k \in Kinds
          BY <1>5, <2>3, <3>1, <3>2, <4>3 DEF DownInv
        <5> QED BY <1>6, <2>3, <3>1, <5>1
      <4> QED BY <3>1, <4>1, <4>2, <4>3
    <3>4. wpc'[w] \in Receiving \cup {"gone"}
      BY <1>2, <1>3 DEF Idle, Called
    <3>5. down'[w][1].k = wpc'[w]
      <4>1. CASE n = 0
        BY <1>3, <1>5, <1>6, <2>3, <4>1
      <4>2. CASE n > 0
        <5>1. 1 \in 1..n
          BY <3>1, <4>2
        <5> QED BY <1>2, <1>3, <1>5, <2>3, <3>2, <4>2, <5>1 DEF DownInv
      <4> QED BY <3>1, <4>1, <4>2
    <3> QED BY <1>5, <2>3, <3>1, <3>3, <3>4, <3>5 DEF DownInv
  <2> QED BY <2>2, <2>3
<1>8. ASSUME NEW r \in Others
      PROVE  \E v \in Workers :
               /\ v = peer[r] /\ v # None /\ rank[v] = r /\ ~rootShut[v] /\ IsSeq(up[v])
               /\ wpc[v] \in Receiving \cup {"reply", "gone"}
               /\ wpc[v] = "gone" => ~Quiet \/ (rpc = "bye" /\ r < at)
               /\ wpc[v] # "gone" => Reach(v)' = IF r > at THEN f.k ELSE After(f)
               /\ IF Owes(r) \/ (r = at /\ f.k = "body") THEN Pending(v)' ELSE Idle(v)'
  <2>0. r \in Nat /\ at \in Nat
    BY RankFacts DEF EpInv
  <2>1. PICK v \in Workers :
          /\ v = peer[r] /\ v # None /\ rank[v] = r /\ ~rootShut[v] /\ IsSeq(up[v])
          /\ wpc[v] \in Receiving \cup {"reply", "gone"}
          /\ wpc[v] = "gone" => ~Quiet \/ (rpc = "bye" /\ r < at)
          /\ wpc[v] # "gone" => Reach(v) = Upcoming(r)
          /\ IF Owes(r) THEN Pending(v) ELSE Idle(v)
    BY <1>1, PeerFacts
  <2>2. CASE r # at
    <3>1. v # w
      BY <1>0, <1>1, <2>1, <2>2, PeerFacts
    <3>2. Todo(v)' = Todo(v) /\ (Rows(v, 1)' <=> Rows(v, 1)) /\ (Rows(v, 2)' <=> Rows(v, 2))
          /\ down'[v] = down[v]
      BY <1>3, <1>4, <3>1 DEF Todo, Rows
    <3>3. Reach(v)' = Reach(v) /\ (Idle(v)' <=> Idle(v)) /\ (Pending(v)' <=> Pending(v))
      <4>1. wpc' = wpc /\ up' = up /\ wout' = wout
        BY <1>3
      <4>2. Reach(v)' = Reach(v) /\ (Idle(v)' <=> Idle(v))
        BY <3>2, <4>1 DEF Reach, Idle, Called
      <4>3. Pending(v)' <=> Pending(v)
        BY <3>2, <4>1 DEF Pending, Called
      <4> QED BY <4>2, <4>3
    <3>4. Upcoming(r) = IF r > at THEN f.k ELSE After(f)
      BY <1>0, <1>1, <2>0, <2>2 DEF Upcoming
    <3> QED BY <2>1, <2>2, <3>3, <3>4
  <2>3. CASE r = at
    <3>1. v = w
      BY <1>0, <2>1, <2>3
    <3>2. wpc[w] # "gone" => Len(down'[w]) > 0 /\ down'[w][Len(down'[w])] = f
      BY <1>2, <1>5
    <3>3. wpc[w] # "gone" => Reach(w)' = After(f)
      BY <3>2 DEF Reach
    <3>4. CASE f.k = "body"
      <4>1. Pending(w)'
        BY <1>2, <1>3, <3>2, <3>4 DEF Pending, Idle, Called
      <4> QED BY <2>0, <2>1, <2>3, <3>1, <3>3, <3>4, <4>1
    <3>5. CASE f.k # "body"
      <4>1. Idle(w)'
        BY <1>2, <1>3, <3>2, <3>5 DEF Idle, Called
      <4> QED BY <1>2, <2>0, <2>1, <2>3, <3>1, <3>3, <3>5, <4>1
    <3> QED BY <3>4, <3>5
  <2> QED BY <2>2, <2>3
<1>9. \A v \in Workers : (\A r \in Others : peer[r] # v) => up'[v] = up[v] /\ down'[v] = down[v]
  BY <1>0, <1>1, <1>3, <1>4
\* what the cases have in common
<1>10. ASSUME at' \in Others, bound' \in BOOLEAN, rpc' \in Open, rpc' \notin {"row", "count"}, OutboxInv',
              UNCHANGED <<peer, backlog, arriving, rootShut>>,
              rpc = "bye" => rpc' = "bye" /\ at' > at,
              \A r \in Others : /\ Upcoming(r)' = IF r > at THEN f.k ELSE After(f)
                                /\ Owes(r)' <=> (Owes(r) \/ (r = at /\ f.k = "body"))
       PROVE  EpInv'
  <2>1. EpTypes'
    BY <1>3, <1>4, <1>10 DEF EpInv, EpTypes, Others
  <2>2. ASSUME NEW r \in Others PROVE PeerInv(r)'
    <3>1. PICK v \in Workers :
               /\ v = peer[r] /\ v # None /\ rank[v] = r /\ ~rootShut[v] /\ IsSeq(up[v])
               /\ wpc[v] \in Receiving \cup {"reply", "gone"}
               /\ wpc[v] = "gone" => ~Quiet \/ (rpc = "bye" /\ r < at)
               /\ wpc[v] # "gone" => Reach(v)' = IF r > at THEN f.k ELSE After(f)
               /\ IF Owes(r) \/ (r = at /\ f.k = "body") THEN Pending(v)' ELSE Idle(v)'
      BY <1>8
    <3>2. wpc[v] = "gone" => ~Quiet' \/ (rpc' = "bye" /\ r < at')
      BY <1>3, <1>10, <3>1, RankFacts DEF EpInv, Others, Quiet
    <3> QED BY <1>3, <1>10, <3>1, <3>2 DEF PeerInv
  <2> QED BY <1>1, <1>3, <1>7, <1>9, <1>10, <2>1, <2>2, OpenKeeps
<1>11. /\ f.k = "body" <=> (rpc = "cast" /\ Len(outbox) = 1)
       /\ at \in Nat /\ nranks \in Nat /\ at <= nranks - 1 /\ 1 \in Others /\ at >= 1
       /\ \A r \in Others : r \in Nat /\ r >= 1 /\ r <= nranks - 1
  BY <1>0, <1>1, RankFacts DEF EpInv
<1>12. CASE at < nranks - 1
  <2>1. at' = at + 1 /\ UNCHANGED <<rpc, outbox, bound, peer, backlog, arriving, rootShut>>
    BY <1>12 DEF SendNext, linkVars
  <2>2. at' \in Others
    BY <1>11, <1>12, <2>1 DEF Others
  <2>3. OutboxInv'
    BY <1>1, <1>3, <2>1 DEF EpInv, OutboxInv, Others, Sending
  <2>4. ASSUME NEW r \in Others
        PROVE  /\ Upcoming(r)' = IF r > at THEN f.k ELSE After(f)
               /\ Owes(r)' <=> (Owes(r) \/ (r = at /\ f.k = "body"))
    <3>1. r >= at + 1 <=> r > at
      BY <1>11
    <3>2. Upcoming(r)' = IF r > at THEN f.k ELSE After(f)
      BY <1>0, <1>1, <2>1, <3>1 DEF Upcoming
    <3>3. r < at + 1 <=> r < at \/ r = at
      BY <1>11
    <3>4. Owes(r)' <=> (Owes(r) \/ (r = at /\ f.k = "body"))
      BY <1>1, <1>11, <2>1, <3>3 DEF Owes, Sending
    <3> QED BY <3>2, <3>4
  <2>5. rpc' \in Open /\ rpc' \notin {"row", "count"} /\ bound' \in BOOLEAN
    BY <1>1, <2>1 DEF Sending, EpInv, EpTypes
  <2>6. rpc = "bye" => rpc' = "bye" /\ at' > at
    BY <1>11, <2>1
  <2> QED BY <1>10, <2>1, <2>2, <2>3, <2>4, <2>5, <2>6
<1>13. CASE ~(at < nranks - 1)
  <2>1. at' = 1 /\ at = nranks - 1 /\ \A r \in Others : ~(r > at) /\ (r < at \/ r = at)
    BY <1>11, <1>13 DEF SendNext
  <2>2. CASE Len(outbox) > 1
    <3>1. /\ outbox' = Tail(outbox) /\ UNCHANGED <<rpc, bound, peer, backlog, arriving, rootShut>>
          /\ Len(outbox) = 2
      BY <1>1, <1>13, <2>2 DEF SendNext, linkVars
    <3>2. IsSeq(outbox') /\ Len(outbox') = 1 /\ outbox'[1] = outbox[2]
      <4>1. /\ IsSeq(Tail(outbox)) /\ Len(Tail(outbox)) = Len(outbox) - 1
            /\ \A i \in 1..Len(outbox)-1 : Tail(outbox)[i] = outbox[i + 1]
        <5>1. IsSeq(outbox) /\ Len(outbox) > 0
          BY <1>1, <3>1
        <5> QED BY <5>1, TailFacts
      <4>2. 1 \in 1..Len(outbox)-1 /\ 1 + 1 = 2 /\ Len(outbox) - 1 = 1
        BY <3>1
      <4> QED BY <3>1, <4>1, <4>2
    <3>3. OutboxInv'
      <4>1. outbox'[Len(outbox')] = outbox[Len(outbox)] /\ rpc # "bye" /\ outbox[2].k \in Kinds
        <5>1. 2 \in 1..Len(outbox) /\ Len(outbox) = 2 /\ Len(outbox') = 1
          BY <3>1, <3>2
        <5>2. \A i \in 1..Len(outbox) : outbox[i].k \in Kinds
          BY <1>1
        <5>3. rpc # "bye"
          BY <1>1, <5>1
        <5>4. outbox'[1] = outbox[2]
          BY <3>2
        <5> QED BY <5>1, <5>2, <5>3, <5>4
      <4>2. \A i \in 1..Len(outbox') : outbox'[i].k \in Kinds
        BY <3>2, <4>1
      <4>3. /\ After(outbox'[Len(outbox')]) = "header"
            /\ outbox'[Len(outbox')].k = "body" <=> rpc = "cast"
        BY <1>1, <4>1
      <4>4. OutboxInv /\ Others' = Others
        BY <1>3 DEF EpInv, Others
      <4> QED BY <1>1, <1>3, <2>1, <3>1, <3>2, <4>1, <4>2, <4>3, <4>4 DEF OutboxInv
    <3>4. ASSUME NEW r \in Others
          PROVE  /\ Upcoming(r)' = IF r > at THEN f.k ELSE After(f)
                 /\ Owes(r)' <=> (Owes(r) \/ (r = at /\ f.k = "body"))
      <4>1. Upcoming(r)' = outbox[2].k
        BY <1>1, <1>11, <2>1, <3>1, <3>2 DEF Upcoming
      <4>2. ~Owes(r)' /\ ~Owes(r)
        BY <1>1, <1>11, <2>1, <3>1, <3>2 DEF Owes, Sending
      <4> QED BY <1>0, <1>1, <1>11, <2>1, <3>1, <4>1, <4>2
    <3>5. rpc' \in Open /\ rpc' \notin {"row", "count"} /\ bound' \in BOOLEAN /\ rpc # "bye"
      BY <1>1, <3>1 DEF Sending, EpInv, EpTypes
    <3> QED BY <1>10, <1>11, <2>1, <3>1, <3>3, <3>4, <3>5
  <2>3. CASE ~(Len(outbox) > 1)
    <3>1. AfterBroadcast /\ Len(outbox) = 1 /\ After(f) = IF rpc = "bye" THEN "gone" ELSE "header"
      BY <1>0, <1>1, <1>13, <2>3 DEF SendNext
    <3>2. CASE rpc = "bye"
      <4>1. /\ rpc' = "closed" /\ rootShut' = [v \in Workers |-> TRUE] /\ backlog' = <<>>
            /\ arriving' = None /\ UNCHANGED <<peer, bound>>
        BY <3>1, <3>2 DEF AfterBroadcast, EndAs
      <4>2. EpTypes'
        BY <1>3, <1>4, <1>11, <2>1, <4>1 DEF EpInv, EpTypes, Others
      <4> QED BY <1>3, <1>7, <2>1, <4>1, <4>2, EndKeeps DEF Over
    <3>3. CASE rpc = "shake"
      <4>1. /\ rpc' = "cast" /\ bound' = TRUE /\ outbox' = CallFrames(call, sel)
            /\ UNCHANGED <<peer, backlog, arriving, rootShut>>
        BY <3>1, <3>3 DEF AfterBroadcast, linkVars
      <4>2. Batch(outbox', "header", "header") /\ outbox'[Len(outbox')].k = "body"
        <5>1. call \in Nat /\ call > 0
          BY <1>1, <3>3 DEF EpInv, EpTypes
        <5> QED BY <4>1, <5>1, CallBatch
      <4>3. OutboxInv'
        <5>1. \A r \in Others : peer[r] # None
          BY <1>1, PeerFacts
        <5> QED BY <1>3, <4>1, <4>2, <5>1 DEF OutboxInv, Others, Sending, Open, Batch
      <4>4. Len(outbox') = 2
        BY <4>2 DEF Batch
      <4>5. ASSUME NEW r \in Others
            PROVE  /\ Upcoming(r)' = IF r > at THEN f.k ELSE After(f)
                   /\ Owes(r)' <=> (Owes(r) \/ (r = at /\ f.k = "body"))
        <5>1. Upcoming(r)' = "header"
          BY <1>11, <2>1, <4>1, <4>2 DEF Upcoming, Batch, Sending
        <5>2. ~Owes(r)' /\ ~Owes(r)
          BY <1>11, <2>1, <3>3, <4>1 DEF Owes
        <5> QED BY <1>11, <2>1, <3>1, <3>3, <5>1, <5>2
      <4> QED BY <1>10, <1>11, <2>1, <3>3, <4>1, <4>3, <4>5 DEF Open, Sending
    <3>4. CASE rpc = "cast"
      <4>1. /\ rpc' = "own" /\ bound' = bound /\ bound
            /\ UNCHANGED <<peer, backlog, arriving, rootShut>>
        BY <1>1, <3>1, <3>4 DEF AfterBroadcast, linkVars
      <4>2. OutboxInv'
        <5>1. \A r \in Others : peer[r] # None
          BY <1>1, PeerFacts
        <5> QED BY <1>3, <2>1, <4>1, <5>1 DEF OutboxInv, Others, Sending, Open
      <4>3. ASSUME NEW r \in Others
            PROVE  /\ Upcoming(r)' = IF r > at THEN f.k ELSE After(f)
                   /\ Owes(r)' <=> (Owes(r) \/ (r = at /\ f.k = "body"))
        <5>1. Upcoming(r)' = "header"
          BY <4>1 DEF Upcoming, Sending
        <5>2. Owes(r)' /\ (Owes(r) \/ (r = at /\ f.k = "body"))
          BY <1>11, <2>1, <3>1, <3>4, <4>1 DEF Owes
        <5> QED BY <2>1, <3>1, <3>4, <5>1, <5>2
      <4> QED BY <1>10, <1>11, <2>1, <3>4, <4>1, <4>2, <4>3 DEF Open, Sending
    <3> QED BY <1>1, <3>2, <3>3, <3>4 DEF Sending
  <2> QED BY <2>2, <2>3, <1>1
<1> QED BY <1>12, <1>13

\* The coordinator adds its own rows, or has all it needs.
LEMMA OwnRowsKeep ==
  ASSUME EpInv, Contribute \/ Reduce
  PROVE  EpInv'
<1>1. /\ UNCHANGED <<nranks, rank, slow, crashes, peer, backlog, arriving, rootShut, wpc, down, up,
                     wout, bound, call, outbox, at, left>>
      /\ \/ rpc = "own" /\ rpc' = "count"
         \/ rpc = "reduce" /\ rpc' = "ready"
  BY DEF Contribute, Reduce, processes, linkVars, rootVars, callVars
<1>2. rpc \in Open /\ rpc' \in Open /\ bound /\ at = 1 /\ ~(rpc' \in Sending) /\ rpc' # "row"
  BY <1>1 DEF EpInv, OutboxInv, Open, Sending
<1>3. EpTypes'
  BY <1>1 DEF EpInv, EpTypes, Others
<1>4. OutboxInv'
  <2>1. \A r \in Others : peer[r] # None
    BY <1>2, PeerFacts
  <2> QED BY <1>1, <1>2, <2>1 DEF OutboxInv, Open, Sending, Others
<1>5. \A w \in Workers : DownInv(w)'
  BY <1>1 DEF EpInv, WorkersInv, DownInv
<1>6. ASSUME NEW r \in Others PROVE PeerInv(r)'
  <2>1. PICK v : v = peer[r] /\ peer'[r] = v
    BY <1>1
  <2>2. /\ v # None /\ rank[v] = r /\ ~rootShut[v] /\ IsSeq(up[v])
        /\ wpc[v] \in Receiving \cup {"reply", "gone"} /\ (wpc[v] = "gone" => ~Quiet)
        /\ wpc[v] # "gone" => Reach(v) = Upcoming(r)
        /\ IF Owes(r) THEN Pending(v) ELSE Idle(v)
    BY <1>1, <1>2, <2>1, PeerFacts
  <2>3. Todo(v)' = Todo(v) /\ (Rows(v, 2)' <=> Rows(v, 2))
    BY <1>1 DEF Todo, Rows
  <2>4. /\ Reach(v)' = Reach(v) /\ Upcoming(r)' = Upcoming(r) /\ (Idle(v)' <=> Idle(v))
    BY <1>1, <1>2 DEF Reach, Upcoming, Idle, Called, Sending
  <2>5. Pending(v)' <=> Pending(v)
    BY <1>1, <2>3 DEF Pending, Called
  <2>6. Owes(r)' <=> Owes(r)
    BY <1>1, <1>2, RankFacts DEF Owes, EpInv
  <2> QED BY <1>1, <1>2, <2>1, <2>2, <2>4, <2>5, <2>6 DEF PeerInv, Quiet
<1> QED BY <1>1, <1>2, <1>3, <1>4, <1>5, <1>6, OpenKeeps

\* A frame of the answer of the rank whose turn it is is read; the rest of the answer is
\* left' rows, and with the last of them the rank owes nothing.
LEMMA ReadKeeps ==
  ASSUME EpInv, rpc \in {"count", "row"}, NEW w \in Workers, w = peer[at],
         up[w] # <<>>, up' = [up EXCEPT ![w] = Tail(@)],
         UNCHANGED <<nranks, rank, slow, crashes, peer, backlog, arriving, rootShut, wpc, down,
                     wout, bound, call, outbox>>,
         wpc[w] = "reply" => wout[w].counted, wpc[w] # "gone" => Len(down[w]) = 0, Rows(w, 1)',
         left' \in Nat, left' = Len(up'[w]) + Cardinality(Todo(w)),
         IF left' = 0 THEN NextRank ELSE rpc' = "row" /\ at' = at
  PROVE  EpInv'
<1>1. /\ rpc \in Open /\ bound /\ ~(rpc \in Sending) /\ at \in Others /\ at \in Nat /\ nranks \in Nat
      /\ at >= 1 /\ at <= nranks - 1 /\ 1 \in Others
      /\ \A r \in Others : r \in Nat /\ r >= 1 /\ r <= nranks - 1
  BY RankFacts DEF EpInv, EpTypes, OutboxInv, Open, Sending
<1>2. \/ left' # 0 /\ rpc' = "row" /\ at' = at
      \/ left' = 0 /\ at < nranks - 1 /\ rpc' = "count" /\ at' = at + 1
      \/ left' = 0 /\ at = nranks - 1 /\ rpc' = "reduce" /\ at' = 1
  <2>1. at >= nranks - 1 <=> ~(at < nranks - 1)
    BY <1>1
  <2>2. at >= nranks - 1 => at = nranks - 1
    BY <1>1
  <2> QED BY <2>1, <2>2 DEF NextRank, LastRank
<1>3. rpc' \in {"row", "count", "reduce"} /\ rpc' \in Open /\ ~(rpc' \in Sending) /\ at' \in Others
  <2>1. at < nranks - 1 => at + 1 \in Others
    BY <1>1 DEF Others
  <2> QED BY <1>1, <1>2, <2>1 DEF Open, Sending
<1>4. rank[w] = at /\ ~rootShut[w] /\ IsSeq(up[w])
  BY <1>1, PeerFacts
<1>5. /\ IsSeq(up'[w]) /\ Len(up'[w]) \in Nat /\ \A v \in Workers \ {w} : up'[v] = up[v]
      /\ up' = [v \in Workers |-> up'[v]]
  <2>1. up'[w] = Tail(up[w]) /\ up' = [v \in Workers |-> up'[v]] /\ \A v \in Workers \ {w} : up'[v] = up[v]
    BY DEF EpInv, EpTypes
  <2>2. Len(up[w]) > 0
    BY <1>4, SeqFacts
  <2>3. IsSeq(Tail(up[w]))
    BY <1>4, <2>2, TailFacts
  <2> QED BY <2>1, <2>3, SeqFacts
<1>6. EpTypes'
  <2>1. at' \in Others' /\ Others' = Others
    BY <1>3 DEF Others
  <2> QED BY <1>5, <2>1 DEF EpInv, EpTypes
<1>7. OutboxInv'
  <2>1. \A r \in Others : peer[r] # None
    BY <1>1, PeerFacts
  <2>2. rpc' = "row" => left' > 0
    BY <1>2
  <2> QED BY <1>1, <1>2, <1>3, <2>1, <2>2 DEF OutboxInv, Sending, Others
<1>8. \A v \in Workers : DownInv(v)'
  BY DEF EpInv, WorkersInv, DownInv
<1>9. \A v \in Workers : (\A r \in Others : peer[r] # v) => up'[v] = up[v] /\ down'[v] = down[v]
  BY <1>1, <1>5
<1>10. ASSUME NEW r \in Others PROVE PeerInv(r)'
  <2>1. PICK v \in Workers : v = peer[r] /\ peer'[r] = v /\ v # None
    BY <1>1, PeerFacts
  <2>2. /\ rank[v] = r /\ ~rootShut[v] /\ IsSeq(up[v])
        /\ wpc[v] \in Receiving \cup {"reply", "gone"} /\ (wpc[v] = "gone" => ~Quiet)
        /\ wpc[v] # "gone" => Reach(v) = Upcoming(r)
        /\ r # at => IF Owes(r) THEN Pending(v) ELSE Idle(v)
    BY <1>1, <2>1, PeerFacts
  <2>3. Reach(v)' = Reach(v) /\ Upcoming(r)' = Upcoming(r) /\ Todo(v)' = Todo(v)
    BY <1>1, <1>3 DEF Reach, Upcoming, Todo
  <2>4. CASE r # at
    <3>1. v # w /\ up'[v] = up[v]
      <4>1. v # w
        BY <1>4, <2>2, <2>4
      <4> QED BY <1>5, <4>1
    <3>2. Idle(v)' <=> Idle(v)
      BY <3>1 DEF Idle, Called
    <3>3. Pending(v)' <=> Pending(v)
      <4>1. Rows(v, 2)' <=> Rows(v, 2)
        BY <3>1 DEF Rows
      <4> QED BY <2>3, <3>1, <4>1 DEF Pending, Called
    <3>4. (Owes(r)' <=> Owes(r)) /\ ~(rpc' = "row" /\ r = at')
      <4>0. r \in Nat /\ at \in Nat /\ nranks \in Nat /\ r <= nranks - 1
        BY <1>1
      <4>1. r >= at <=> r > at
        BY <2>4, <4>0
      <4>2. at = nranks - 1 => ~(r > at)
        BY <4>0
      <4>3. r >= at + 1 <=> r > at
        BY <4>0
      <4> QED BY <1>2, <2>4, <4>1, <4>2, <4>3 DEF Owes
    <3> QED BY <2>1, <2>2, <2>3, <2>4, <3>1, <3>2, <3>3, <3>4 DEF PeerInv, Quiet
  <2>5. CASE r = at
    <3>1. v = w
      BY <2>1, <2>5
    <3>2. CASE left' # 0
      <4>1. rpc' = "row" /\ at' = at
        BY <1>2, <3>2
      <4>2. Answering(w)'
        BY <2>3, <3>1 DEF Answering
      <4> QED BY <1>5, <2>1, <2>2, <2>3, <2>5, <3>1, <4>1, <4>2 DEF PeerInv, Quiet
    <3>3. CASE left' = 0
      <4>1. Cardinality(Todo(w)) \in Nat /\ (Cardinality(Todo(w)) = 0 <=> Todo(w) = {})
        <5>1. Todo(w) \subseteq Slots
          BY DEF Todo, EpInv, WorkersInv, ReplyInv, IsReply
        <5> QED BY <5>1, SlotsFacts
      <4>2. Len(up'[w]) = 0 /\ Todo(w) = {}
        <5>1. \A m, n \in Nat : 0 = m + n => m = 0 /\ n = 0
          OBVIOUS
        <5>2. 0 = Len(up'[w]) + Cardinality(Todo(w))
          BY <3>3
        <5>3. Len(up'[w]) = 0 /\ Cardinality(Todo(w)) = 0
          BY <1>5, <4>1, <5>1, <5>2
        <5> QED BY <4>1, <5>3
      <4>3. wpc[w] # "reply"
        <5>1. ReplyInv(w)
          BY DEF EpInv, WorkersInv
        <5> QED BY <4>2, <5>1 DEF ReplyInv, Todo
      <4>4. Idle(w)'
        BY <1>5, <4>2, <4>3, SeqFacts DEF Idle, Called
      <4>5. ~Owes(r)' /\ rpc' # "row"
        <5>1. ~(at >= at + 1)
          BY <1>1
        <5> QED BY <1>2, <2>5, <3>3, <5>1 DEF Owes
      <4> QED BY <1>5, <2>1, <2>2, <2>3, <3>1, <4>4, <4>5 DEF PeerInv, Quiet
    <3> QED BY <3>2, <3>3
  <2> QED BY <2>4, <2>5
<1> QED BY <1>1, <1>3, <1>6, <1>7, <1>8, <1>9, <1>10, OpenKeeps

\* The count of the rows that come, or a row.
LEMMA ReadCountFacts ==
  ASSUME EpInv, ReadCount, NEW w, w = peer[at]
  PROVE  /\ w \in Workers /\ rpc = "count" /\ at \in Others
         /\ UNCHANGED <<nranks, rank, slow, crashes, wpc, down, wout,
                        peer, backlog, arriving, rootShut, bound, call, outbox>>
         /\ up[w] # <<>> /\ up' = [up EXCEPT ![w] = Tail(@)]
         /\ up'[w] = Tail(up[w]) /\ IsSeq(up[w]) /\ Len(up[w]) > 0
         /\ up[w][1].k = "count"
         /\ wpc[w] = "reply" => wout[w].counted
         /\ wpc[w] # "gone" => Len(down[w]) = 0
         /\ Rows(w, 1)'
         /\ left' \in Nat /\ left' = Len(up'[w]) + Cardinality(Todo(w))
         /\ IF left' = 0 THEN NextRank ELSE rpc' = "row" /\ at' = at
         /\ UNCHANGED <<driver, plan, callVars, table>>
<1>1. w = peer[at]
  OBVIOUS
<1>2. /\ rpc = "count" /\ rpc \in Open /\ at \in Others /\ at \in Nat
      /\ UNCHANGED <<nranks, rank, slow, crashes, wpc, down, wout>>
      /\ up[w] # <<>> /\ up' = [up EXCEPT ![w] = Tail(@)]
  BY <1>1, RankFacts DEF ReadCount, RecvFrom, processes, EpInv, EpTypes, Open
<1>3. /\ w \in Workers /\ IsSeq(up[w]) /\ Pending(w)
  <2>1. Owes(at)
    BY <1>2 DEF Owes
  <2> QED BY <1>1, <1>2, <2>1, PeerFacts
<1>4. /\ wpc[w] = "reply" => wout[w].counted
      /\ (wpc[w] # "gone" => Len(down[w]) = 0) /\ Len(up[w]) > 0
      /\ up[w][1].k = "count" /\ up[w][1].n \in 0..TopK
      /\ up[w][1].n = (Len(up[w]) - 1) + Cardinality(Todo(w))
      /\ Rows(w, 2)
  BY <1>2, <1>3 DEF Pending, Called
<1>5. /\ IsSeq(Tail(up[w])) /\ Len(Tail(up[w])) = Len(up[w]) - 1 /\ Head(up[w]) = up[w][1]
      /\ \A i \in 1..Len(up[w])-1 : Tail(up[w])[i] = up[w][i + 1]
  BY <1>3, <1>4, TailFacts
<1>6. up'[w] = Tail(up[w]) /\ Len(up[w]) \in Nat
  BY <1>2, <1>3, SeqFacts DEF EpInv, EpTypes
<1>7. /\ left' = up[w][1].n
      /\ IF left' = 0 THEN NextRank ELSE rpc' = "row" /\ at' = at
      /\ UNCHANGED <<peer, backlog, arriving, rootShut, bound, call, outbox>>
      /\ UNCHANGED <<driver, plan, callVars, table>>
  <2>1. NumberOf(Head(up[peer[at]]), "count") = {up[w][1].n}
    BY <1>1, <1>4, <1>5 DEF NumberOf
  <2>2. PICK n \in NumberOf(Head(up[peer[at]]), "count") :
          \/ n \notin 0 .. TopK /\ Abandon
          \/ /\ n \in 0 .. TopK
             /\ left' = n
             /\ IF n = 0 THEN NextRank ELSE rpc' = "row" /\ UNCHANGED at
             /\ UNCHANGED <<driver, plan, bound, callVars, outbox, linkVars, rootShut>>
    BY DEF ReadCount
  <2>3. n = up[w][1].n
    BY <2>1, <2>2
  <2>4. n \in 0 .. TopK
    BY <1>4, <2>3
  <2> QED BY <2>2, <2>3, <2>4 DEF ReadCount, linkVars, callVars
<1>8. Rows(w, 1)'
  <2> SUFFICES ASSUME NEW i \in 1..Len(up'[w])
               PROVE  up'[w][i].k = "row" /\ up'[w][i].n \in Slots
    BY DEF Rows
  <2>1. i \in 1..Len(up[w])-1 /\ i + 1 \in 2..Len(up[w])
    BY <1>5, <1>6
  <2>2. up'[w][i] = up[w][i + 1]
    BY <1>5, <1>6, <2>1
  <2> QED BY <1>4, <2>1, <2>2 DEF Rows
<1>9. left' \in Nat /\ left' = Len(up'[w]) + Cardinality(Todo(w))
  <2>1. left' = Len(up'[w]) + Cardinality(Todo(w))
    BY <1>4, <1>5, <1>6, <1>7
  <2>2. left' \in Nat
    BY <1>4, <1>7, ExpertsAssumption
  <2> QED BY <2>1, <2>2
<1> QED BY <1>2, <1>3, <1>4, <1>6, <1>7, <1>8, <1>9

LEMMA ReadCountKeeps ==
  ASSUME EpInv, ReadCount
  PROVE  EpInv'
<1>1. PICK w : w = peer[at]
  OBVIOUS
<1> QED BY <1>1, ReadCountFacts, ReadKeeps

LEMMA ReadRowFacts ==
  ASSUME EpInv, ReadRow, NEW w, w = peer[at]
  PROVE  /\ w \in Workers /\ rpc = "row" /\ at \in Others
         /\ UNCHANGED <<nranks, rank, slow, crashes, wpc, down, wout,
                        peer, backlog, arriving, rootShut, bound, call, outbox>>
         /\ up[w] # <<>> /\ up' = [up EXCEPT ![w] = Tail(@)]
         /\ up'[w] = Tail(up[w]) /\ IsSeq(up[w]) /\ Len(up[w]) > 0
         /\ up[w][1].k = "row" /\ up[w][1].n \in Slots
         /\ wpc[w] = "reply" => wout[w].counted
         /\ wpc[w] # "gone" => Len(down[w]) = 0
         /\ Rows(w, 1)'
         /\ left' \in Nat /\ left' = Len(up'[w]) + Cardinality(Todo(w))
         /\ IF left' = 0 THEN NextRank ELSE rpc' = "row" /\ at' = at
         /\ UNCHANGED <<driver, plan, x, sel, table>>
         /\ cbuf' = [cbuf EXCEPT ![up[w][1].n] = up[w][1].row]
<1>1. w = peer[at]
  OBVIOUS
<1>2. /\ rpc = "row" /\ rpc \in Open /\ at \in Others /\ at \in Nat
      /\ UNCHANGED <<nranks, rank, slow, crashes, wpc, down, wout>>
      /\ up[w] # <<>> /\ up' = [up EXCEPT ![w] = Tail(@)]
  BY <1>1, RankFacts DEF ReadRow, RecvFrom, processes, EpInv, EpTypes, Open
<1>3. w \in Workers /\ IsSeq(up[w]) /\ Answering(w)
  BY <1>1, <1>2, PeerFacts
<1>4. /\ wpc[w] = "reply" => wout[w].counted
      /\ wpc[w] # "gone" => Len(down[w]) = 0
      /\ Rows(w, 1) /\ left = Len(up[w]) + Cardinality(Todo(w))
      /\ Len(up[w]) \in Nat /\ Len(up[w]) > 0
  BY <1>2, <1>3, SeqFacts DEF Answering
<1>5. /\ IsSeq(Tail(up[w])) /\ Len(Tail(up[w])) = Len(up[w]) - 1 /\ Head(up[w]) = up[w][1]
      /\ \A i \in 1..Len(up[w])-1 : Tail(up[w])[i] = up[w][i + 1]
  BY <1>3, <1>4, TailFacts
<1>6. up'[w] = Tail(up[w])
  BY <1>2, <1>3 DEF EpInv, EpTypes
<1>7. up[w][1].k = "row" /\ up[w][1].n \in Slots
  <2>1. 1 \in 1..Len(up[w])
    BY <1>4
  <2> QED BY <1>4, <2>1 DEF Rows
<1>8. left \in Nat /\ left > 0
  BY <1>2 DEF EpInv, EpTypes, OutboxInv
<1>9. /\ left' = left - 1
      /\ IF left = 1 THEN NextRank ELSE rpc' = "row" /\ at' = at
      /\ UNCHANGED <<peer, backlog, arriving, rootShut, bound, call, outbox>>
      /\ UNCHANGED <<driver, plan, x, sel, table>>
      /\ cbuf' = [cbuf EXCEPT ![up[w][1].n] = up[w][1].row]
  <2>1. NumberOf(Head(up[peer[at]]), "row") = {up[w][1].n}
    BY <1>1, <1>5, <1>7 DEF NumberOf
  <2>2. PICK n \in NumberOf(Head(up[peer[at]]), "row") :
          \/ n \notin Slots /\ Abandon
          \/ /\ n \in Slots
             /\ cbuf' = [cbuf EXCEPT ![n] = up[w][1].row]
             /\ left' = left - 1
             /\ IF left = 1 THEN NextRank ELSE UNCHANGED <<rpc, at>>
             /\ UNCHANGED <<driver, plan, bound, call, x, sel, outbox, linkVars, rootShut>>
    BY <1>1, <1>5, <1>7 DEF ReadRow
  <2>3. n \in Slots /\ n = up[w][1].n
    BY <1>7, <2>1, <2>2
  <2> QED BY <1>2, <2>2, <2>3 DEF ReadRow, linkVars
<1>10. Rows(w, 1)'
  <2> SUFFICES ASSUME NEW i \in 1..Len(up'[w])
               PROVE  up'[w][i].k = "row" /\ up'[w][i].n \in Slots
    BY DEF Rows
  <2>1. i \in 1..Len(up[w])-1 /\ i + 1 \in 1..Len(up[w])
    BY <1>4, <1>5, <1>6
  <2>2. up'[w][i] = up[w][i + 1]
    BY <1>5, <1>6, <2>1
  <2> QED BY <1>4, <2>1, <2>2 DEF Rows
<1>11. left' \in Nat /\ (left' = 0 <=> left = 1)
  BY <1>8, <1>9
<1>12. left' = Len(up'[w]) + Cardinality(Todo(w))
  <2>1. Cardinality(Todo(w)) \in Nat
    <3>1. Todo(w) \subseteq Slots
      BY <1>3 DEF Todo, EpInv, WorkersInv, ReplyInv, IsReply
    <3> QED BY <3>1, SlotsFacts
  <2>2. left = Len(up[w]) + Cardinality(Todo(w)) /\ left' = left - 1 /\ Len(up'[w]) = Len(up[w]) - 1
    BY <1>4, <1>5, <1>6, <1>9
  <2> QED BY <1>4, <2>1, <2>2
<1>13. IF left' = 0 THEN NextRank ELSE rpc' = "row" /\ at' = at
  BY <1>9, <1>11
<1> QED BY <1>2, <1>3, <1>4, <1>6, <1>7, <1>9, <1>10, <1>11, <1>12, <1>13

LEMMA ReadRowKeeps ==
  ASSUME EpInv, ReadRow
  PROVE  EpInv'
<1>1. PICK w : w = peer[at]
  OBVIOUS
<1> QED BY <1>1, ReadRowFacts, ReadKeeps

\* The session is closed, or the coordinator killed.
LEMMA EndAsKeeps ==
  ASSUME EpInv, NEW how \in Over, EndAs(how), left' \in Nat, at' \in Others,
         up' = [w \in Workers |-> up'[w]],
         \A w \in Workers : up'[w] = up[w] \/ up'[w] = <<>>,
         UNCHANGED <<nranks, rank, slow, crashes, wpc, down, wout, bound, call>>
  PROVE  EpInv' /\ rpc' \in Over
<1>1. /\ rpc' \in Over /\ backlog' = <<>> /\ arriving' = None /\ peer' = peer
      /\ rootShut' = [w \in Workers |-> TRUE]
  BY DEF EndAs
<1>2. EpTypes'
  BY <1>1 DEF EpInv, EpTypes, Others
<1>3. \A w \in Workers : DownInv(w)'
  BY DEF EpInv, WorkersInv, DownInv
<1> QED BY <1>1, <1>2, <1>3, EndKeeps

\* A send fails, or a read: the session is over, or the call given up because a rank died.
LEMMA FailKeeps ==
  ASSUME EpInv, Punctual, SendFails \/ ReadFails
  PROVE  (EpInv' /\ rpc' \in Over) \/ Spoilt'
<1>1. PICK w : w = peer[at]
  OBVIOUS
<1>2. /\ UNCHANGED <<nranks, rank, slow, crashes, wpc, down, wout>>
      /\ rpc \in Open /\ at \in Others /\ 1 \in Others /\ ~(at < at) /\ left \in Nat
  BY RankFacts DEF SendFails, ReadFails, Broadcasting, Open, Sending, processes, EpInv, EpTypes
<1>3. w \in Workers /\ (wpc[w] = "gone" => ~Quiet) /\ (rpc \in Sending => up[w] = <<>>)
  <2>1. rpc \in Sending => ~Owes(at) /\ rpc # "row"
    BY <1>2 DEF Owes, Sending
  <2> QED BY <1>1, <1>2, <2>1, PeerFacts DEF Idle
<1>4. /\ up' = [v \in Workers |-> up'[v]]
      /\ \A v \in Workers : up'[v] = up[v] \/ up'[v] = <<>>
      /\ ReadFails => up'[w] = <<>>
      /\ SendFails => up' = up
  <2>1. SendFails \/ up' = [up EXCEPT ![w] = <<>>]
    BY <1>1 DEF ReadFails
  <2>2. SendFails => up' = up /\ rpc \in Sending
    BY DEF SendFails, Broadcasting, Sending
  <2>3. ReadFails => ~(rpc \in Sending)
    BY DEF ReadFails, Sending
  <2> QED BY <1>3, <2>1, <2>2, <2>3 DEF EpInv, EpTypes
<1>5. CASE EndAs("killed") \/ EndAs("closed")
  <2>1. bound' = bound /\ call' = call /\ left' \in Nat /\ at' \in Others
    BY <1>2 DEF SendFails, ReadFails, Abandon, rootVars, callVars
  <2> QED BY <1>2, <1>4, <1>5, <2>1, EndAsKeeps DEF Over
<1>6. CASE ~(EndAs("killed") \/ EndAs("closed"))
  <2>1. Abandon
    BY <1>6 DEF SendFails, ReadFails
  <2>2. driver = "forward" /\ rpc' = "ready" /\ peer' = peer /\ at' = 1
    BY <1>6, <2>1 DEF Abandon, linkVars
  <2>3. wpc[w] = "gone"
    BY <1>1, <2>2 DEF SendFails, ReadFails, RecvFails, Gone, Punctual
  <2>4. up'[w] = <<>>
    BY <1>3, <1>4 DEF SendFails, Broadcasting, Sending
  <2>5. PICK d \in Others : d = at
    BY <1>2
  <2>6. Stuck(d)' /\ Others' = Others
    BY <1>1, <1>2, <1>3, <2>2, <2>3, <2>4, <2>5 DEF Stuck, Others, Sending
  <2> QED BY <1>2, <1>3, <1>4, <2>3, <2>6 DEF Spoilt, Quiet, EpInv, EpTypes
<1> QED BY <1>5, <1>6

\* Whatever the coordinator does.
LEMMA RootKeeps ==
  ASSUME EpInv, Punctual, RootWorks \/ StartCall \/ StartEnd
  PROVE  EpInv' \/ Spoilt'
BY FailKeeps, AcceptKeeps, GreetKeeps, SendNextKeeps, OwnRowsKeep, ReadCountKeeps, ReadRowKeeps,
   StartCallKeeps, StartEndKeeps DEF RootWorks, Opening

\* Once a call was given up, none is completed: a worker that is gone stays where it is ...
LEMMA WorkerSpoils ==
  ASSUME Spoilt, NEW w \in Workers,
         WorkerWorks(w) \/ (Crash(w) /\ UNCHANGED <<rootVars, table, wout>>)
  PROVE  Spoilt'
<1>1. /\ UNCHANGED <<nranks, slow, rpc, peer, at>>
      /\ crashes' = crashes \/ crashes' = crashes + 1
  <2>1. CASE Connect(w) \/ GiveUp(w) \/ SayRank(w) \/ Leave(w) \/ Crash(w)
    BY <2>1 DEF WorkerWorks, Connect, GiveUp, SayRank, Leave, RecvShake, RecvTable, RecvHeader, RecvBody,
         SendReply, Stray, Crash, processes, linkVars, rootVars
  <2>2. CASE ~(Connect(w) \/ GiveUp(w) \/ SayRank(w) \/ Leave(w) \/ Crash(w))
    BY <2>2 DEF WorkerWorks, RecvShake, RecvTable, RecvHeader, RecvBody,
         SendReply, Stray, processes, linkVars, rootVars
  <2> QED BY <2>1, <2>2
<1>2. crashes' \in Nat /\ ~Quiet' /\ Others' = Others
  BY <1>1 DEF Spoilt, Quiet, Others
<1>3. wpc[w] # "gone"
  BY DEF WorkerWorks, Connect, GiveUp, SayRank, Leave, RecvShake, RecvTable, RecvHeader, RecvBody,
         SendReply, Stray, Crash, Receiving
<1>4. /\ wpc' = [v \in Workers |-> wpc'[v]] /\ up' = [v \in Workers |-> up'[v]]
      /\ \A v \in Workers \ {w} : wpc'[v] = wpc[v] /\ up'[v] = up[v]
  <2>1. CASE Connect(w) \/ GiveUp(w) \/ SayRank(w) \/ Leave(w) \/ Crash(w)
    BY <2>1 DEF Connect, GiveUp, SayRank, Leave, Crash, MoveTo, SendUp, Spoilt
  <2>2. CASE RecvShake(w) \/ RecvTable(w) \/ RecvHeader(w) \/ RecvBody(w)
    <3>1. up' = up /\ \E there : MoveTo(w, there)
      BY <2>2 DEF RecvShake, RecvTable, RecvHeader, RecvBody
    <3> QED BY <3>1 DEF MoveTo, Spoilt
  <2>3. CASE SendReply(w)
    <3>1. PICK f, R : Reply(w, f, R)
      BY <2>3 DEF SendReply
    <3> QED BY <3>1 DEF Reply, MoveTo, SendUp, Spoilt
  <2>4. CASE Stray(w)
    BY <2>4 DEF Stray, MoveTo, SendUp, Spoilt
  <2> QED BY <2>1, <2>2, <2>3, <2>4 DEF WorkerWorks
<1>5. ASSUME NEW d \in Others, Stuck(d) PROVE Stuck(d)'
  <2>1. peer[d] \in Workers \ {w}
    BY <1>3, <1>5 DEF Stuck
  <2> QED BY <1>1, <1>2, <1>4, <1>5, <2>1 DEF Stuck
<1> QED BY <1>1, <1>2, <1>4, <1>5 DEF Spoilt

\* ... and the coordinator cannot read its answer.
LEMMA RootSpoils ==
  ASSUME Spoilt, RootWorks \/ StartCall \/ StartEnd
  PROVE  Spoilt'
<1>1. UNCHANGED <<nranks, slow, crashes, wpc>>
  BY DEF RootWorks, Opening, Accept, AcceptTimesOut, Greet, GreetFails, SendNext, SendFails,
         Contribute, ReadCount, ReadRow, ReadFails, Reduce, StartCall, StartEnd, processes
<1>2. PICK d : d \in Others /\ Stuck(d)
  BY DEF Spoilt, Over, RootWorks, Opening, Accept, AcceptTimesOut, Greet, GreetFails, SendNext,
         SendFails, Contribute, ReadCount, ReadRow, ReadFails, Reduce, StartCall, StartEnd,
         Broadcasting
<1>3. PICK w \in Workers : w = peer[d]
  BY <1>2 DEF Stuck
<1>4. /\ wpc[w] = "gone" /\ up[w] = <<>>
      /\ rpc \in {"ready", "own", "count", "row"} \cup Sending
      /\ d \in Nat /\ d >= 1 /\ d <= nranks - 1 /\ at \in Nat /\ at >= 1 /\ at <= nranks - 1
      /\ nranks \in Nat /\ 1 \in Others /\ Others' = Others
      /\ rpc = "own" => at = 1
      /\ rpc = "count" => at <= d
      /\ rpc = "row" => at < d
  BY <1>1, <1>2, <1>3 DEF Stuck, Spoilt, Others
\* what the cases have in common
<1>5. ASSUME up' = [v \in Workers |-> up'[v]], up'[w] = <<>>,
             rpc' \in Over \/ (/\ peer' = peer /\ at' \in Others
                               /\ rpc' \in {"ready", "own", "count", "row"} \cup Sending
                               /\ rpc' = "own" => at' = 1
                               /\ rpc' = "count" => at' <= d
                               /\ rpc' = "row" => at' < d)
      PROVE  Spoilt'
  <2>1. rpc' \in Over \/ Stuck(d)'
    BY <1>1, <1>3, <1>4, <1>5 DEF Stuck
  <2> QED BY <1>1, <1>2, <1>4, <1>5, <2>1 DEF Spoilt, Quiet
<1>6. up = [v \in Workers |-> up[v]] /\ at \in Others
  BY <1>4 DEF Spoilt, Others
<1>7. ASSUME Abandon
      PROVE  rpc' \in Over \/ (peer' = peer /\ at' \in Others /\ rpc' = "ready")
  BY <1>4, <1>7 DEF Abandon, EndAs, linkVars, Over
<1>8. CASE Opening \/ Reduce
  BY <1>4, <1>8 DEF Opening, Accept, AcceptTimesOut, Greet, GreetFails, Reduce, Sending
<1>9. CASE StartCall
  <2>1. up' = up /\ peer' = peer /\ at' = at /\ rpc' \in Sending
    BY <1>9 DEF StartCall, linkVars, Sending
  <2> QED BY <1>4, <1>5, <1>6, <2>1 DEF Sending
<1>10. CASE StartEnd
  <2>1. up' = up /\ at' = at /\ (rpc' \in Over \/ (rpc' \in Sending /\ peer' = peer))
    BY <1>10 DEF StartEnd, EndAs, linkVars, Sending, Over
  <2> QED BY <1>4, <1>5, <1>6, <2>1 DEF Sending
<1>11. CASE SendNext
  <2>1. up' = up /\ rpc \in Sending
    BY <1>11 DEF SendNext, Broadcasting, Sending
  <2>2. CASE at < nranks - 1
    <3>1. at' = at + 1 /\ rpc' = rpc /\ peer' = peer
      BY <1>11, <2>2 DEF SendNext, linkVars
    <3>2. at' \in Others
      BY <1>4, <2>2, <3>1 DEF Others
    <3> QED BY <1>4, <1>5, <1>6, <2>1, <3>1, <3>2 DEF Sending
  <2>3. CASE ~(at < nranks - 1)
    <3>1. at' = 1
      BY <1>11, <2>3 DEF SendNext
    <3>2. \/ rpc' = rpc /\ peer' = peer
          \/ rpc' \in {"cast", "own"} /\ peer' = peer
          \/ rpc' \in Over
      BY <1>11, <2>1, <2>3 DEF SendNext, AfterBroadcast, EndAs, linkVars, Sending, Over
    <3> QED BY <1>4, <1>5, <1>6, <2>1, <3>1, <3>2 DEF Sending
  <2> QED BY <2>2, <2>3
<1>12. CASE SendFails
  <2>1. up' = up
    BY <1>12 DEF SendFails
  <2>2. rpc' \in Over \/ Abandon
    BY <1>12 DEF SendFails, EndAs, Over
  <2> QED BY <1>4, <1>5, <1>6, <1>7, <2>1, <2>2
<1>13. CASE Contribute
  <2>1. up' = up /\ peer' = peer /\ at' = at /\ at = 1 /\ rpc' = "count"
    BY <1>4, <1>13 DEF Contribute, linkVars
  <2> QED BY <1>4, <1>5, <1>6, <2>1
<1>14. CASE ReadFails
  <2>1. Abandon /\ up' = [up EXCEPT ![peer[at]] = <<>>]
    BY <1>14 DEF ReadFails
  <2> QED BY <1>4, <1>5, <1>6, <1>7, <2>1
<1>15. CASE ReadCount \/ ReadRow
  <2>1. RecvFrom(peer[at])
    BY <1>15 DEF ReadCount, ReadRow
  <2>2. peer[at] # w
    BY <1>4, <2>1 DEF RecvFrom
  <2>3. at < d
    BY <1>3, <1>4, <1>15, <2>2 DEF ReadCount, ReadRow
  <2>4. up' = [v \in Workers |-> up'[v]] /\ up'[w] = <<>>
    BY <1>4, <1>6, <2>1, <2>2 DEF RecvFrom
  <2>5. ASSUME NextRank PROVE rpc' = "count" /\ at' = at + 1
    BY <1>4, <2>3, <2>5 DEF NextRank, LastRank
  <2>6. at + 1 \in Others /\ at + 1 <= d
    BY <1>4, <2>3 DEF Others
  <2>7. \/ Abandon
        \/ /\ peer' = peer
           /\ NextRank \/ (rpc' = "row" /\ at' = at)
    <3>1. CASE ReadCount
      BY <3>1 DEF ReadCount, linkVars
    <3>2. CASE ReadRow
      BY <3>2 DEF ReadRow, linkVars
    <3> QED BY <1>15, <3>1, <3>2
  <2> QED BY <1>4, <1>5, <1>6, <1>7, <2>3, <2>4, <2>5, <2>6, <2>7
<1> QED BY <1>8, <1>9, <1>10, <1>11, <1>12, <1>13, <1>14, <1>15 DEF RootWorks

LEMMA StutterKeeps ==
  ASSUME EpInv, UNCHANGED vars
  PROVE  EpInv'
<1>1. RootSame /\ UNCHANGED <<wpc, down, up, wout>>
  BY DEF vars, transport, processes, linkVars, rootVars, callVars, RootSame, Quiet
<1>2. \A v \in Workers : Same(v)
  BY <1>1 DEF Same
<1>3. EpTypes'
  BY <1>1 DEF EpInv, EpTypes, RootSame, Others
<1>4. OutboxInv' /\ WaitInv'
  BY <1>1 DEF EpInv, OutboxInv, WaitInv, RootSame, Others
<1>5. WorkersInv'
  BY <1>1, <1>2, WorkerStays DEF EpInv, WorkersInv
<1>6. PeersInv'
  <2> SUFFICES ASSUME NEW r \in Others PROVE PeerInv(r)'
    BY <1>1 DEF PeersInv, RootSame, Others
  <2>1. peer[r] # None => peer[r] \in Workers
    BY DEF EpInv, EpTypes
  <2> QED BY <1>1, <1>2, <2>1, PeerStays DEF EpInv, PeersInv
<1> QED BY <1>3, <1>4, <1>5, <1>6 DEF EpInv

-----------------------------------------------------------------------------
(***************************************************************************)
(* The invariant, and what it is for.                                      *)
(***************************************************************************)
LEMMA InitEp ==
  ASSUME Init
  PROVE  EpInv
<1>1. /\ nranks \in 2 .. MaxRanks /\ rank \in [Workers -> Others] /\ slow \in BOOLEAN
      /\ rpc = "listen" /\ backlog = <<>> /\ arriving = None
      /\ peer = [r \in Others |-> None] /\ wpc = [w \in Workers |-> "start"]
      /\ down = [w \in Workers |-> <<>>] /\ up = [w \in Workers |-> <<>>]
      /\ rootShut = [w \in Workers |-> FALSE] /\ crashes = 0
      /\ bound = FALSE /\ call = 0 /\ at = 1 /\ left = 0
      /\ wout = [w \in Workers |-> [call |-> 0, sel |-> sel, counted |-> FALSE, todo |-> {}]]
  BY DEF Init, TransportInit
<1>2. nranks \in Nat /\ nranks >= 2 /\ 1 \in Others
  BY <1>1, RanksAssumption DEF Others
<1>3. EpTypes
  <2>1. wpc \in [Workers -> Places \ {"astray"}]
    BY <1>1 DEF Places, Receiving
  <2>2. backlog \in Seq(Workers) /\ rootShut \in [Workers -> BOOLEAN]
        /\ peer \in [Others -> Workers \cup {None}]
    BY <1>1
  <2>3. /\ down = [w \in Workers |-> down[w]] /\ up = [w \in Workers |-> up[w]]
        /\ wout = [w \in Workers |-> wout[w]]
    BY <1>1
  <2> QED BY <1>1, <1>2, <2>1, <2>2, <2>3 DEF EpTypes
<1>4. OutboxInv /\ WaitInv
  BY <1>1 DEF OutboxInv, WaitInv, Open, Sending, Over
<1>5. WorkersInv
  <2> SUFFICES ASSUME NEW w \in Workers PROVE DownInv(w) /\ QueuedInv(w) /\ ReplyInv(w)
    BY DEF WorkersInv
  <2>1. DownInv(w)
    BY <1>1, EmptyFacts DEF DownInv
  <2>2. QueuedInv(w)
    BY <1>1, NoneAssumption DEF QueuedInv
  <2>3. ReplyInv(w)
    <3>1. /\ wout[w] \in [call : {0}, sel : {sel}, counted : BOOLEAN, todo : SUBSET Slots]
          /\ ~wout[w].counted /\ wout[w].todo = {}
      BY <1>1
    <3>2. IsReply(wout[w])
      BY <3>1 DEF IsReply
    <3> QED BY <3>1, <3>2 DEF ReplyInv
  <2> QED BY <2>1, <2>2, <2>3
<1>6. PeersInv
  BY <1>1 DEF PeersInv, PeerInv
<1> QED BY <1>3, <1>4, <1>5, <1>6 DEF EpInv

\* A process that has died stays dead; being slow, and who drives, is for the whole session.
LEMMA SessionFacts ==
  ASSUME [Next]_vars, crashes \in Nat
  PROVE  slow' = slow /\ driver' = driver /\ crashes' \in Nat
<1>1. CASE RootWorks
  BY <1>1 DEF RootWorks, Opening, Accept, AcceptTimesOut, Greet, GreetFails, SendNext, SendFails,
              Contribute, ReadCount, ReadRow, ReadFails, Abandon, Reduce, processes, rootVars
<1>2. CASE StartCall \/ StartEnd
  BY <1>2 DEF StartCall, StartEnd, processes
<1>3. ASSUME NEW w \in Workers, WorkerWorks(w) \/ (Crash(w) /\ UNCHANGED <<rootVars, table, wout>>)
      PROVE  slow' = slow /\ driver' = driver /\ crashes' \in Nat
  <2>1. CASE Crash(w) /\ UNCHANGED <<rootVars, table, wout>>
    BY <2>1 DEF Crash, processes, rootVars
  <2>2. CASE WorkerWorks(w)
    BY <2>2 DEF WorkerWorks, Connect, GiveUp, SayRank, Leave, RecvShake, RecvTable, RecvHeader,
                RecvBody, SendReply, Stray, processes, rootVars
  <2> QED BY <1>3, <2>1, <2>2
<1>4. CASE UNCHANGED vars
  BY <1>4 DEF vars, transport, processes, rootVars
<1> QED BY <1>1, <1>2, <1>3, <1>4 DEF Next

\* What each worker is sent, expects and owes agrees with where the coordinator is, until a
\* call is given up.
PairedInv == crashes \in Nat /\ slow \in BOOLEAN /\ (Punctual => EpInv \/ Spoilt)

LEMMA SpoiltStays ==
  ASSUME Spoilt, [Next]_vars
  PROVE  Spoilt'
<1>1. CASE UNCHANGED vars
  BY <1>1 DEF vars, transport, processes, linkVars, rootVars, Spoilt, Stuck, Quiet, Others
<1> QED BY <1>1, RootSpoils, WorkerSpoils DEF Next

LEMMA PairedStep ==
  ASSUME EpInv \/ Spoilt, Punctual, [Next]_vars
  PROVE  EpInv' \/ Spoilt'
<1>1. CASE Spoilt
  BY <1>1, SpoiltStays
<1>2. CASE EpInv /\ UNCHANGED vars
  BY <1>2, StutterKeeps
<1>3. CASE EpInv /\ (RootWorks \/ StartCall \/ StartEnd)
  BY <1>3, RootKeeps
<1>4. CASE EpInv /\ \E w \in Workers :
                 WorkerWorks(w) \/ (Crash(w) /\ UNCHANGED <<rootVars, table, wout>>)
  BY <1>4, WorkerKeeps
<1> QED BY <1>1, <1>2, <1>3, <1>4 DEF Next

THEOREM EpInvariance == Spec => []PairedInv
<1>1. Init => PairedInv
  <2> SUFFICES ASSUME Init PROVE PairedInv
    OBVIOUS
  <2>1. crashes = 0 /\ slow \in BOOLEAN
    BY DEF Init, TransportInit
  <2> QED BY <2>1, InitEp DEF PairedInv
<1>2. PairedInv /\ [Next]_vars => PairedInv'
  <2> SUFFICES ASSUME PairedInv, [Next]_vars PROVE PairedInv'
    OBVIOUS
  <2>1. slow' = slow /\ driver' = driver /\ crashes' \in Nat
    BY SessionFacts DEF PairedInv
  <2>2. Punctual' => EpInv' \/ Spoilt'
    BY <2>1, PairedStep DEF PairedInv, Punctual
  <2> QED BY <2>1, <2>2 DEF PairedInv
<1> QED BY <1>1, <1>2, PTL DEF Spec

\* As long as nobody dies or is late, whoever reads a frame finds the kind it expects, and
\* nothing is left under way when a call is over (st_moe_ep_worker_run, st_moe_ep_forward_ffn).
THEOREM FramesStayPaired == Spec => []FramesPaired
<1>1. PairedInv => FramesPaired
  <2> SUFFICES ASSUME EpInv
               PROVE  /\ \A w \in Workers :
                           wpc[w] \in Receiving /\ down[w] # <<>> => Head(down[w]).k = wpc[w]
                      /\ rpc \in {"count", "row"} /\ up[peer[at]] # <<>> => Head(up[peer[at]]).k = rpc
                      /\ rpc = "ready" => \A r \in Others : up[peer[r]] = <<>>
    BY DEF PairedInv, Punctual, Spoilt, Quiet, FramesPaired
  <2>1. ASSUME NEW w \in Workers, wpc[w] \in Receiving, down[w] # <<>>
        PROVE  Head(down[w]).k = wpc[w]
    <3>1. DownInv(w)
      BY DEF EpInv, WorkersInv
    <3>2. IsSeq(down[w]) /\ Len(down[w]) > 0
      BY <2>1, <3>1, SeqFacts DEF DownInv
    <3>3. Head(down[w]) = down[w][1]
      BY <3>2, TailFacts
    <3> QED BY <2>1, <3>1, <3>2, <3>3 DEF DownInv, Receiving
  <2>2. ASSUME rpc \in {"count", "row"}, up[peer[at]] # <<>>
        PROVE  Head(up[peer[at]]).k = rpc
    <3>1. rpc \in Open /\ at \in Others /\ at \in Nat
      BY <2>2, RankFacts DEF Open, EpInv, EpTypes
    <3>2. PICK w : w = peer[at]
      OBVIOUS
    <3>3. /\ IsSeq(up[w]) /\ Len(up[w]) \in Nat /\ Len(up[w]) > 0
          /\ IF rpc = "row" THEN Answering(w) ELSE IF Owes(at) THEN Pending(w) ELSE Idle(w)
      BY <2>2, <3>1, <3>2, PeerFacts, SeqFacts
    <3>4. Head(up[w]) = up[w][1]
      BY <3>3, TailFacts
    <3>5. CASE rpc = "row"
      <4>1. 1 \in 1..Len(up[w])
        BY <3>3
      <4> QED BY <3>2, <3>3, <3>4, <3>5, <4>1 DEF Answering, Rows
    <3>6. CASE rpc = "count"
      <4>1. Owes(at)
        BY <3>1, <3>6 DEF Owes
      <4> QED BY <2>2, <3>2, <3>3, <3>4, <3>6, <4>1 DEF Pending, Called
    <3> QED BY <2>2, <3>5, <3>6
  <2>3. ASSUME rpc = "ready", NEW r \in Others
        PROVE  up[peer[r]] = <<>>
    <3>1. rpc \in Open /\ ~Owes(r)
      BY <2>3 DEF Open, Owes
    <3> QED BY <2>3, <3>1, PeerFacts DEF Idle, Called
  <2> QED BY <2>1, <2>2, <2>3
<1> QED BY <1>1, EpInvariance, PTL
-----------------------------------------------------------------------------
(***************************************************************************)
(* Numbers: induction, recursive functions and sums.                       *)
(***************************************************************************)
\* A set with 0, and the next of each number in it, has all numbers.
LEMMA Induct ==
  ASSUME NEW S, 0 \in S, \A n \in Nat : n \in S => n + 1 \in S
  PROVE  Nat \subseteq S
<1> SUFFICES ASSUME Nat \ S # {} PROVE FALSE
  OBVIOUS
<1> DEFINE R == OpToRel(<, Nat)
<1>1. \E m \in Nat \ S : \A n \in Nat \ S : ~ (<<n, m>> \in R)
  <2>1. IsWellFoundedOn(R, Nat)
    BY NatLessThanWellFounded
  <2>2. Nat \ S \subseteq Nat
    OBVIOUS
  <2> HIDE DEF R
  <2> QED BY <2>1, <2>2, WFMin
<1>2. PICK m \in Nat \ S : \A n \in Nat \ S : ~ (<<n, m>> \in R)
  BY <1>1
<1>3. (m - 1 \in Nat /\ m - 1 \notin S) \/ m = 0
  <2> SUFFICES ASSUME m # 0 PROVE m - 1 \in Nat /\ m - 1 \notin S
    OBVIOUS
  <2>1. m \in Nat /\ m \notin S
    BY <1>2
  <2>2. m - 1 \in Nat /\ (m - 1) + 1 = m
    BY <2>1
  <2> QED BY <2>1, <2>2
<1>4. m = 0 \/ <<m - 1, m>> \in R
  BY <1>2, <1>3 DEF OpToRel
<1> QED BY <1>2, <1>3, <1>4

\* Induction up to N.
LEMMA UpTo ==
  ASSUME NEW N \in Nat, NEW S, 0 \in S, \A n \in 1..N : n - 1 \in S => n \in S
  PROVE  0..N \subseteq S
<1> DEFINE T == S \cup {n \in Nat : n > N}
<1>1. 0 \in T
  OBVIOUS
<1>2. ASSUME NEW n \in Nat, n \in T PROVE n + 1 \in T
  <2>1. CASE n + 1 <= N
    <3>1. n + 1 \in 1..N /\ (n + 1) - 1 \in S
      BY <1>2, <2>1
    <3> QED BY <3>1
  <2>2. CASE n + 1 > N
    BY <2>2
  <2> QED BY <2>1, <2>2
<1> HIDE DEF T
<1>3. Nat \subseteq T
  BY <1>1, <1>2, Induct
<1> QED BY <1>3 DEF T

\* f is computed step by step, from b.
Steps(f, N, b, g) == f[0] = b /\ \A n \in 1..N : f[n] = g[n][f[n - 1]]

\* What is computed step by step from b in S exists, and stays in S.
LEMMA Iterated ==
  ASSUME NEW N \in Nat, NEW S, NEW b \in S, NEW g \in [1..N -> [S -> S]]
  PROVE  \E f \in [0..N -> S] : Steps(f, N, b, g)
<1> DEFINE Partial(m) == \E f \in [0..m -> S] : f[0] = b /\ \A n \in 1..m : f[n] = g[n][f[n - 1]]
           D == {m \in 0..N : Partial(m)}
<1>1. 0 \in D
  <2>1. [n \in 0..0 |-> b] \in [0..0 -> S] /\ [n \in 0..0 |-> b][0] = b
    OBVIOUS
  <2>2. Partial(0)
    <3> WITNESS [n \in 0..0 |-> b] \in [0..0 -> S]
    <3> QED BY <2>1
  <2> QED BY <2>2
<1>2. ASSUME NEW m \in 1..N, m - 1 \in D PROVE m \in D
  <2>1. PICK f \in [0..m-1 -> S] : f[0] = b /\ \A n \in 1..m-1 : f[n] = g[n][f[n - 1]]
    BY <1>2
  <2> DEFINE h == [n \in 0..m |-> IF n = m THEN g[m][f[m - 1]] ELSE f[n]]
  <2>2. h \in [0..m -> S]
    <3>1. f[m - 1] \in S /\ g[m] \in [S -> S]
      BY <2>1
    <3>2. g[m][f[m - 1]] \in S
      BY <3>1
    <3>3. ASSUME NEW n \in 0..m, n # m PROVE f[n] \in S
      BY <3>3
    <3> QED BY <3>2, <3>3
  <2>3. h[0] = b
    BY <2>1
  <2>4. ASSUME NEW n \in 1..m PROVE h[n] = g[n][h[n - 1]]
    <3>1. h[n - 1] = f[n - 1]
      OBVIOUS
    <3>2. CASE n = m
      BY <3>1, <3>2
    <3>3. CASE n # m
      <4>1. n \in 1..m-1 /\ h[n] = f[n]
        BY <3>3
      <4> QED BY <2>1, <3>1, <4>1
    <3> QED BY <3>2, <3>3
  <2> HIDE DEF h
  <2>5. Partial(m)
    <3> WITNESS h \in [0..m -> S]
    <3> QED BY <2>3, <2>4
  <2> QED BY <2>5
<1> HIDE DEF D
<1>3. N \in D
  <2>1. \A m \in 1..N : m - 1 \in D => m \in D
    BY <1>2
  <2>2. 0..N \subseteq D
    BY <1>1, <2>1, UpTo
  <2> QED BY <2>2
<1> QED BY <1>3 DEF D, Steps

\* The sums of the first numbers of f.
Sums(t, f, N) == t[0] = 0 /\ \A n \in 1..N : t[n] = t[n - 1] + f[n - 1]

LEMMA TotalFacts ==
  ASSUME NEW N \in Nat, NEW f, \A i \in 0..N-1 : f[i] \in Int
  PROVE  \E t \in [0..N -> Int] : Sums(t, f, N) /\ Total(f, N) = t[N]
<1> DEFINE g == [n \in 1..N |-> [s \in Int |-> s + f[n - 1]]]
           c == CHOOSE sum : sum = [i \in 0..N |-> IF i = 0 THEN 0 ELSE sum[i - 1] + f[i - 1]]
<1>1. g \in [1..N -> [Int -> Int]]
  <2>1. ASSUME NEW n \in 1..N, NEW s \in Int PROVE s + f[n - 1] \in Int
    <3>1. n - 1 \in 0..N-1
      OBVIOUS
    <3> QED BY <3>1
  <2> QED BY <2>1
<1>2. PICK t \in [0..N -> Int] : Steps(t, N, 0, g)
  <2> HIDE DEF g
  <2>1. PICK S : S = Int
    OBVIOUS
  <2>2. 0 \in S /\ g \in [1..N -> [S -> S]]
    BY <1>1, <2>1
  <2>3. \E t \in [0..N -> S] : Steps(t, N, 0, g)
    BY <2>2, Iterated
  <2> QED BY <2>1, <2>3
<1>3. t = [i \in 0..N |-> IF i = 0 THEN 0 ELSE t[i - 1] + f[i - 1]]
  <2>1. ASSUME NEW i \in 0..N, i # 0 PROVE t[i] = t[i - 1] + f[i - 1]
    <3>1. i \in 1..N /\ i - 1 \in 0..N
      BY <2>1
    <3>2. t[i - 1] \in Int
      BY <3>1
    <3> QED BY <1>2, <3>1, <3>2 DEF Steps
  <2> HIDE DEF g
  <2> QED BY <1>2, <2>1 DEF Steps
<1>4. c = [i \in 0..N |-> IF i = 0 THEN 0 ELSE c[i - 1] + f[i - 1]]
  BY <1>3
<1>5. Total(f, N) = c[N]
  BY DEF Total
<1> HIDE DEF c, g
<1>6. c[0] = 0 /\ \A n \in 1..N : c[n] = c[n - 1] + f[n - 1]
  BY <1>4
<1> DEFINE D == {i \in 0..N : c[i] \in Int}
<1>7. 0..N \subseteq D
  <2>1. 0 \in D
    BY <1>6
  <2>2. ASSUME NEW n \in 1..N, n - 1 \in D PROVE n \in D
    <3>1. c[n - 1] \in Int /\ f[n - 1] \in Int /\ n \in 0..N
      <4>1. n - 1 \in 0..N-1
        OBVIOUS
      <4> QED BY <2>2, <4>1
    <3> QED BY <1>6, <3>1
  <2> HIDE DEF D
  <2>3. \A n \in 1..N : n - 1 \in D => n \in D
    BY <2>2
  <2> QED BY <2>1, <2>3, UpTo
<1>8. c \in [0..N -> Int]
  <2>1. \A i \in 0..N : c[i] \in Int
    BY <1>7
  <2> QED BY <1>4, <2>1
<1> QED BY <1>5, <1>6, <1>8 DEF Sums

\* Sums of numbers that are in proportion, or less.
LEMMA TotalBound ==
  ASSUME NEW N \in Nat, NEW f, NEW g, NEW a \in Nat, NEW b \in Nat,
         \A i \in 0..N-1 : f[i] \in Int /\ g[i] \in Int /\ f[i] * a <= g[i] * b
  PROVE  /\ Total(f, N) \in Int /\ Total(g, N) \in Int
         /\ Total(f, N) * a <= Total(g, N) * b
<1>1. PICK s \in [0..N -> Int] : Sums(s, f, N) /\ Total(f, N) = s[N]
  BY TotalFacts
<1>2. PICK t \in [0..N -> Int] : Sums(t, g, N) /\ Total(g, N) = t[N]
  BY TotalFacts
<1> DEFINE D == {i \in 0..N : s[i] * a <= t[i] * b}
<1>3. 0 \in D
  <2>1. s[0] = 0 /\ t[0] = 0 /\ 0 * a = 0 /\ 0 * b = 0
    BY <1>1, <1>2 DEF Sums
  <2> QED BY <2>1
<1>4. ASSUME NEW n \in 1..N, n - 1 \in D PROVE n \in D
  <2>1. n - 1 \in 0..N-1 /\ n - 1 \in 0..N /\ n \in 0..N
    OBVIOUS
  <2>2. PICK u \in Int : u = s[n - 1]
    BY <2>1
  <2>3. PICK v \in Int : v = t[n - 1]
    BY <2>1
  <2>4. PICK d \in Int : d = f[n - 1]
    BY <2>1
  <2>5. PICK e \in Int : e = g[n - 1]
    BY <2>1
  <2>6. s[n] = u + d /\ t[n] = v + e
    BY <1>1, <1>2, <2>2, <2>3, <2>4, <2>5 DEF Sums
  <2>7. u * a <= v * b /\ d * a <= e * b
    BY <1>4, <2>1, <2>2, <2>3, <2>4, <2>5
  <2>8. (u + d) * a = u * a + d * a /\ (v + e) * b = v * b + e * b
    BY <2>2
  <2>9. (u + d) * a <= (v + e) * b
    BY <2>7, <2>8
  <2> QED BY <2>1, <2>6, <2>9
<1> HIDE DEF D
<1>5. N \in D
  <2>1. \A n \in 1..N : n - 1 \in D => n \in D
    BY <1>4
  <2>2. 0..N \subseteq D
    BY <1>3, <2>1, UpTo
  <2> QED BY <2>2
<1> QED BY <1>1, <1>2, <1>5 DEF D

\* Of the first N numbers of f and g only those at k may differ.
OnlyAt(k, f, g, N) == \A i \in 0..N-1 : f[i] \in Int /\ g[i] \in Int /\ (i # k => g[i] = f[i])

LEMMA TotalAdd ==
  ASSUME NEW N \in Nat, NEW f, NEW g, NEW k \in 0..N-1, OnlyAt(k, f, g, N)
  PROVE  Total(f, N) \in Int /\ Total(g, N) = Total(f, N) + (g[k] - f[k])
<1>1. PICK s \in [0..N -> Int] : Sums(s, f, N) /\ Total(f, N) = s[N]
  BY TotalFacts DEF OnlyAt
<1>2. PICK t \in [0..N -> Int] : Sums(t, g, N) /\ Total(g, N) = t[N]
  BY TotalFacts DEF OnlyAt
<1>3. PICK d \in Int : d = g[k] - f[k]
  <2>1. f[k] \in Int /\ g[k] \in Int
    BY DEF OnlyAt
  <2> QED BY <2>1
<1> DEFINE D == {i \in 0..N : t[i] = IF i <= k THEN s[i] ELSE s[i] + d}
<1>4. 0 \in D
  BY <1>1, <1>2 DEF Sums
<1>5. ASSUME NEW n \in 1..N, n - 1 \in D PROVE n \in D
  <2>1. n - 1 \in 0..N-1 /\ n - 1 \in 0..N /\ n \in 0..N
    OBVIOUS
  <2>2. s[n] = s[n - 1] + f[n - 1] /\ t[n] = t[n - 1] + g[n - 1]
    BY <1>1, <1>2 DEF Sums
  <2>3. s[n - 1] \in Int /\ t[n - 1] \in Int /\ f[n - 1] \in Int /\ g[n - 1] \in Int
    BY <2>1 DEF OnlyAt
  <2>4. t[n - 1] = (IF n - 1 <= k THEN s[n - 1] ELSE s[n - 1] + d)
    BY <1>5
  <2>5. n - 1 # k => g[n - 1] = f[n - 1]
    BY <2>1 DEF OnlyAt
  <2>6. CASE n - 1 < k
    <3>1. n <= k
      BY <2>6
    <3> QED BY <2>1, <2>2, <2>3, <2>4, <2>5, <2>6, <3>1
  <2>7. CASE n - 1 = k
    <3>1. ~(n <= k)
      BY <2>7
    <3>2. g[n - 1] = f[n - 1] + d
      BY <1>3, <2>3, <2>7
    <3>3. t[n] = s[n] + d
      BY <2>2, <2>3, <2>4, <2>7, <3>2
    <3> QED BY <2>1, <3>1, <3>3
  <2>8. CASE n - 1 > k
    <3>1. ~(n <= k)
      BY <2>8
    <3>2. t[n - 1] = s[n - 1] + d
      BY <2>4, <2>8
    <3>3. g[n - 1] = f[n - 1]
      BY <2>5, <2>8
    <3>4. t[n] = s[n] + d
      <4>1. PICK u \in Int : u = s[n - 1]
        BY <2>3
      <4>2. PICK v \in Int : v = f[n - 1]
        BY <2>3
      <4>3. t[n] = (u + d) + v /\ s[n] = u + v
        BY <2>2, <3>2, <3>3, <4>1, <4>2
      <4> QED BY <4>3
    <3> QED BY <2>1, <3>1, <3>4
  <2> QED BY <2>6, <2>7, <2>8
<1> HIDE DEF D
<1>6. N \in D
  <2>1. \A n \in 1..N : n - 1 \in D => n \in D
    BY <1>5
  <2>2. 0..N \subseteq D
    BY <1>4, <2>1, UpTo
  <2> QED BY <2>2
<1> QED BY <1>1, <1>2, <1>3, <1>6 DEF D

LEMMA TotalZero ==
  ASSUME NEW N \in Nat, NEW f, \A i \in 0..N-1 : f[i] = 0
  PROVE  Total(f, N) = 0
<1>1. PICK t \in [0..N -> Int] : Sums(t, f, N) /\ Total(f, N) = t[N]
  <2>1. \A i \in 0..N-1 : f[i] \in Int
    OBVIOUS
  <2> QED BY <2>1, TotalFacts
<1> DEFINE D == {i \in 0..N : t[i] = 0}
<1>2. 0 \in D
  BY <1>1 DEF Sums
<1>3. ASSUME NEW n \in 1..N, n - 1 \in D PROVE n \in D
  <2>1. n - 1 \in 0..N-1 /\ n \in 0..N
    OBVIOUS
  <2> QED BY <1>1, <1>3, <2>1 DEF Sums
<1> HIDE DEF D
<1>4. N \in D
  <2>1. \A n \in 1..N : n - 1 \in D => n \in D
    BY <1>3
  <2>2. 0..N \subseteq D
    BY <1>2, <2>1, UpTo
  <2> QED BY <2>2
<1> QED BY <1>1, <1>4 DEF D
-----------------------------------------------------------------------------
(***************************************************************************)
(* The router, one expert after the other (moe_ep_router).                 *)
(***************************************************************************)
\* A step of the router, which is to look at one expert more.
LEMMA InsertType ==
  ASSUME NEW in \in [Experts -> Nat \cup {NaN}], NEW e \in Experts,
         NEW s \in [Slots -> Experts \cup {NoOne}]
  PROVE  Insert(in, s, e) \in [Slots -> Experts \cup {NoOne}]
<1> SUFFICES ASSUME NEW k \in Slots, \E i \in 0..k-1 : Beats(in, e, s[i])
             PROVE  s[k - 1] \in Experts \cup {NoOne}
  BY DEF Insert
<1>1. k - 1 \in Slots
  BY ExpertsAssumption DEF Slots
<1> QED BY <1>1

\* Where the router puts an expert.
LEMMA InsertPlaces ==
  ASSUME NEW in \in [Experts -> Nat \cup {NaN}], NEW e \in Experts,
         NEW s \in [Slots -> Experts \cup {NoOne}], NEW k \in Slots
  PROVE  LET t         == Insert(in, s, e)
             Before(j) == \E i \in 0..j : Beats(in, e, s[i])
         IN  \/ /\ t[k] = s[k] /\ \A i \in 0..k : ~Beats(in, e, s[i])
             \/ /\ t[k] = e /\ Beats(in, e, s[k]) /\ \A i \in 0..k-1 : ~Beats(in, e, s[i])
             \/ /\ t[k] = s[k - 1] /\ k - 1 \in Slots
                /\ \E i \in 0..k-1 : Beats(in, e, s[i])
<1> DEFINE Before(j) == \E i \in 0..j : Beats(in, e, s[i])
<1>1. Insert(in, s, e)[k] =
        IF ~Before(k) THEN s[k] ELSE IF ~Before(k - 1) THEN e ELSE s[k - 1]
  BY DEF Insert
<1>2. k \in Nat
  BY DEF Slots
<1>3. CASE ~Before(k)
  BY <1>1, <1>3
<1>4. CASE Before(k) /\ ~Before(k - 1)
  <2>1. PICK i \in 0..k : Beats(in, e, s[i])
    BY <1>4
  <2>2. i = k
    BY <1>2, <1>4, <2>1
  <2> QED BY <1>1, <1>4, <2>1, <2>2
<1>5. CASE Before(k - 1)
  <2>1. k - 1 \in Slots
    BY <1>5, ExpertsAssumption DEF Slots
  <2>2. Before(k)
    BY <1>2, <1>5
  <2> QED BY <1>1, <1>5, <2>1, <2>2
<1> QED BY <1>3, <1>4, <1>5

\* If an expert is put nowhere, no slot is free for it or holds a lesser one.
LEMMA SomePlace ==
  ASSUME NEW in \in [Experts -> Nat \cup {NaN}], NEW e \in Experts,
         NEW s \in [Slots -> Experts \cup {NoOne}]
  PROVE  \/ \E k \in Slots : Insert(in, s, e)[k] = e
         \/ \A k \in Slots : Insert(in, s, e)[k] = s[k] /\ ~Beats(in, e, s[k])
<1> SUFFICES ASSUME \A k \in Slots : Insert(in, s, e)[k] # e
             PROVE  \A k \in Slots : Insert(in, s, e)[k] = s[k] /\ ~Beats(in, e, s[k])
  OBVIOUS
<1> DEFINE D == {k \in Slots : \A i \in 0..k : ~Beats(in, e, s[i])}
<1>1. TopK - 1 \in Nat /\ Slots = 0..TopK-1
  BY ExpertsAssumption DEF Slots
<1>2. 0 \in D
  <2>1. 0 \in Slots /\ 0 - 1 \notin Slots /\ \A i \in 0..0 : i = 0
    BY <1>1
  <2>2. ~Beats(in, e, s[0])
    BY <2>1, InsertPlaces
  <2> QED BY <2>1, <2>2
<1>3. ASSUME NEW k \in 1..TopK-1, k - 1 \in D PROVE k \in D
  <2>1. k \in Slots /\ \A i \in 0..k : i \in 0..k-1 \/ i = k
    BY <1>1
  <2>2. ~Beats(in, e, s[k])
    BY <1>3, <2>1, InsertPlaces
  <2> QED BY <1>3, <2>1, <2>2
<1> HIDE DEF D
<1>4. 0..TopK-1 \subseteq D
  <2>1. \A k \in 1..TopK-1 : k - 1 \in D => k \in D
    BY <1>3
  <2> QED BY <1>1, <1>2, <2>1, UpTo
<1> SUFFICES ASSUME NEW k \in Slots PROVE Insert(in, s, e)[k] = s[k] /\ ~Beats(in, e, s[k])
  OBVIOUS
<1>5. k \in Nat /\ \A i \in 0..k : ~Beats(in, e, s[i])
  BY <1>1, <1>4 DEF D
<1>6. k \in 0..k
  BY <1>5
<1>7. \A i \in 0..k-1 : i \in 0..k
  BY <1>5
<1> QED BY <1>5, <1>6, <1>7, InsertPlaces

\* One expert more is looked at, and the slots hold the best of those looked at.
LEMMA InsertKeeps ==
  ASSUME NEW in \in [Experts -> Nat \cup {NaN}], NEW n \in Experts,
         NEW s \in [Slots -> Experts \cup {NoOne}], Preferred(in, 0..n-1, s)
  PROVE  Preferred(in, 0..n, Insert(in, s, n))
<1> DEFINE t == Insert(in, s, n)
<1>1. /\ Slots = 0..TopK-1 /\ TopK \in Nat \ {0} /\ Experts = 0..NExperts-1 /\ NExperts \in Nat
      /\ n \in Nat /\ NoOne = -1 /\ NaN = -1
  BY ExpertsAssumption DEF Slots, Experts, NoOne, NaN
<1>2. /\ t \in [Slots -> Experts \cup {NoOne}]
      /\ \A k \in Slots :
           \/ t[k] = s[k] /\ \A i \in 0..k : ~Beats(in, n, s[i])
           \/ t[k] = n /\ Beats(in, n, s[k]) /\ \A i \in 0..k-1 : ~Beats(in, n, s[i])
           \/ t[k] = s[k - 1] /\ k - 1 \in Slots /\ \E i \in 0..k-1 : Beats(in, n, s[i])
  BY InsertType, InsertPlaces
<1>3. \/ \E k \in Slots : t[k] = n
      \/ \A k \in Slots : t[k] = s[k] /\ ~Beats(in, n, s[k])
  BY SomePlace
<1> HIDE DEF t
<1>4. \A i \in Slots : s[i] = NoOne \/ (s[i] \in 0..n-1 /\ in[s[i]] # NaN)
  BY DEF Preferred
<1>5. \A i, j \in Slots : i < j /\ s[j] # NoOne => s[i] # NoOne /\ Ahead(in, s[i], s[j])
  BY DEF Preferred
<1>6. ASSUME NEW i \in Slots, ~Beats(in, n, s[i]), in[n] # NaN
      PROVE  s[i] # NoOne /\ Ahead(in, s[i], n)
  BY <1>1, <1>4, <1>6 DEF Beats, Ahead
<1>7. ASSUME NEW i \in Slots, Beats(in, n, s[i]), s[i] # NoOne
      PROVE  Ahead(in, n, s[i])
  BY <1>7 DEF Beats, Ahead
<1>8. ASSUME NEW a \in Experts, NEW b \in Experts, NEW c \in Experts, Ahead(in, a, b), Ahead(in, b, c)
      PROVE  Ahead(in, a, c)
  <2>1. in[a] \in Int /\ in[b] \in Int /\ in[c] \in Int
    BY <1>1
  <2>2. a \in Int /\ b \in Int /\ c \in Int
    BY <1>1
  <2> QED BY <1>8, <2>1, <2>2 DEF Ahead
<1>9. \A k \in Slots : t[k] = NoOne \/ (t[k] \in 0..n /\ in[t[k]] # NaN)
  <2> SUFFICES ASSUME NEW k \in Slots PROVE t[k] = NoOne \/ (t[k] \in 0..n /\ in[t[k]] # NaN)
    OBVIOUS
  <2>1. 0..n-1 \subseteq 0..n /\ n \in 0..n
    BY <1>1
  <2>2. t[k] = s[k] \/ (t[k] = n /\ in[n] # NaN) \/ (t[k] = s[k - 1] /\ k - 1 \in Slots)
    BY <1>2 DEF Beats
  <2> QED BY <1>4, <2>1, <2>2
<1>10. ASSUME NEW i \in Slots, NEW j \in Slots, i < j, t[j] # NoOne
       PROVE  t[i] # NoOne /\ Ahead(in, t[i], t[j])
  <2>1. i \in 0..j-1 /\ \A m \in 0..i : m \in 0..j-1 /\ m \in 0..j
    BY <1>1, <1>10
  <2>2. CASE t[j] = s[j] /\ \A m \in 0..j : ~Beats(in, n, s[m])
    <3>1. t[i] = s[i]
      <4>1. i \in 0..i /\ \A m \in 0..i-1 : m \in 0..i
        BY <1>1
      <4> QED BY <1>2, <2>1, <2>2, <4>1
    <3> QED BY <1>5, <1>10, <2>2, <3>1
  <2>3. CASE t[j] = n /\ Beats(in, n, s[j]) /\ \A m \in 0..j-1 : ~Beats(in, n, s[m])
    <3>1. t[i] = s[i]
      <4>1. i \in 0..i /\ \A m \in 0..i-1 : m \in 0..i
        BY <1>1
      <4> QED BY <1>2, <2>1, <2>3, <4>1
    <3>2. ~Beats(in, n, s[i]) /\ in[n] # NaN
      BY <2>1, <2>3 DEF Beats
    <3> QED BY <1>6, <2>3, <3>1, <3>2
  <2>4. CASE t[j] = s[j - 1] /\ j - 1 \in Slots /\ \E m \in 0..j-1 : Beats(in, n, s[m])
    <3>1. CASE t[i] = s[i] /\ \A m \in 0..i : ~Beats(in, n, s[m])
      <4>1. i < j - 1
        BY <1>1, <1>10, <2>4, <3>1
      <4> QED BY <1>5, <1>10, <2>4, <3>1, <4>1
    <3>2. CASE t[i] = n /\ Beats(in, n, s[i])
      <4>1. i = j - 1 \/ i < j - 1
        BY <1>1, <1>10
      <4>2. n # NoOne
        BY <1>1
      <4>3. CASE i = j - 1
        BY <1>7, <1>10, <2>4, <3>2, <4>2, <4>3
      <4>4. CASE i < j - 1
        <5>1. s[i] # NoOne /\ Ahead(in, s[i], s[j - 1])
          BY <1>5, <1>10, <2>4, <4>4
        <5>2. Ahead(in, n, s[i])
          BY <1>7, <3>2, <5>1
        <5>3. s[i] \in Experts /\ s[j - 1] \in Experts
          BY <1>10, <2>4, <5>1
        <5> QED BY <1>8, <2>4, <3>2, <4>2, <5>1, <5>2, <5>3
      <4> QED BY <4>1, <4>3, <4>4
    <3>3. CASE t[i] = s[i - 1] /\ i - 1 \in Slots
      <4>1. i - 1 < j - 1
        BY <1>1, <1>10
      <4> QED BY <1>5, <1>10, <2>4, <3>3, <4>1
    <3> QED BY <1>2, <3>1, <3>2, <3>3
  <2> QED BY <1>2, <2>2, <2>3, <2>4
<1>11. ASSUME NEW d \in 0..n, in[d] # NaN, \A i \in Slots : t[i] # d, NEW k \in Slots
       PROVE  t[k] # NoOne /\ Ahead(in, t[k], d)
  <2>1. CASE d = n
    <3>1. t[k] = s[k] /\ ~Beats(in, n, s[k])
      BY <1>3, <1>11, <2>1
    <3> QED BY <1>6, <1>11, <2>1, <3>1
  <2>2. CASE d # n
    <3>1. d \in 0..n-1 /\ d \in Experts
      BY <1>1, <2>2
    <3>2. ASSUME NEW i \in Slots, t[k] = s[i], s[i] # d,
                 \A j \in Slots : s[j] = d => i < j
          PROVE  t[k] # NoOne /\ Ahead(in, t[k], d)
      <4>1. CASE \E j \in Slots : s[j] = d
        <5>1. PICK j \in Slots : s[j] = d /\ i < j
          BY <3>2, <4>1
        <5>2. d # NoOne
          BY <1>1
        <5> QED BY <1>5, <3>2, <5>1, <5>2
      <4>2. CASE \A j \in Slots : s[j] # d
        BY <1>11, <3>1, <3>2, <4>2 DEF Preferred
      <4> QED BY <4>1, <4>2
    \* Where s holds d, something was put before it.
    <3>3. ASSUME NEW j \in Slots, s[j] = d
          PROVE  j + 1 \notin Slots /\ \E m \in 0..j : Beats(in, n, s[m])
      <4>1. ASSUME \A m \in 0..j : ~Beats(in, n, s[m]) PROVE FALSE
        <5>1. j \in 0..j /\ \A m \in 0..j-1 : m \in 0..j
          BY <1>1
        <5>2. t[j] = s[j]
          BY <1>2, <4>1, <5>1
        <5> QED BY <1>11, <3>3, <5>2
      <4>2. ASSUME j + 1 \in Slots PROVE FALSE
        <5>1. (j + 1) - 1 = j
          BY <1>1
        <5>2. PICK m \in 0..j : Beats(in, n, s[m])
          BY <4>1
        <5>3. m \in 0..(j + 1)
          BY <1>1
        <5>4. t[j + 1] = s[j]
          BY <1>2, <4>2, <5>1, <5>2, <5>3
        <5> QED BY <1>11, <3>3, <4>2, <5>4
      <4> QED BY <4>1, <4>2
    <3>4. CASE t[k] = s[k] /\ \A m \in 0..k : ~Beats(in, n, s[m])
      <4>1. ASSUME NEW j \in Slots, s[j] = d PROVE k < j
        <5>1. PICK m \in 0..j : Beats(in, n, s[m])
          BY <3>3, <4>1
        <5>2. m \notin 0..k
          BY <3>4, <5>1
        <5> QED BY <1>1, <5>1, <5>2
      <4>2. s[k] # d
        BY <1>11, <3>4
      <4> QED BY <3>2, <3>4, <4>1, <4>2
    <3>5. CASE t[k] = n /\ Beats(in, n, s[k])
      <4>1. n # NoOne
        BY <1>1
      <4>2. CASE s[k] = d
        <5>1. d # NoOne
          BY <1>1
        <5> QED BY <1>7, <3>5, <4>1, <4>2, <5>1
      <4>3. CASE s[k] # d
        <5>1. ASSUME NEW j \in Slots, s[j] = d PROVE k < j
          <6>1. j + 1 \notin Slots
            BY <3>3, <5>1
          <6>2. k # j
            BY <4>3, <5>1
          <6> QED BY <1>1, <6>1, <6>2
        <5>2. s[k] # NoOne /\ Ahead(in, s[k], d)
          <6>1. CASE \E j \in Slots : s[j] = d
            <7>1. PICK j \in Slots : s[j] = d /\ k < j
              BY <5>1, <6>1
            <7>2. d # NoOne
              BY <1>1
            <7> QED BY <1>5, <7>1, <7>2
          <6>2. CASE \A j \in Slots : s[j] # d
            BY <1>11, <3>1, <6>2 DEF Preferred
          <6> QED BY <6>1, <6>2
        <5>3. Ahead(in, n, s[k]) /\ s[k] \in Experts
          BY <1>7, <3>5, <5>2
        <5> QED BY <1>8, <3>1, <3>5, <4>1, <5>2, <5>3
      <4> QED BY <4>2, <4>3
    <3>6. CASE t[k] = s[k - 1] /\ k - 1 \in Slots
      <4>1. ASSUME NEW j \in Slots, s[j] = d PROVE k - 1 < j
        <5>1. j + 1 \notin Slots
          BY <3>3, <4>1
        <5> QED BY <1>1, <5>1
      <4>2. s[k - 1] # d
        BY <1>11, <3>6
      <4> QED BY <3>2, <3>6, <4>1, <4>2
    <3> QED BY <1>2, <3>4, <3>5, <3>6
  <2> QED BY <2>1, <2>2
<1> QED BY <1>9, <1>10, <1>11 DEF Preferred, t

\* The router finds the experts a single process would use (moe_ep_router), whatever the
\* logits are.
LEMMA RouteRight ==
  ASSUME NEW in \in [Experts -> Nat \cup {NaN}]
  PROVE  Preferred(in, Experts, Route(in)) /\ Route(in) \in [Slots -> Experts \cup {NoOne}]
<1> DEFINE T == [Slots -> Experts \cup {NoOne}]
           b == [k \in Slots |-> NoOne]
           g == [n \in 1..NExperts |-> [s \in T |-> Insert(in, s, n - 1)]]
           c == CHOOSE best : best = [n \in 0..NExperts |->
                                        IF n = 0 THEN b ELSE Insert(in, best[n - 1], n - 1)]
<1>1. NExperts \in Nat /\ Experts = 0..NExperts-1
  BY ExpertsAssumption DEF Experts
<1>2. b \in T
  OBVIOUS
<1>3. g \in [1..NExperts -> [T -> T]]
  <2>1. ASSUME NEW n \in 1..NExperts, NEW s \in T PROVE Insert(in, s, n - 1) \in T
    <3>1. n - 1 \in Experts
      BY <1>1
    <3> QED BY <3>1, InsertType
  <2> QED BY <2>1
<1>4. PICK f \in [0..NExperts -> T] : Steps(f, NExperts, b, g)
  <2>1. NExperts \in Nat
    BY <1>1
  <2> HIDE DEF T, b, g, c
  <2> QED BY <2>1, <1>2, <1>3, Iterated
<1>5. f = [n \in 0..NExperts |-> IF n = 0 THEN b ELSE Insert(in, f[n - 1], n - 1)]
  <2>1. ASSUME NEW n \in 0..NExperts, n # 0 PROVE f[n] = Insert(in, f[n - 1], n - 1)
    <3>1. n \in 1..NExperts /\ n - 1 \in 0..NExperts
      BY <1>1, <2>1
    <3> HIDE DEF T
    <3>2. f[n - 1] \in T
      BY <3>1
    <3> QED BY <1>4, <3>1, <3>2 DEF Steps
  <2> HIDE DEF g, b
  <2> QED BY <1>4, <2>1 DEF Steps
<1>6. c = [n \in 0..NExperts |-> IF n = 0 THEN b ELSE Insert(in, c[n - 1], n - 1)]
  <2> HIDE DEF b
  <2> QED BY <1>5
<1>7. Route(in) = c[NExperts]
  BY DEF Route
<1> HIDE DEF c, g
<1> DEFINE D == {n \in 0..NExperts : c[n] \in T /\ Preferred(in, 0..n-1, c[n])}
<1>8. 0 \in D
  <2>1. c[0] = b /\ 0..0-1 = {}
    BY <1>1, <1>6
  <2>2. Preferred(in, {}, b)
    BY DEF Preferred
  <2> QED BY <1>1, <1>2, <2>1, <2>2
<1>9. ASSUME NEW n \in 1..NExperts, n - 1 \in D PROVE n \in D
  <2>1. c[n] = Insert(in, c[n - 1], n - 1)
    BY <1>1, <1>6
  <2>2. n - 1 \in Experts /\ c[n - 1] \in T /\ Preferred(in, 0..(n-1)-1, c[n - 1])
    BY <1>1, <1>9
  <2> HIDE DEF T
  <2>3. c[n] \in T
    BY <2>1, <2>2, InsertType DEF T
  <2>4. Preferred(in, 0..n-1, c[n])
    BY <2>1, <2>2, InsertKeeps DEF T
  <2> QED BY <2>3, <2>4
<1>10. NExperts \in D
  <2> HIDE DEF D
  <2>1. \A n \in 1..NExperts : n - 1 \in D => n \in D
    BY <1>9
  <2>2. 0..NExperts \subseteq D
    BY <1>1, <1>8, <2>1, UpTo
  <2> QED BY <1>1, <2>2
<1> QED BY <1>1, <1>7, <1>10
-----------------------------------------------------------------------------
(***************************************************************************)
(* The table of EPLB (st_moe_ep_eplb_build).                               *)
(***************************************************************************)
\* Of some numbers up to N one comes before all others.
LEMMA BestExists ==
  ASSUME NEW N \in Nat, NEW T \in SUBSET (0..N), T # {}, NEW R,
         \A a, b \in T : <<a, b>> \in R \/ <<b, a>> \in R,
         \A a, b, c \in T : <<a, b>> \in R /\ <<b, c>> \in R => <<a, c>> \in R
  PROVE  \E b \in T : \A q \in T : <<b, q>> \in R
<1> DEFINE Up(m) == {q \in T : q <= m}
           D == {m \in 0..N : Up(m) = {} \/ \E b \in Up(m) : \A q \in Up(m) : <<b, q>> \in R}
<1>0. \A q \in T : q \in Nat /\ q <= N
  OBVIOUS
<1>1. 0 \in D
  <2>1. \A q \in Up(0) : q = 0
    BY <1>0
  <2>2. Up(0) \subseteq T
    OBVIOUS
  <2>3. \A b, q \in Up(0) : <<b, q>> \in R
    <3> HIDE DEF Up
    <3> QED BY <2>1, <2>2
  <2> HIDE DEF Up
  <2>4. Up(0) = {} \/ \E b \in Up(0) : \A q \in Up(0) : <<b, q>> \in R
    BY <2>3
  <2>5. 0 \in 0..N
    OBVIOUS
  <2> QED BY <2>4, <2>5
<1>2. ASSUME NEW m \in 1..N, m - 1 \in D PROVE m \in D
  <2>1. m \in 0..N /\ \A q \in Up(m) : q \in Up(m - 1) \/ q = m
    BY <1>0
  <2>2. Up(m - 1) \subseteq Up(m) /\ Up(m) \subseteq T
    <3>1. \A q \in T : q <= m - 1 => q <= m
      BY <1>0
    <3> QED BY <3>1
  <2>3. CASE m \notin T
    <3>1. Up(m) = Up(m - 1)
      BY <2>1, <2>2, <2>3
    <3> QED BY <1>2, <2>1, <3>1
  <2>4. CASE m \in T /\ Up(m - 1) = {}
    <3>1. m \in Up(m) /\ \A q \in Up(m) : q = m
      BY <2>1, <2>4
    <3>2. <<m, m>> \in R
      BY <2>4
    <3> QED BY <2>1, <3>1, <3>2
  <2>5. CASE m \in T /\ Up(m - 1) # {}
    <3>1. PICK b \in Up(m - 1) : \A q \in Up(m - 1) : <<b, q>> \in R
      BY <1>2, <2>5
    <3>2. m \in Up(m) /\ b \in Up(m) /\ b \in T
      BY <2>2, <2>5
    <3> HIDE DEF Up
    <3>3. CASE <<b, m>> \in R
      <4>1. \A q \in Up(m) : <<b, q>> \in R
        BY <2>1, <3>1, <3>3
      <4> QED BY <2>1, <3>2, <4>1
    <3>4. CASE <<m, b>> \in R
      <4>1. <<m, m>> \in R
        BY <2>5
      <4>2. ASSUME NEW q \in Up(m) PROVE <<m, q>> \in R
        <5>1. CASE q = m
          BY <4>1, <5>1
        <5>2. CASE q \in Up(m - 1)
          <6>1. <<b, q>> \in R /\ q \in T
            BY <2>2, <3>1, <5>2
          <6> QED BY <2>5, <3>2, <3>4, <6>1
        <5> QED BY <2>1, <5>1, <5>2
      <4> QED BY <2>1, <3>2, <4>2
    <3> QED BY <2>5, <3>2, <3>3, <3>4
  <2> QED BY <2>3, <2>4, <2>5
<1>3. Up(N) = T
  BY <1>0
<1> HIDE DEF D
<1>4. N \in D
  <2>1. \A m \in 1..N : m - 1 \in D => m \in D
    BY <1>2
  <2>2. 0..N \subseteq D
    BY <1>1, <2>1, UpTo
  <2> QED BY <2>2
<1> QED BY <1>3, <1>4 DEF D

\* The rank that is less busy for its power than one that is less busy than a third.
LEMMA Cross ==
  ASSUME NEW a \in Nat, NEW b \in Nat, NEW c \in Nat,
         NEW p \in Nat \ {0}, NEW q \in Nat \ {0}, NEW r \in Nat \ {0},
         a * q <= b * p, b * r <= c * q
  PROVE  /\ a * r <= c * p
         /\ a * q < b * p \/ b * r < c * q => a * r < c * p
<1>1. (a * q) * r <= (b * p) * r /\ (a * q < b * p => (a * q) * r < (b * p) * r)
  <2>1. PICK u \in Nat : u = a * q
    OBVIOUS
  <2>2. PICK v \in Nat : v = b * p
    OBVIOUS
  <2>3. u * r <= v * r /\ (u < v => u * r < v * r)
    BY <2>1, <2>2
  <2> QED BY <2>1, <2>2, <2>3
<1>2. (b * r) * p <= (c * q) * p /\ (b * r < c * q => (b * r) * p < (c * q) * p)
  <2>1. PICK u \in Nat : u = b * r
    OBVIOUS
  <2>2. PICK v \in Nat : v = c * q
    OBVIOUS
  <2>3. u * p <= v * p /\ (u < v => u * p < v * p)
    BY <2>1, <2>2
  <2> QED BY <2>1, <2>2, <2>3
<1>3. /\ (a * q) * r = (a * r) * q /\ (b * p) * r = (b * r) * p /\ (c * q) * p = (c * p) * q
  OBVIOUS
<1>4. PICK u \in Nat : u = a * r
  OBVIOUS
<1>5. PICK v \in Nat : v = c * p
  OBVIOUS
<1>6. u * q <= v * q /\ (a * q < b * p \/ b * r < c * q => u * q < v * q)
  <2>1. PICK i \in Nat : i = (a * q) * r
    OBVIOUS
  <2>2. PICK j \in Nat : j = (b * p) * r
    OBVIOUS
  <2>3. PICK k \in Nat : k = (c * q) * p
    OBVIOUS
  <2>4. i <= j /\ j <= k /\ (a * q < b * p \/ b * r < c * q => i < k)
    BY <1>1, <1>2, <1>3, <2>1, <2>2, <2>3
  <2> QED BY <1>3, <1>4, <1>5, <2>1, <2>3, <2>4
<1>7. (u * q <= v * q => u <= v) /\ (u * q < v * q => u < v)
  OBVIOUS
<1> QED BY <1>4, <1>5, <1>6, <1>7

\* There is a least busy rank, and its work is no more for its power than any other's.
LEMMA LeastBusyFacts ==
  ASSUME NEW n \in Nat \ {0}, NEW acc \in [0..n-1 -> Nat], NEW cap,
         \A r \in 0..n-1 : cap[r] \in Nat \ {0}
  PROVE  /\ LeastBusy(acc, cap, n) \in 0..n-1
         /\ \A q \in 0..n-1 : acc[LeastBusy(acc, cap, n)] * cap[q]
                                <= acc[q] * cap[LeastBusy(acc, cap, n)]
<1> DEFINE Ranks == 0..n-1
           R == {z \in Ranks \X Ranks : LessBusy(acc, cap, z[1], z[2])}
<1>1. \A a, b \in Ranks : <<a, b>> \in R <=> LessBusy(acc, cap, a, b)
  OBVIOUS
<1>2. ASSUME NEW a \in Ranks, NEW b \in Ranks
      PROVE  LessBusy(acc, cap, a, b) \/ LessBusy(acc, cap, b, a)
  <2>1. acc[a] * cap[b] \in Nat /\ acc[b] * cap[a] \in Nat
    OBVIOUS
  <2> QED BY <2>1 DEF LessBusy
<1>3. ASSUME NEW a \in Ranks, NEW b \in Ranks, NEW c \in Ranks,
             LessBusy(acc, cap, a, b), LessBusy(acc, cap, b, c)
      PROVE  LessBusy(acc, cap, a, c)
  <2>1. PICK u \in Nat : u = acc[a]
    OBVIOUS
  <2>2. PICK v \in Nat : v = acc[b]
    OBVIOUS
  <2>3. PICK w \in Nat : w = acc[c]
    OBVIOUS
  <2>4. PICK p \in Nat \ {0} : p = cap[a]
    OBVIOUS
  <2>5. PICK q \in Nat \ {0} : q = cap[b]
    OBVIOUS
  <2>6. PICK z \in Nat \ {0} : z = cap[c]
    OBVIOUS
  <2>7. u * q < v * p \/ (u * q = v * p /\ a <= b)
    BY <1>3, <2>1, <2>2, <2>4, <2>5 DEF LessBusy
  <2>8. v * z < w * q \/ (v * z = w * q /\ b <= c)
    BY <1>3, <2>2, <2>3, <2>5, <2>6 DEF LessBusy
  <2>9. u * q \in Nat /\ v * p \in Nat /\ v * z \in Nat /\ w * q \in Nat /\ u * z \in Nat /\ w * p \in Nat
    OBVIOUS
  <2>10. u * q <= v * p /\ v * z <= w * q
    BY <2>7, <2>8, <2>9
  <2>11. u * z <= w * p /\ (u * q < v * p \/ v * z < w * q => u * z < w * p)
    BY <2>10, Cross
  <2>12. a <= b /\ b <= c => a <= c
    OBVIOUS
  <2>13. u * z < w * p \/ (u * z = w * p /\ a <= c)
    BY <2>7, <2>8, <2>9, <2>11, <2>12
  <2> QED BY <2>1, <2>3, <2>4, <2>6, <2>13 DEF LessBusy
<1>4. \E r \in Ranks : \A q \in Ranks : LessBusy(acc, cap, r, q)
  <2>1. n - 1 \in Nat /\ Ranks # {} /\ Ranks \in SUBSET (0..n-1)
    <3>1. n - 1 \in Nat
      OBVIOUS
    <3>2. 0 \in Ranks
      BY <3>1
    <3> QED BY <3>1, <3>2
  <2>2. \A a, b \in Ranks : <<a, b>> \in R \/ <<b, a>> \in R
    BY <1>1, <1>2
  <2>3. \A a, b, c \in Ranks : <<a, b>> \in R /\ <<b, c>> \in R => <<a, c>> \in R
    BY <1>1, <1>3
  <2> HIDE DEF R
  <2>4. \E r \in Ranks : \A q \in Ranks : <<r, q>> \in R
    <3> HIDE DEF Ranks
    <3> QED BY <2>1, <2>2, <2>3, BestExists
  <2> QED BY <1>1, <2>4
<1>5. /\ LeastBusy(acc, cap, n) \in Ranks
      /\ \A q \in Ranks : LessBusy(acc, cap, LeastBusy(acc, cap, n), q)
  BY <1>4 DEF LeastBusy
<1> DEFINE r == LeastBusy(acc, cap, n)
<1>6. ASSUME NEW q \in Ranks PROVE acc[r] * cap[q] <= acc[q] * cap[r]
  <2> HIDE DEF r
  <2>1. r \in Ranks /\ LessBusy(acc, cap, r, q)
    BY <1>5 DEF r
  <2>2. acc[r] * cap[q] \in Nat /\ acc[q] * cap[r] \in Nat
    BY <2>1
  <2> QED BY <2>1, <2>2 DEF LessBusy
<1> QED BY <1>5, <1>6

LEMMA BusiestFacts ==
  ASSUME NEW load \in [Experts -> Nat], NEW S \in SUBSET Experts, S # {}
  PROVE  Busiest(load, S) \in S /\ \A d \in S : load[Busiest(load, S)] >= load[d]
<1> DEFINE Best(e, d) == load[e] > load[d] \/ (load[e] = load[d] /\ e <= d)
           R == {z \in S \X S : Best(z[1], z[2])}
<1>1. \A a, b \in S : <<a, b>> \in R <=> Best(a, b)
  OBVIOUS
<1>2. \A a \in S : load[a] \in Nat /\ a \in Nat
  BY DEF Experts
<1>3. \A a, b \in S : <<a, b>> \in R \/ <<b, a>> \in R
  <2>1. \A a, b \in S : Best(a, b) \/ Best(b, a)
    BY <1>2
  <2> QED BY <1>1, <2>1
<1>4. \A a, b, c \in S : <<a, b>> \in R /\ <<b, c>> \in R => <<a, c>> \in R
  BY <1>1, <1>2
<1>5. \E e \in S : \A d \in S : Best(e, d)
  <2>1. S \in SUBSET (0..NExperts) /\ NExperts \in Nat
    BY ExpertsAssumption DEF Experts
  <2> HIDE DEF R
  <2>2. \E e \in S : \A d \in S : <<e, d>> \in R
    BY <1>3, <1>4, <2>1, BestExists
  <2> QED BY <1>1, <2>2
<1>6. /\ Busiest(load, S) \in S
      /\ \A d \in S : Best(Busiest(load, S), d)
  BY <1>5 DEF Busiest
<1> QED BY <1>2, <1>6

\* The loads of the experts that have been given, to rank r or to any.
GivenTo(p, s, r) == [e \in Experts |-> IF e \notin s.free /\ s.own[e] = r THEN p.load[e] ELSE 0]
GivenLoad(p, s)  == [e \in Experts |-> IF e \notin s.free THEN p.load[e] ELSE 0]

\* After i experts have been given to n ranks: the busier came first, and no rank has more
\* than its share of all the work but for any one of its experts.
Handed(p, n, s, i) ==
  /\ s \in [free : SUBSET Experts, own : [Experts -> 0..n-1], acc : [0..n-1 -> Nat]]
  /\ Cardinality(s.free) = NExperts - i
  /\ \A e \in Experts \ s.free, d \in s.free : p.load[e] >= p.load[d]
  /\ \A r \in 0..n-1 : s.acc[r] = Total(GivenTo(p, s, r), NExperts)
  /\ Total(s.acc, n) = Total(GivenLoad(p, s), NExperts)
  /\ \A e \in Experts \ s.free :
       (s.acc[s.own[e]] - p.load[e]) * Total(p.cap, n) <= Total(p.load, NExperts) * p.cap[s.own[e]]

LEMMA ExpertRange == NExperts \in Nat /\ Experts = 0..NExperts-1 /\ IsFiniteSet(Experts)
                     /\ Cardinality(Experts) = NExperts
<1>1. NExperts \in Nat /\ Experts = 0..NExperts-1
  BY ExpertsAssumption DEF Experts
<1>2. IsFiniteSet(0..NExperts-1)
      /\ Cardinality(0..NExperts-1) = IF 0 > NExperts - 1 THEN 0 ELSE (NExperts - 1) - 0 + 1
  BY <1>1, FS_Interval
<1> QED BY <1>1, <1>2

LEMMA GiveKeeps ==
  ASSUME NEW p, p.load \in [Experts -> Nat], NEW n \in Nat \ {0},
         \A r \in 0..n-1 : p.cap[r] \in Nat \ {0},
         NEW i \in 1..NExperts, NEW s, Handed(p, n, s, i - 1)
  PROVE  Handed(p, n, Give(p, n, s), i)
<1> DEFINE e == Busiest(p.load, s.free)
           r == LeastBusy(s.acc, p.cap, n)
           t == Give(p, n, s)
<1>1. /\ s \in [free : SUBSET Experts, own : [Experts -> 0..n-1], acc : [0..n-1 -> Nat]]
      /\ Cardinality(s.free) = NExperts - (i - 1)
      /\ \A c \in Experts \ s.free, d \in s.free : p.load[c] >= p.load[d]
      /\ \A q \in 0..n-1 : s.acc[q] = Total(GivenTo(p, s, q), NExperts)
      /\ Total(s.acc, n) = Total(GivenLoad(p, s), NExperts)
  BY DEF Handed
<1>2. /\ t.free = s.free \ {e} /\ t.own = [s.own EXCEPT ![e] = r]
      /\ t.acc = [s.acc EXCEPT ![r] = @ + p.load[e]]
      /\ t = [free |-> t.free, own |-> t.own, acc |-> t.acc]
  BY DEF Give
<1>3. e \in s.free /\ e \in Experts /\ \A d \in s.free : p.load[e] >= p.load[d]
  <2>1. s.free \in SUBSET Experts
    BY <1>1
  <2>2. s.free # {}
    <3> SUFFICES ASSUME s.free = {} PROVE FALSE
      OBVIOUS
    <3>1. Cardinality(s.free) = 0
      BY FS_EmptySet
    <3> QED BY <1>1, <3>1, ExpertRange
  <2>3. e \in s.free /\ \A d \in s.free : p.load[e] >= p.load[d]
    BY <2>1, <2>2, BusiestFacts
  <2> HIDE DEF e
  <2> QED BY <2>1, <2>3
<1>4. r \in 0..n-1 /\ \A q \in 0..n-1 : s.acc[r] * p.cap[q] <= s.acc[q] * p.cap[r]
  <2>1. s.acc \in [0..n-1 -> Nat]
    BY <1>1
  <2> QED BY <2>1, LeastBusyFacts
<1> HIDE DEF e, r, t
<1>5. PICK L \in Nat : L = p.load[e]
  BY <1>3
<1>6. PICK A \in Nat : A = s.acc[r]
  BY <1>1, <1>4
<1>7. /\ s.own \in [Experts -> 0..n-1] /\ s.acc \in [0..n-1 -> Nat] /\ s.free \in SUBSET Experts
  BY <1>1
<1>8. /\ t.own[e] = r /\ \A d \in Experts : d # e => t.own[d] = s.own[d]
      /\ t.acc[r] = A + L /\ \A q \in 0..n-1 : q # r => t.acc[q] = s.acc[q]
      /\ \A d \in Experts : d \in t.free <=> d \in s.free /\ d # e
      /\ t.own \in [Experts -> 0..n-1] /\ t.acc \in [0..n-1 -> Nat] /\ t.free \in SUBSET Experts
  <2>1. A + L \in Nat
    OBVIOUS
  <2> QED BY <1>2, <1>3, <1>4, <1>5, <1>6, <1>7, <2>1
<1>9. t \in [free : SUBSET Experts, own : [Experts -> 0..n-1], acc : [0..n-1 -> Nat]]
  BY <1>2, <1>8
<1>10. Cardinality(t.free) = NExperts - i
  <2>1. IsFiniteSet(s.free)
    BY <1>7, ExpertRange, FS_Subset
  <2>2. Cardinality(s.free \ {e}) = Cardinality(s.free) - 1
    BY <1>3, <2>1, FS_RemoveElement
  <2> QED BY <1>1, <1>2, <2>2, ExpertRange
<1>11. \A c \in Experts \ t.free, d \in t.free : p.load[c] >= p.load[d]
  <2> SUFFICES ASSUME NEW c \in Experts \ t.free, NEW d \in t.free PROVE p.load[c] >= p.load[d]
    OBVIOUS
  <2>1. d \in s.free /\ (c \in Experts \ s.free \/ c = e)
    BY <1>8
  <2> QED BY <1>1, <1>3, <2>1
<1>12. ASSUME NEW q \in 0..n-1 PROVE t.acc[q] = Total(GivenTo(p, t, q), NExperts)
  <2>1. CASE q = r
    <3> DEFINE f == GivenTo(p, s, r)
               g == GivenTo(p, t, r)
    <3>1. ASSUME NEW d \in Experts PROVE f[d] \in Int /\ g[d] = IF d = e THEN f[d] + L ELSE f[d]
      <4>1. p.load[d] \in Nat
        OBVIOUS
      <4>2. f[d] = (IF d \notin s.free /\ s.own[d] = r THEN p.load[d] ELSE 0)
            /\ g[d] = (IF d \notin t.free /\ t.own[d] = r THEN p.load[d] ELSE 0)
        BY DEF GivenTo
      <4>3. CASE d = e
        BY <1>3, <1>5, <1>8, <4>1, <4>2, <4>3
      <4>4. CASE d # e
        BY <1>8, <4>1, <4>2, <4>4
      <4> QED BY <4>3, <4>4
    <3> HIDE DEF f, g
    <3>2. Total(g, NExperts) = Total(f, NExperts) + L
      <4>1. OnlyAt(e, f, g, NExperts) /\ f[e] \in Int /\ g[e] = f[e] + L
        BY <1>3, <3>1, ExpertRange DEF OnlyAt
      <4>2. e \in 0..NExperts-1 /\ NExperts \in Nat /\ L \in Int
        BY <1>3, ExpertRange
      <4> QED BY <4>1, <4>2, TotalAdd
    <3> QED BY <1>1, <1>4, <1>6, <1>8, <2>1, <3>2 DEF f, g
  <2>2. CASE q # r
    <3>1. GivenTo(p, t, q) = GivenTo(p, s, q)
      <4>1. ASSUME NEW d \in Experts
            PROVE  (d \notin t.free /\ t.own[d] = q) <=> (d \notin s.free /\ s.own[d] = q)
        BY <1>3, <1>8, <2>2
      <4> QED BY <4>1 DEF GivenTo
    <3> QED BY <1>1, <1>8, <2>2, <3>1
  <2> QED BY <2>1, <2>2
<1>13. Total(t.acc, n) = Total(GivenLoad(p, t), NExperts)
  <2>1. Total(t.acc, n) = Total(s.acc, n) + L
    <3>1. OnlyAt(r, s.acc, t.acc, n) /\ s.acc[r] \in Int /\ t.acc[r] = s.acc[r] + L
      <4>1. \A q \in 0..n-1 : s.acc[q] \in Int /\ t.acc[q] \in Int /\ (q # r => t.acc[q] = s.acc[q])
        BY <1>7, <1>8
      <4> QED BY <1>4, <1>6, <1>8, <4>1 DEF OnlyAt
    <3>2. n \in Nat /\ L \in Int
      OBVIOUS
    <3> QED BY <1>4, <3>1, <3>2, TotalAdd
  <2> DEFINE f == GivenLoad(p, s)
             g == GivenLoad(p, t)
  <2>2. ASSUME NEW d \in Experts PROVE f[d] \in Int /\ g[d] = IF d = e THEN f[d] + L ELSE f[d]
    <3>1. p.load[d] \in Nat
      OBVIOUS
    <3>2. f[d] = (IF d \notin s.free THEN p.load[d] ELSE 0)
          /\ g[d] = (IF d \notin t.free THEN p.load[d] ELSE 0)
      BY DEF GivenLoad
    <3>3. CASE d = e
      BY <1>3, <1>5, <1>8, <3>1, <3>2, <3>3
    <3>4. CASE d # e
      BY <1>8, <3>1, <3>2, <3>4
    <3> QED BY <3>3, <3>4
  <2> HIDE DEF f, g
  <2>3. Total(g, NExperts) = Total(f, NExperts) + L
    <3>1. OnlyAt(e, f, g, NExperts) /\ f[e] \in Int /\ g[e] = f[e] + L
      BY <1>3, <2>2, ExpertRange DEF OnlyAt
    <3>2. e \in 0..NExperts-1 /\ NExperts \in Nat /\ L \in Int
      BY <1>3, ExpertRange
    <3> QED BY <3>1, <3>2, TotalAdd
  <2> QED BY <1>1, <2>1, <2>3 DEF f, g
\* What the rank had before is no more than its share.
<1>14. PICK P \in Nat : P = Total(p.cap, n)
  <2>1. \A q \in 0..n-1 : p.cap[q] \in Int /\ p.cap[q] \in Int /\ p.cap[q] * 1 <= p.cap[q] * 1
    OBVIOUS
  <2>2. n \in Nat /\ 1 \in Nat /\ 0 \in Nat
    OBVIOUS
  <2>3. \A q \in 0..n-1 : p.cap[q] * 0 <= p.cap[q] * 1
    OBVIOUS
  <2>4. Total(p.cap, n) \in Int /\ Total(p.cap, n) * 0 <= Total(p.cap, n) * 1
    BY <2>1, <2>2, <2>3, TotalBound
  <2> QED BY <2>4
<1>15. PICK S \in Int : S = Total(s.acc, n)
  <2>1. \A q \in 0..n-1 : s.acc[q] \in Int /\ s.acc[q] * 1 <= s.acc[q] * 1
    BY <1>7
  <2>2. n \in Nat /\ 1 \in Nat
    OBVIOUS
  <2>3. Total(s.acc, n) \in Int
    BY <2>1, <2>2, TotalBound
  <2> QED BY <2>3
<1>16. PICK T \in Int : T = Total(p.load, NExperts) /\ S <= T
  <2> DEFINE f == GivenLoad(p, s)
  <2>1. ASSUME NEW d \in Experts PROVE f[d] \in Int /\ p.load[d] \in Int /\ f[d] * 1 <= p.load[d] * 1
    <3>1. p.load[d] \in Nat /\ f[d] = (IF d \notin s.free THEN p.load[d] ELSE 0)
      BY DEF GivenLoad
    <3> HIDE DEF f
    <3> QED BY <3>1
  <2> HIDE DEF f
  <2>2. \A d \in 0..NExperts-1 : f[d] \in Int /\ p.load[d] \in Int /\ f[d] * 1 <= p.load[d] * 1
    BY <2>1, ExpertRange
  <2>3. NExperts \in Nat /\ 1 \in Nat
    BY ExpertRange
  <2>4. /\ Total(f, NExperts) \in Int /\ Total(p.load, NExperts) \in Int
        /\ Total(f, NExperts) * 1 <= Total(p.load, NExperts) * 1
    BY <2>2, <2>3, TotalBound
  <2>5. S = Total(f, NExperts)
    BY <1>1, <1>15 DEF f
  <2> QED BY <2>4, <2>5
<1>17. PICK C \in Nat : C = p.cap[r]
  BY <1>4
<1>18. A * P <= T * C
  <2>1. \A q \in 0..n-1 : p.cap[q] \in Int /\ s.acc[q] \in Int /\ p.cap[q] * A <= s.acc[q] * C
    <3> SUFFICES ASSUME NEW q \in 0..n-1
                 PROVE  p.cap[q] \in Int /\ s.acc[q] \in Int /\ p.cap[q] * A <= s.acc[q] * C
      OBVIOUS
    <3>1. PICK u \in Nat : u = p.cap[q]
      OBVIOUS
    <3>2. PICK v \in Nat : v = s.acc[q]
      BY <1>7
    <3>3. A * u <= v * C
      BY <1>4, <1>6, <1>17, <3>1, <3>2
    <3>4. A * u = u * A
      OBVIOUS
    <3> QED BY <3>1, <3>2, <3>3, <3>4
  <2>2. n \in Nat
    OBVIOUS
  <2>3. Total(p.cap, n) * A <= Total(s.acc, n) * C
    BY <2>1, <2>2, TotalBound
  <2>4. P * A <= S * C
    BY <1>14, <1>15, <2>3
  <2>5. S * C <= T * C
    BY <1>16
  <2>6. P * A = A * P /\ P * A \in Int /\ S * C \in Int /\ T * C \in Int
    OBVIOUS
  <2> QED BY <2>4, <2>5, <2>6
<1>19. ASSUME NEW d \in Experts \ t.free
       PROVE  (t.acc[t.own[d]] - p.load[d]) * Total(p.cap, n)
                <= Total(p.load, NExperts) * p.cap[t.own[d]]
  <2>1. d \in Experts /\ (d = e \/ (d \notin s.free /\ d # e /\ t.own[d] = s.own[d]))
    BY <1>8
  <2>2. CASE t.own[d] = r
    <3>1. PICK l \in Nat : l = p.load[d] /\ l >= L
      BY <1>1, <1>3, <1>5, <2>1
    <3>2. (A + L) - l <= A
      BY <3>1
    <3>3. PICK u \in Int : u = (A + L) - l
      OBVIOUS
    <3>4. u * P <= A * P
      BY <3>2, <3>3
    <3>5. u * P \in Int /\ A * P \in Int /\ T * C \in Int
      OBVIOUS
    <3>6. u * P <= T * C
      BY <1>18, <3>4, <3>5
    <3> QED BY <1>8, <1>14, <1>16, <1>17, <2>2, <3>1, <3>3, <3>6
  <2>3. CASE t.own[d] # r
    <3>1. d \in Experts \ s.free /\ t.own[d] = s.own[d]
      BY <1>8, <2>1, <2>3
    <3>2. t.acc[t.own[d]] = s.acc[s.own[d]]
      BY <1>7, <1>8, <2>3, <3>1
    <3>3. (s.acc[s.own[d]] - p.load[d]) * Total(p.cap, n)
            <= Total(p.load, NExperts) * p.cap[s.own[d]]
      BY <3>1 DEF Handed
    <3> QED BY <3>1, <3>2, <3>3
  <2> QED BY <2>2, <2>3
<1>20. /\ \A q \in 0..n-1 : t.acc[q] = Total(GivenTo(p, t, q), NExperts)
       /\ \A d \in Experts \ t.free : (t.acc[t.own[d]] - p.load[d]) * Total(p.cap, n)
                                       <= Total(p.load, NExperts) * p.cap[t.own[d]]
  BY <1>12, <1>19
<1>21. Handed(p, n, t, i)
  BY <1>9, <1>10, <1>11, <1>13, <1>20 DEF Handed
<1> QED BY <1>21 DEF t

\* The table of EPLB (st_moe_ep_eplb_build) gives every expert to a rank, and evenly.
LEMMA BalancedRight ==
  ASSUME NEW p, p.load \in [Experts -> Nat], NEW n \in Nat \ {0},
         \A r \in 0..n-1 : p.cap[r] \in Nat \ {0}
  PROVE  Balanced(p, n) \in [Experts -> 0..n-1] /\ EvenlyGiven(p, n, Balanced(p, n))
<1> DEFINE R == [free : SUBSET Experts, own : [Experts -> 0..n-1], acc : [0..n-1 -> Nat]]
           b == [free |-> Experts, own |-> [e \in Experts |-> 0], acc |-> [r \in 0..n-1 |-> 0]]
           Good(i) == {s \in R : Handed(p, n, s, i)}
           g == [i \in 1..NExperts |-> [s \in R |-> IF s \in Good(i - 1) THEN Give(p, n, s) ELSE b]]
           c == CHOOSE given : given =
                  [i \in 0..NExperts |-> IF i = 0 THEN b ELSE Give(p, n, given[i - 1])]
<1>1. b \in R
  <2>1. 0 \in 0..n-1 /\ 0 \in Nat
    OBVIOUS
  <2> QED BY <2>1
<1>2. b \in Good(0)
  <2>1. Cardinality(b.free) = NExperts - 0
    BY ExpertRange
  <2>2. ASSUME NEW r \in 0..n-1 PROVE b.acc[r] = Total(GivenTo(p, b, r), NExperts)
    <3> DEFINE f == GivenTo(p, b, r)
    <3>1. \A e \in 0..NExperts-1 : f[e] = 0
      BY ExpertRange DEF GivenTo
    <3> HIDE DEF f
    <3>2. Total(f, NExperts) = 0
      BY <3>1, ExpertRange, TotalZero
    <3> QED BY <3>2 DEF f
  <2>3. Total(b.acc, n) = Total(GivenLoad(p, b), NExperts)
    <3> DEFINE f == GivenLoad(p, b)
               a == b.acc
    <3>1. \A e \in 0..NExperts-1 : f[e] = 0
      BY ExpertRange DEF GivenLoad
    <3>2. n \in Nat /\ \A r \in 0..n-1 : a[r] = 0
      OBVIOUS
    <3> HIDE DEF f, a
    <3>3. Total(f, NExperts) = 0 /\ Total(a, n) = 0
      BY <3>1, <3>2, ExpertRange, TotalZero
    <3> QED BY <3>3 DEF f, a
  <2>4. Experts \ b.free = {}
    OBVIOUS
  <2> HIDE DEF b, R
  <2>5. Handed(p, n, b, 0)
    BY <1>1, <2>1, <2>2, <2>3, <2>4 DEF Handed, R
  <2> QED BY <1>1, <2>5
<1> HIDE DEF b
<1>3. ASSUME NEW i \in 1..NExperts, NEW s \in Good(i - 1) PROVE Give(p, n, s) \in Good(i)
  <2>1. Handed(p, n, Give(p, n, s), i)
    BY <1>3, GiveKeeps
  <2> QED BY <2>1 DEF Handed
<1>4. g \in [1..NExperts -> [R -> R]]
  <2>1. ASSUME NEW i \in 1..NExperts, NEW s \in R
        PROVE  (IF s \in Good(i - 1) THEN Give(p, n, s) ELSE b) \in R
    BY <1>1, <1>3
  <2> HIDE DEF R, Good
  <2> QED BY <2>1
<1>5. PICK f \in [0..NExperts -> R] : Steps(f, NExperts, b, g)
  <2>1. NExperts \in Nat
    BY ExpertRange
  <2> HIDE DEF R, g, c
  <2> QED BY <1>1, <1>4, <2>1, Iterated
<1> DEFINE D == {i \in 0..NExperts : f[i] \in Good(i)}
<1>6. 0..NExperts \subseteq D
  <2>1. 0 \in D
    <3>1. f[0] = b /\ 0 \in 0..NExperts
      BY <1>5, ExpertRange DEF Steps
    <3> HIDE DEF Good
    <3> QED BY <1>2, <3>1
  <2>2. ASSUME NEW i \in 1..NExperts, i - 1 \in D PROVE i \in D
    <3>0. i \in 0..NExperts
      BY ExpertRange
    <3> HIDE DEF g, R
    <3>1. f[i] = g[i][f[i - 1]]
      BY <1>5 DEF Steps
    <3> USE DEF g, R
    <3>2. f[i - 1] \in Good(i - 1) /\ f[i - 1] \in R
      BY <2>2
    <3>3. f[i] = Give(p, n, f[i - 1])
      <4> HIDE DEF R, Good
      <4> QED BY <3>1, <3>2
    <3> HIDE DEF Good
    <3> QED BY <1>3, <3>0, <3>2, <3>3
  <2> HIDE DEF D
  <2>3. \A i \in 1..NExperts : i - 1 \in D => i \in D
    BY <2>2
  <2> QED BY <2>1, <2>3, ExpertRange, UpTo
<1>7. f = [i \in 0..NExperts |-> IF i = 0 THEN b ELSE Give(p, n, f[i - 1])]
  <2>1. ASSUME NEW i \in 0..NExperts, i # 0 PROVE f[i] = Give(p, n, f[i - 1])
    <3>1. i \in 1..NExperts /\ i - 1 \in 0..NExperts
      BY <2>1, ExpertRange
    <3>2. f[i] = g[i][f[i - 1]]
      BY <1>5, <3>1 DEF Steps
    <3>3. f[i - 1] \in Good(i - 1) /\ f[i - 1] \in R
      BY <1>6, <3>1
    <3> HIDE DEF R, Good
    <3> QED BY <3>1, <3>2, <3>3
  <2> HIDE DEF g
  <2> QED BY <1>5, <2>1 DEF Steps
<1>8. c = [i \in 0..NExperts |-> IF i = 0 THEN b ELSE Give(p, n, c[i - 1])]
  BY <1>7
<1>9. Balanced(p, n) = c[NExperts].own
  BY DEF Balanced, b
<1> HIDE DEF c, g
<1> DEFINE E == {i \in 0..NExperts : c[i] \in Good(i)}
<1>10. NExperts \in E
  <2>1. 0 \in E
    <3>1. c[0] = b /\ 0 \in 0..NExperts
      BY <1>8, ExpertRange
    <3> HIDE DEF Good
    <3> QED BY <1>2, <3>1
  <2>2. ASSUME NEW i \in 1..NExperts, i - 1 \in E PROVE i \in E
    <3>1. i \in 0..NExperts /\ c[i] = Give(p, n, c[i - 1])
      <4>1. i \in 0..NExperts /\ i # 0
        BY ExpertRange
      <4> QED BY <1>8, <4>1
    <3>2. c[i - 1] \in Good(i - 1)
      BY <2>2
    <3> HIDE DEF Good
    <3> QED BY <1>3, <3>1, <3>2
  <2> HIDE DEF E
  <2>3. \A i \in 1..NExperts : i - 1 \in E => i \in E
    BY <2>2
  <2>4. 0..NExperts \subseteq E
    BY <2>1, <2>3, ExpertRange, UpTo
  <2> QED BY <2>4, ExpertRange
<1>11. PICK s : s = c[NExperts]
  OBVIOUS
<1>12. s \in R /\ Handed(p, n, s, NExperts)
  BY <1>10, <1>11
<1>13. s.free = {}
  <2>1. Cardinality(s.free) = 0
    BY <1>12, ExpertRange DEF Handed
  <2>2. IsFiniteSet(s.free)
    BY <1>12, ExpertRange, FS_Subset
  <2> QED BY <2>1, <2>2, FS_EmptySet
<1>14. ASSUME NEW e \in Experts
       PROVE  (Work(p.load, s.own, s.own[e]) - p.load[e]) * Total(p.cap, n)
                <= Total(p.load, NExperts) * p.cap[s.own[e]]
  <2>1. s.own[e] \in 0..n-1
    BY <1>12
  <2>2. s.acc[s.own[e]] = Total(GivenTo(p, s, s.own[e]), NExperts)
    BY <1>12, <2>1 DEF Handed
  <2>3. GivenTo(p, s, s.own[e]) = [d \in Experts |-> IF s.own[d] = s.own[e] THEN p.load[d] ELSE 0]
    BY <1>13 DEF GivenTo
  <2>4. s.acc[s.own[e]] = Work(p.load, s.own, s.own[e])
    BY <2>2, <2>3 DEF Work
  <2>5. (s.acc[s.own[e]] - p.load[e]) * Total(p.cap, n)
          <= Total(p.load, NExperts) * p.cap[s.own[e]]
    BY <1>12, <1>13 DEF Handed
  <2> QED BY <2>4, <2>5
<1> QED BY <1>9, <1>11, <1>12, <1>14 DEF EvenlyGiven

LEMMA PlanFacts ==
  ASSUME plan \in Plans, plan # Static, nranks \in 2..MaxRanks
  PROVE  /\ Balanced(plan, nranks) \in [Experts -> 0..nranks-1]
         /\ EvenlyGiven(plan, nranks, Balanced(plan, nranks))
<1>1. PICK p \in Plans \ {Static} : p = plan
  OBVIOUS
<1>2. PICK n \in Nat \ {0} : n = nranks
  OBVIOUS
<1>3. p.load \in [Experts -> Nat] /\ p.cap \in [0..MaxRanks-1 -> Nat \ {0}]
  BY PlansAssumption
<1>4. \A r \in 0..n-1 : r \in 0..MaxRanks-1
  BY <1>2, RanksAssumption
<1>5. \A r \in 0..n-1 : p.cap[r] \in Nat \ {0}
  BY <1>3, <1>4
<1>6. Balanced(p, n) \in [Experts -> 0..n-1] /\ EvenlyGiven(p, n, Balanced(p, n))
  BY <1>3, <1>5, BalancedRight
<1> QED BY <1>1, <1>2, <1>6

\* Once handed out, the table is the one that is balanced by load, whatever became of calls.
TableInv ==
  /\ nranks \in 2..MaxRanks /\ plan \in Plans /\ table = [p \in Workers \cup {Root} |-> table[p]]
  /\ bound \/ rpc = "shake" => plan = Static \/ table[Root] = Balanced(plan, nranks)

LEMMA TableStep ==
  ASSUME TableInv, [Next]_vars
  PROVE  TableInv'
<1> USE DEF TableInv
<1>1. CASE RootWorks \/ StartEnd
  <2>1. UNCHANGED <<nranks, plan, table>> /\ (bound' \/ rpc' = "shake" => bound \/ rpc = "shake")
    <3>1. CASE Opening /\ UNCHANGED <<rootVars, table, wout>>
      BY <3>1 DEF Opening, Accept, AcceptTimesOut, Greet, GreetFails, EndAs, processes, rootVars
    <3>2. CASE SendNext
      BY <3>2 DEF SendNext, AfterBroadcast, EndAs, Broadcasting, processes
    <3>3. CASE SendFails \/ ReadFails
      BY <3>3 DEF SendFails, ReadFails, Abandon, EndAs, processes, rootVars
    <3>4. CASE Contribute \/ Reduce \/ StartEnd
      BY <3>4 DEF Contribute, Reduce, StartEnd, EndAs, processes, rootVars
    <3>5. CASE ReadCount \/ ReadRow
      BY <3>5 DEF ReadCount, ReadRow, NextRank, Abandon, EndAs, processes
    <3> QED BY <1>1, <3>1, <3>2, <3>3, <3>4, <3>5 DEF RootWorks
  <2> QED BY <2>1
<1>2. CASE StartCall
  <2>1. UNCHANGED <<nranks, plan, bound>>
    BY <1>2 DEF StartCall, processes
  <2>2. \/ bound /\ table' = table
        \/ ~bound /\ plan = Static /\ table' = table
        \/ ~bound /\ plan # Static /\ table' = [table EXCEPT ![Root] = Balanced(plan, nranks)]
    BY <1>2 DEF StartCall
  <2> QED BY <2>1, <2>2
<1>3. ASSUME NEW w \in Workers, WorkerWorks(w) \/ (Crash(w) /\ UNCHANGED <<rootVars, table, wout>>)
      PROVE  TableInv'
  <2>1. UNCHANGED <<nranks, plan, bound, rpc>>
    <3>1. CASE Crash(w) /\ UNCHANGED <<rootVars, table, wout>>
      BY <3>1 DEF Crash, processes, rootVars
    <3>2. CASE WorkerWorks(w)
      BY <3>2 DEF WorkerWorks, Connect, GiveUp, SayRank, Leave, RecvShake, RecvTable, RecvHeader,
                  RecvBody, SendReply, Stray, processes, rootVars
    <3> QED BY <1>3, <3>1, <3>2
  <2>2. table' = table \/ \E own : table' = [table EXCEPT ![w] = own]
    <3>1. CASE Crash(w) /\ UNCHANGED <<rootVars, table, wout>>
      BY <3>1
    <3>2. CASE WorkerWorks(w)
      BY <3>2 DEF WorkerWorks, RecvShake, RecvTable, RecvHeader, RecvBody, SendReply, Stray
    <3> QED BY <1>3, <3>1, <3>2
  <2>3. table' = [p \in Workers \cup {Root} |-> table'[p]] /\ table'[Root] = table[Root]
    BY <2>2, RootAssumption
  <2> QED BY <2>1, <2>3
<1>4. CASE UNCHANGED vars
  BY <1>4 DEF vars, transport, processes, rootVars
<1> QED BY <1>1, <1>2, <1>3, <1>4 DEF Next

\* A rank that gave any one of its experts away would have no more work for its power than the
\* average, once EPLB has handed out the table (st_moe_ep_eplb_build), for all loads and powers.
THEOREM TableStaysBalanced == Spec => []TableIsBalanced
<1>1. Init => TableInv
  BY DEF Init, TransportInit, TableInv
<1>2. TableInv /\ [Next]_vars => TableInv'
  BY TableStep
<1>3. TableInv => TableIsBalanced
  BY PlanFacts DEF TableInv, TableIsBalanced
<1> QED BY <1>1, <1>2, <1>3, PTL DEF Spec
-----------------------------------------------------------------------------
(***************************************************************************)
(* The rows.  All have the same table once it is handed out; what is under *)
(* way is of the call that is under way; and the rows of a rank whose turn *)
(* has come were computed, have come, or are to come.                      *)
(***************************************************************************)
Busy == {"shake", "cast", "own", "count", "row", "reduce"}

\* Frame f says what the coordinator holds.
Genuine(f) ==
  /\ f.k = "table" => f.own = table[Root]
  /\ f.k = "shake" => (f.mode = 0 <=> plan = Static)
  /\ f.k = "body" => f.call = call /\ f.sel = sel

\* The slots rank r answers for, and those whose row is there.
Due(r) == {j \in Slots : Owns(Root, r, sel[j])}
Has(j) == cbuf[j] = Row(call, sel[j])

\* Worker w has sent the row of slot j, or will.
Said(w, j)     == \E i \in 1..Len(up[w]) : up[w][i].k = "row" /\ up[w][i].n = j
Promised(w, j) == Said(w, j) \/ j \in Todo(w)

RootData ==
  /\ nranks \in 2..MaxRanks /\ plan \in Plans
  /\ table = [p \in Workers \cup {Root} |-> table[p]]
  /\ table[Root] \in [Experts -> 0..nranks-1]
  /\ plan = Static => \A w \in Workers : wpc[w] \in {"start", "say", "shake"} => table[w] = table[Root]
  /\ cbuf = [j \in Slots |-> cbuf[j]]
  /\ rpc \in Busy => x \in Inputs /\ sel = Route(x)

OutData == rpc \in Sending => \A i \in 1..Len(outbox) : Genuine(outbox[i])

Collected(r) == rpc = "reduce" \/ (rpc \in {"count", "row"} /\ r < at)

BufData == \A r \in 0..nranks-1 : Collected(r) => \A j \in Due(r) : Has(j)

DownData(w) ==
  wpc[w] # "gone" =>
    /\ \A i \in 1..Len(down[w]) : Genuine(down[w][i])
    /\ wpc[w] \in {"header", "body", "reply"} => table[w] = table[Root]
    /\ wpc[w] = "reply" => wout[w].call = call /\ wout[w].sel = sel

UpData(w) ==
  \A i \in 1..Len(up[w]) : up[w][i].k = "row" => up[w][i].row = Row(call, sel[up[w][i].n])

CoverData(r, w) ==
  /\ Owes(r) /\ (up[w] # <<>> \/ wpc[w] = "reply") => \A j \in Due(r) : Promised(w, j)
  /\ rpc = "row" /\ r = at => \A j \in Due(r) : Has(j) \/ Promised(w, j)

PeerData(r) ==
  \A w \in Workers : rpc \notin Over /\ peer[r] = w => DownData(w) /\ UpData(w) /\ CoverData(r, w)

DataInv == RootData /\ OutData /\ BufData /\ \A r \in Others : PeerData(r)

\* What a worker holds that does not take part in a step.
LEMMA PeerDataStays ==
  ASSUME NEW r \in Others, NEW v \in Workers, Same(v),
         UNCHANGED <<plan, call, sel>>, table'[v] = table[v], table'[Root] = table[Root],
         Owes(r)' => Owes(r) \/ (up[v] = <<>> /\ wpc[v] # "reply"),
         \/ ~(rpc' = "row" /\ r = at')
         \/ rpc = "row" /\ r = at /\ cbuf' = cbuf,
         DownData(v), UpData(v), CoverData(r, v)
  PROVE  DownData(v)' /\ UpData(v)' /\ CoverData(r, v)'
<1>1. wpc'[v] = wpc[v] /\ down'[v] = down[v] /\ up'[v] = up[v] /\ wout'[v] = wout[v]
  BY DEF Same
<1>2. ASSUME NEW i \in 1..Len(down[v]) PROVE Genuine(down[v][i]) => Genuine(down[v][i])'
  BY <1>1 DEF Genuine
<1>3. DownData(v)'
  BY <1>1, <1>2 DEF DownData
<1>4. UpData(v)'
  BY <1>1 DEF UpData, Row
<1>5. Due(r)' = Due(r)
  BY DEF Due, Owns
<1>6. \A j : Promised(v, j)' <=> Promised(v, j)
  BY <1>1 DEF Promised, Said, Todo
<1>7. cbuf' = cbuf => \A j : Has(j)' <=> Has(j)
  BY DEF Has, Row
<1>8. CoverData(r, v)'
  BY <1>1, <1>5, <1>6, <1>7 DEF CoverData
<1> QED BY <1>3, <1>4, <1>8

\* What a step of worker w has to keep.
LEMMA WorkerData ==
  ASSUME DataInv, NEW w \in Workers, \A v \in Workers \ {w} : Same(v),
         UNCHANGED <<nranks, rpc, peer, rootVars>>, table' = [table EXCEPT ![w] = table'[w]],
         wpc'[w] \in {"start", "say", "shake"} =>
           wpc[w] \in {"start", "say", "shake"} /\ table'[w] = table[w],
         \A r \in Others : rpc \notin Over /\ peer[r] = w =>
           DownData(w)' /\ UpData(w)' /\ CoverData(r, w)'
  PROVE  DataInv'
<1>1. /\ UNCHANGED <<plan, bound, call, x, sel, cbuf, outbox, at, left>> /\ Others' = Others
      /\ table'[Root] = table[Root] /\ \A v \in Workers \ {w} : table'[v] = table[v]
      /\ table' = [p \in Workers \cup {Root} |-> table'[p]]
  <2>1. UNCHANGED <<plan, bound, call, x, sel, cbuf, outbox, at, left>> /\ Others' = Others
    BY DEF rootVars, callVars, Others
  <2>2. table = [p \in Workers \cup {Root} |-> table[p]]
    BY DEF DataInv, RootData
  <2> QED BY <2>1, <2>2, RootAssumption
<1>2. RootData'
  <2>1. ASSUME plan = Static, NEW v \in Workers, wpc'[v] \in {"start", "say", "shake"}
        PROVE  table'[v] = table[Root]
    <3>1. wpc[v] \in {"start", "say", "shake"} /\ table'[v] = table[v]
      BY <1>1, <2>1 DEF Same
    <3> QED BY <2>1, <3>1 DEF DataInv, RootData
  <2> QED BY <1>1, <2>1 DEF DataInv, RootData
<1>3. OutData'
  BY <1>1 DEF DataInv, OutData, Genuine
<1>4. BufData'
  BY <1>1 DEF DataInv, BufData, Collected, Due, Has, Owns, Row
<1>5. ASSUME NEW r \in Others PROVE PeerData(r)'
  <2> SUFFICES ASSUME NEW v \in Workers, rpc \notin Over, peer[r] = v
               PROVE  DownData(v)' /\ UpData(v)' /\ CoverData(r, v)'
    BY DEF PeerData
  <2>1. CASE v = w
    BY <2>1
  <2>2. CASE v # w
    <3>1. DownData(v) /\ UpData(v) /\ CoverData(r, v)
      BY DEF DataInv, PeerData
    <3>2. Owes(r)' => Owes(r)
      BY <1>1 DEF Owes
    <3>3. Same(v) /\ table'[v] = table[v]
      BY <1>1, <2>2
    <3> QED BY <1>1, <3>1, <3>2, <3>3, PeerDataStays
  <2> QED BY <2>1, <2>2
<1> QED BY <1>1, <1>2, <1>3, <1>4, <1>5 DEF DataInv

\* It has read a frame; the table and the rows it is to answer with are the coordinator's.
LEMMA ReceiveData ==
  ASSUME EpInv, DataInv, NEW w \in Workers,
         RecvShake(w) \/ RecvTable(w) \/ RecvHeader(w) \/ RecvBody(w)
  PROVE  DataInv'
<1> DEFINE q == down[w]
<1>1. /\ UNCHANGED <<nranks, rank, rpc, peer, rootVars, up>>
      /\ wpc[w] \in Kinds /\ q # <<>> /\ down' = [down EXCEPT ![w] = Tail(@)]
  BY DEF RecvShake, RecvTable, RecvHeader, RecvBody, Take, Kinds, processes, linkVars
<1>2. UNCHANGED <<plan, call, x, sel, cbuf, outbox, at>> /\ Others' = Others
  BY <1>1 DEF rootVars, callVars, Others
<1>3. /\ DownInv(w) /\ Len(q) \in Nat /\ Len(q) > 0 /\ Head(q) = q[1] /\ q[1].k = wpc[w]
      /\ Len(Tail(q)) = Len(q) - 1 /\ \A i \in 1..Len(q)-1 : Tail(q)[i] = q[i + 1]
  <2>1. DownInv(w)
    BY DEF EpInv, WorkersInv
  <2>2. IsSeq(q) /\ Len(q) \in Nat /\ Len(q) > 0
    BY <1>1, <2>1, SeqFacts DEF DownInv
  <2>3. q[1].k = wpc[w]
    BY <1>1, <2>1, <2>2 DEF DownInv, Kinds
  <2> QED BY <2>1, <2>2, <2>3, TailFacts
<1>4. /\ down'[w] = Tail(q) /\ up'[w] = up[w]
      /\ wpc' = [wpc EXCEPT ![w] = wpc'[w]] /\ wout' = [wout EXCEPT ![w] = wout'[w]]
      /\ table' = [table EXCEPT ![w] = table'[w]]
      /\ \A v \in Workers \ {w} : down'[v] = down[v]
  <2>1. wpc' = [wpc EXCEPT ![w] = wpc'[w]]
    BY DEF RecvShake, RecvTable, RecvHeader, RecvBody, MoveTo, EpInv, EpTypes
  <2>2. wout' = [wout EXCEPT ![w] = wout'[w]]
    BY DEF RecvShake, RecvTable, RecvHeader, RecvBody, EpInv, EpTypes
  <2>3. table = [p \in Workers \cup {Root} |-> table[p]]
    BY DEF DataInv, RootData
  <2>4. table' = [table EXCEPT ![w] = table'[w]]
    BY <2>3 DEF RecvShake, RecvTable, RecvHeader, RecvBody
  <2> QED BY <1>1, <2>1, <2>2, <2>4 DEF EpInv, EpTypes
<1>5. \A v \in Workers \ {w} : Same(v)
  <2>1. \A v \in Workers \ {w} : wpc'[v] = wpc[v] /\ wout'[v] = wout[v]
    BY <1>4 DEF EpInv, EpTypes
  <2> QED BY <1>1, <1>4, <2>1 DEF Same
<1>6. /\ table'[Root] = table[Root]
      /\ wpc'[w] \in {"header", "table", "body", "reply", "gone"}
      /\ wpc'[w] = "reply" <=> wpc[w] = "body"
      /\ wpc'[w] = "body" => wpc[w] = "header"
      /\ wpc'[w] = "header" => wpc[w] \in {"shake", "table"}
      /\ wpc[w] = "shake" /\ wpc'[w] = "header" => q[1].mode = 0
      /\ table'[w] = IF wpc[w] = "table" THEN q[1].own ELSE table[w]
      /\ wpc[w] # "body" => wout'[w] = wout[w]
  <2>1. table' = table \/ (wpc[w] = "table" /\ table' = [table EXCEPT ![w] = q[1].own])
    BY <1>3 DEF RecvShake, RecvTable, RecvHeader, RecvBody
  <2>2. /\ table'[Root] = table[Root]
        /\ table'[w] = IF wpc[w] = "table" THEN q[1].own ELSE table[w]
    <3>1. table = [p \in Workers \cup {Root} |-> table[p]]
      BY DEF DataInv, RootData
    <3>2. wpc[w] = "table" => table' = [table EXCEPT ![w] = q[1].own]
      BY <1>3 DEF RecvShake, RecvTable, RecvHeader, RecvBody
    <3>3. wpc[w] # "table" => table' = table
      BY <2>1
    <3> QED BY <3>1, <3>2, <3>3, RootAssumption
  <2>3. /\ wpc'[w] \in {"header", "table", "body", "reply", "gone"}
        /\ wpc'[w] = "reply" <=> wpc[w] = "body"
        /\ wpc'[w] = "body" => wpc[w] = "header"
        /\ wpc'[w] = "header" => wpc[w] \in {"shake", "table"}
        /\ wpc[w] = "shake" /\ wpc'[w] = "header" => q[1].mode = 0
    <3>1. wpc[w] = "shake" => wpc'[w] = IF q[1].mode = 0 THEN "header" ELSE "table"
      BY <1>3 DEF RecvShake, RecvTable, RecvHeader, RecvBody, MoveTo, EpInv, EpTypes
    <3>2. wpc[w] = "table" => wpc'[w] = "header"
      BY <1>3 DEF RecvShake, RecvTable, RecvHeader, RecvBody, MoveTo, EpInv, EpTypes
    <3>3. wpc[w] = "header" => wpc'[w] \in {"body", "gone"}
      BY <1>3 DEF RecvShake, RecvTable, RecvHeader, RecvBody, MoveTo, EpInv, EpTypes
    <3>4. wpc[w] = "body" => wpc'[w] = "reply"
      BY <1>3 DEF RecvShake, RecvTable, RecvHeader, RecvBody, MoveTo, EpInv, EpTypes
    <3> QED BY <1>1, <3>1, <3>2, <3>3, <3>4 DEF Kinds
  <2>4. wpc[w] # "body" => wout'[w] = wout[w]
    BY DEF RecvShake, RecvTable, RecvHeader, RecvBody
  <2> QED BY <2>2, <2>3, <2>4
<1>7. wpc[w] = "body" => /\ wout'[w].call = q[1].call /\ wout'[w].sel = q[1].sel
                         /\ wout'[w].todo = Mine(w, q[1].sel)
  <2> SUFFICES ASSUME wpc[w] = "body"
               PROVE  /\ wout'[w].call = q[1].call /\ wout'[w].sel = q[1].sel
                      /\ wout'[w].todo = Mine(w, q[1].sel)
    OBVIOUS
  <2> DEFINE a == [call |-> q[1].call, sel |-> q[1].sel, counted |-> FALSE, todo |-> Mine(w, q[1].sel)]
  <2>1. wout' = [wout EXCEPT ![w] = a]
    BY <1>3 DEF RecvShake, RecvTable, RecvHeader, RecvBody
  <2>2. a.call = q[1].call /\ a.sel = q[1].sel /\ a.todo = Mine(w, q[1].sel)
    OBVIOUS
  <2> HIDE DEF a
  <2>3. wout'[w] = a
    BY <2>1 DEF EpInv, EpTypes
  <2> QED BY <2>2, <2>3
<1> HIDE DEF q
<1>8. ASSUME NEW r \in Others, rpc \notin Over, peer[r] = w
      PROVE  DownData(w)' /\ UpData(w)' /\ CoverData(r, w)'
  <2>1. /\ DownData(w) /\ UpData(w) /\ CoverData(r, w) /\ PeerInv(r) /\ w # None
        /\ wpc[w] # "gone" /\ wpc[w] # "reply" /\ wpc[w] # "start" /\ wpc[w] # "say"
    BY <1>1, <1>8, NoneAssumption DEF DataInv, PeerData, EpInv, PeersInv, Kinds
  <2>2. \A i \in 1..Len(q) : Genuine(q[i])
    BY <2>1 DEF DownData, q
  <2>3. Genuine(q[1])
    <3>1. 1 \in 1..Len(q)
      BY <1>3
    <3> QED BY <2>2, <3>1
  <2>4. table'[w] = table[Root] \/ wpc'[w] \notin {"header", "body", "reply"}
    <3>1. CASE wpc[w] = "table"
      BY <1>6, <2>3, <3>1, <1>3 DEF Genuine
    <3>2. CASE wpc[w] = "shake"
      <4>1. wpc'[w] = "header" => plan = Static
        BY <1>3, <1>6, <2>3, <3>2 DEF Genuine
      <4>2. plan = Static => table[w] = table[Root]
        BY <3>2 DEF DataInv, RootData
      <4> QED BY <1>6, <3>2, <4>1, <4>2
    <3>3. CASE wpc[w] \in {"header", "body"}
      BY <1>6, <2>1, <3>3 DEF DownData
    <3> QED BY <1>1, <3>1, <3>2, <3>3 DEF Kinds
  <2>5. wpc'[w] = "reply" => wout'[w].call = call /\ wout'[w].sel = sel
    BY <1>3, <1>6, <1>7, <2>3 DEF Genuine
  <2>6. ASSUME NEW i \in 1..Len(down'[w]) PROVE Genuine(down[w][i])'
    <3>1. i \in 1..Len(q)-1 /\ i + 1 \in 1..Len(q)
      BY <1>3, <1>4, <2>6
    <3>2. Genuine(q[i + 1]) /\ down'[w][i] = q[i + 1]
      BY <1>3, <1>4, <2>2, <3>1
    <3> QED BY <1>2, <1>6, <3>2 DEF Genuine
  <2>7. DownData(w)'
    BY <1>2, <1>6, <2>4, <2>5, <2>6 DEF DownData
  <2>8. UpData(w)'
    BY <1>2, <1>4, <2>1 DEF UpData, Row
  <2>9. CoverData(r, w)'
    <3>1. ~(rpc = "row" /\ r = at)
      BY <1>1, <1>3, <1>8, <2>1, SeqFacts DEF PeerInv, Answering, q
    <3>2. (Owes(r)' <=> Owes(r)) /\ Due(r)' = Due(r)
      BY <1>1, <1>2, <1>6 DEF Owes, Due, Owns
    <3>3. CASE wpc[w] # "body"
      <4>1. \A j : Promised(w, j)' <=> Promised(w, j)
        BY <1>4, <1>6, <3>3 DEF Promised, Said, Todo
      <4> QED BY <1>1, <1>2, <1>4, <1>6, <2>1, <3>1, <3>2, <3>3, <4>1 DEF CoverData
    <3>4. CASE wpc[w] = "body"
      <4>1. wout'[w].todo = Mine(w, sel) /\ table[w] = table[Root]
        BY <1>3, <1>7, <2>1, <2>3, <3>4 DEF Genuine, DownData
      <4>2. rank[w] = r
        BY <1>8, <2>1 DEF PeerInv
      <4>3. \A j \in Due(r) : j \in Todo(w)'
        BY <4>1, <4>2 DEF Due, Mine, Owns, Todo
      <4> QED BY <1>1, <1>2, <3>1, <3>2, <4>3 DEF CoverData, Promised
    <3> QED BY <3>3, <3>4
  <2> QED BY <2>7, <2>8, <2>9
<1> QED BY <1>1, <1>4, <1>5, <1>6, <1>8, WorkerData

\* It sends how many rows come, or a row of the call.
LEMMA ReplyData ==
  ASSUME EpInv, DataInv, NEW w \in Workers, SendReply(w)
  PROVE  DataInv'
<1>1. UNCHANGED <<nranks, rank, rpc, peer, rootVars, down, table>> /\ wpc[w] = "reply"
  BY DEF SendReply, processes, linkVars
<1>2. UNCHANGED <<plan, call, x, sel, cbuf, outbox, at>> /\ Others' = Others
  BY <1>1 DEF rootVars, callVars, Others
<1> DEFINE T == wout[w].todo
<1>3. ReplyInv(w) /\ IsReply(wout[w])
  BY DEF EpInv, WorkersInv, ReplyInv
<1>4. PICK f, R :
        /\ R \subseteq T /\ Reply(w, f, R)
        /\ \/ f.k = "count" /\ R = T
           \/ f.k = "row" /\ R = T \ {f.n} /\ f.row = Row(wout[w].call, wout[w].sel[f.n])
  <2>1. CASE ~wout[w].counted
    BY <2>1 DEF SendReply
  <2>2. CASE wout[w].counted
    <3>1. PICK j \in T : Reply(w, [k |-> "row", n |-> j, row |-> Row(wout[w].call, wout[w].sel[j])], T \ {j})
      BY <2>2 DEF SendReply
    <3> DEFINE b == Row(wout[w].call, wout[w].sel[j])
               g == [k |-> "row", n |-> j, row |-> b]
    <3>2. g.k = "row" /\ g.n = j /\ g.row = b /\ T \ {j} \subseteq T
      OBVIOUS
    <3> HIDE DEF g, T
    <3> QED BY <3>1, <3>2 DEF g
  <2> QED BY <2>1, <2>2
<1>5. /\ \A v \in Workers \ {w} : Same(v)
      /\ up'[w] = up[w] \o <<f>>
      /\ wpc'[w] \in {"header", "reply"}
      /\ wout'[w] = Answered(wout[w], R)
  <2>1. /\ up' = [up EXCEPT ![w] = @ \o <<f>>]
        /\ wout' = [wout EXCEPT ![w] = Answered(wout[w], R)]
        /\ wpc' = [wpc EXCEPT ![w] = wpc'[w]] /\ wpc'[w] \in {"header", "reply"}
    BY <1>1, <1>4 DEF Reply, SendUp, MoveTo, Answered, EpInv, EpTypes
  <2> QED BY <1>1, <2>1 DEF EpInv, EpTypes, Same
<1>6. wout'[w].call = wout[w].call /\ wout'[w].sel = wout[w].sel /\ wout'[w].todo = R
  BY <1>3, <1>4, <1>5, ReplyFacts
<1> HIDE DEF T
<1>7. ASSUME NEW r \in Others, rpc \notin Over, peer[r] = w
      PROVE  DownData(w)' /\ UpData(w)' /\ CoverData(r, w)'
  <2>1. DownData(w) /\ UpData(w) /\ CoverData(r, w) /\ PeerInv(r) /\ w # None
    BY <1>7, NoneAssumption DEF DataInv, PeerData, EpInv, PeersInv
  <2>2. wout[w].call = call /\ wout[w].sel = sel /\ table[w] = table[Root]
    BY <1>1, <2>1 DEF DownData
  <2>3. DownData(w)'
    <3>1. ASSUME NEW i \in 1..Len(down[w]) PROVE Genuine(down[w][i])'
      BY <1>1, <1>2, <2>1, <3>1 DEF DownData, Genuine
    <3> QED BY <1>1, <1>2, <1>6, <2>2, <3>1 DEF DownData
  <2>4. /\ Len(up'[w]) = Len(up[w]) + 1 /\ Len(up[w]) \in Nat
        /\ up'[w][Len(up[w]) + 1] = f /\ \A i \in 1..Len(up[w]) : up'[w][i] = up[w][i]
    <3>1. IsSeq(up[w]) /\ up'[w] = Append(up[w], f)
      <4>1. IsSeq(up[w])
        BY <1>7, <2>1 DEF PeerInv
      <4> QED BY <1>5, <4>1, AppendFacts
    <3> QED BY <3>1, AppendFacts, SeqFacts
  <2>5. UpData(w)'
    <3> SUFFICES ASSUME NEW i \in 1..Len(up'[w]), up'[w][i].k = "row"
                 PROVE  up'[w][i].row = Row(call, sel[up'[w][i].n])
      BY <1>2 DEF UpData, Row
    <3>1. i \in 1..Len(up[w]) \/ i = Len(up[w]) + 1
      BY <2>4
    <3>2. CASE i \in 1..Len(up[w])
      BY <2>1, <2>4, <3>2 DEF UpData
    <3>3. CASE i = Len(up[w]) + 1
      BY <1>4, <2>2, <2>4, <3>3
    <3> QED BY <3>1, <3>2, <3>3
  <2>6. ASSUME NEW j, Promised(w, j) PROVE Promised(w, j)'
    <3>1. CASE Said(w, j)
      <4>1. PICK i \in 1..Len(up[w]) : up[w][i].k = "row" /\ up[w][i].n = j
        BY <3>1 DEF Said
      <4>2. i \in 1..Len(up'[w]) /\ up'[w][i] = up[w][i]
        BY <2>4
      <4> QED BY <4>1, <4>2 DEF Promised, Said
    <3>2. CASE j \in Todo(w) /\ j \in R
      BY <1>6, <3>2 DEF Promised, Todo
    <3>3. CASE j \in Todo(w) /\ j \notin R
      <4>1. f.k = "row" /\ f.n = j
        BY <1>4, <3>3 DEF Todo, T
      <4>2. Len(up[w]) + 1 \in 1..Len(up'[w])
        BY <2>4
      <4> QED BY <2>4, <4>1, <4>2 DEF Promised, Said
    <3> QED BY <2>6, <3>1, <3>2, <3>3 DEF Promised
  <2>7. CoverData(r, w)'
    <3>1. /\ (Owes(r)' <=> Owes(r)) /\ Due(r)' = Due(r) /\ \A j : Has(j)' <=> Has(j)
      BY <1>1, <1>2 DEF Owes, Due, Owns, Has, Row
    <3> QED BY <1>1, <1>2, <2>1, <2>6, <3>1 DEF CoverData
  <2> QED BY <2>3, <2>5, <2>7
<1>8. table' = [table EXCEPT ![w] = table'[w]] /\ table'[w] = table[w]
  BY <1>1 DEF DataInv, RootData
<1> QED BY <1>1, <1>5, <1>7, <1>8, WorkerData

\* Whatever a worker does.
LEMMA WorkerKeepsData ==
  ASSUME EpInv, DataInv, NEW w \in Workers,
         WorkerWorks(w) \/ (Crash(w) /\ UNCHANGED <<rootVars, table, wout>>)
  PROVE  DataInv'
<1>1. CASE Stray(w)
  BY <1>1 DEF Stray, EpInv, EpTypes
<1>2. CASE /\ Connect(w) \/ SayRank(w) \/ GiveUp(w) \/ Leave(w) \/ Crash(w)
           /\ UNCHANGED <<rootVars, table, wout>>
  <2>1. UNCHANGED <<nranks, rpc, peer, rootVars, table, wout, down>>
    BY <1>2 DEF Connect, SayRank, GiveUp, Leave, Crash, processes, linkVars
  <2>2. /\ wpc' = [wpc EXCEPT ![w] = wpc'[w]]
        /\ \A v \in Workers \ {w} : up'[v] = up[v]
        /\ \/ wpc[w] = "start" /\ wpc'[w] = "say"
           \/ wpc[w] = "say" /\ wpc'[w] = "shake"
           \/ wpc'[w] = "gone" /\ up' = up
    BY <1>2 DEF Connect, SayRank, GiveUp, Leave, Crash, MoveTo, SendUp, EpInv, EpTypes
  <2>3. \A v \in Workers \ {w} : Same(v)
    BY <2>1, <2>2 DEF Same, EpInv, EpTypes
  <2>4. ASSUME NEW r \in Others, rpc \notin Over, peer[r] = w
        PROVE  DownData(w)' /\ UpData(w)' /\ CoverData(r, w)'
    <3>1. DownData(w) /\ UpData(w) /\ CoverData(r, w) /\ PeerInv(r) /\ w # None
      BY <2>4, NoneAssumption DEF DataInv, PeerData, EpInv, PeersInv
    <3>2. wpc'[w] = "gone" /\ up' = up
      BY <2>2, <2>4, <3>1 DEF PeerInv, Receiving
    <3>3. UNCHANGED <<plan, call, sel, cbuf, outbox, at>>
      BY <2>1 DEF rootVars, callVars
    <3>4. DownData(w)' /\ UpData(w)'
      BY <3>1, <3>2, <3>3 DEF DownData, UpData, Row
    <3>5. /\ (Owes(r)' <=> Owes(r)) /\ Due(r)' = Due(r) /\ \A j : Has(j)' <=> Has(j)
          /\ \A j : Promised(w, j)' <=> Promised(w, j)
      BY <2>1, <3>2, <3>3 DEF Owes, Due, Owns, Has, Row, Promised, Said, Todo
    <3>6. CoverData(r, w)'
      BY <2>1, <3>1, <3>2, <3>3, <3>5 DEF CoverData
    <3> QED BY <3>4, <3>6
  <2>5. table' = [table EXCEPT ![w] = table'[w]] /\ table'[w] = table[w]
    BY <2>1 DEF DataInv, RootData
  <2> QED BY <2>1, <2>2, <2>3, <2>4, <2>5, WorkerData
<1> QED BY <1>1, <1>2, ReceiveData, ReplyData DEF WorkerWorks
-----------------------------------------------------------------------------
(***************************************************************************)
(* What the coordinator does to the rows.                                  *)
(***************************************************************************)
\* The session is over.
LEMMA EndData ==
  ASSUME DataInv, rpc' \in Over, UNCHANGED <<nranks, plan, table, cbuf, wpc>>
  PROVE  DataInv'
<1>1. OutData' /\ BufData'
  BY DEF OutData, BufData, Collected, Sending, Over
<1>2. \A r \in Others : PeerData(r)'
  BY DEF PeerData
<1>3. RootData'
  BY DEF DataInv, RootData, Busy, Over
<1> QED BY <1>1, <1>2, <1>3 DEF DataInv, Others

\* Before the first call a worker that lives has not been sent anything.
LEMMA FreshPeer ==
  ASSUME EpInv, rpc \in {"listen", "greet", "ready", "shake"}, NEW r \in Others, NEW w \in Workers,
         peer[r] = w, rpc = "ready" => ~bound, rpc = "shake" => at = 1 /\ outbox[1].k = "shake"
  PROVE  up[w] = <<>> /\ wpc[w] # "reply" /\ (wpc[w] # "gone" => Len(down[w]) = 0 /\ wpc[w] = "shake")
<1>1. /\ ~Owes(r) /\ rpc # "row" /\ rpc \notin Over /\ w # None /\ ~bound
      /\ rpc = "shake" => r >= at
  <2>1. r >= 1
    BY RankFacts DEF EpInv
  <2> QED BY <2>1, NoneAssumption DEF Owes, Over, EpInv, OutboxInv
<1>2. Upcoming(r) = "shake"
  BY <1>1 DEF Upcoming, Sending
<1>3. /\ wpc[w] \in Receiving \cup {"reply", "gone"} /\ Idle(w)
      /\ wpc[w] # "gone" => Reach(w) = "shake"
  BY <1>1, <1>2 DEF EpInv, PeersInv, PeerInv
<1>4. IsSeq(down[w]) /\ Len(down[w]) \in Nat /\ \A i \in 1..Len(down[w]) : down[w][i].k \in Kinds
  BY SeqFacts DEF EpInv, WorkersInv, DownInv
<1>5. wpc[w] # "gone" => Len(down[w]) = 0
  <2> SUFFICES ASSUME wpc[w] # "gone", Len(down[w]) > 0 PROVE FALSE
    BY <1>4
  <2>1. PICK f : f = down[w][Len(down[w])]
    OBVIOUS
  <2>2. f.k \in Kinds
    BY <1>4, <2>1
  <2>3. After(f) = "shake"
    BY <1>3, <2>1 DEF Reach
  <2> QED BY <2>2, <2>3 DEF After, Kinds
<1>6. wpc[w] # "gone" => wpc[w] = "shake"
  BY <1>3, <1>5 DEF Reach, Idle
<1> QED BY <1>3, <1>5, <1>6 DEF Idle

LEMMA FreshData ==
  ASSUME NEW r \in Others, NEW v \in Workers, up'[v] = <<>>, wpc'[v] # "reply", rpc' # "row",
         wpc'[v] # "gone" => Len(down'[v]) = 0 /\ wpc'[v] \notin {"header", "body"}
  PROVE  DownData(v)' /\ UpData(v)' /\ CoverData(r, v)'
<1>1. DownData(v)'
  BY DEF DownData
<1>2. UpData(v)'
  BY EmptyFacts DEF UpData
<1>3. CoverData(r, v)'
  BY DEF CoverData
<1> QED BY <1>1, <1>2, <1>3

\* vllm_ep_root_open.
LEMMA OpeningData ==
  ASSUME EpInv, DataInv, Opening, UNCHANGED <<rootVars, table, wout>>
  PROVE  DataInv'
<1>1. /\ UNCHANGED <<nranks, wpc, down, table, plan, bound, call, x, sel, cbuf, outbox, at, left>>
      /\ Others' = Others
  BY DEF Opening, Accept, AcceptTimesOut, Greet, GreetFails, processes, rootVars, callVars, Others
<1>2. CASE AcceptTimesOut
  <2>1. rpc' \in Over
    BY <1>2 DEF AcceptTimesOut, EndAs, Over
  <2> QED BY <1>1, <2>1, EndData
<1>3. CASE Accept \/ Greet \/ GreetFails
  <2>1. rpc \in {"listen", "greet"} /\ rpc' \in {"listen", "greet", "ready"}
    BY <1>3 DEF Accept, Greet, GreetFails
  <2>2. OutData' /\ BufData'
    BY <2>1 DEF OutData, BufData, Collected, Sending
  <2>3. RootData'
    BY <1>1, <2>1 DEF DataInv, RootData, Busy
  <2>4. ASSUME NEW r \in Others, NEW w \in Workers, peer'[r] = w
        PROVE  DownData(w)' /\ UpData(w)' /\ CoverData(r, w)'
    <3>1. CASE peer[r] = w
      <4>1. up[w] = <<>> /\ wpc[w] # "reply" /\ (wpc[w] # "gone" => Len(down[w]) = 0 /\ wpc[w] = "shake")
        BY <2>1, <3>1, FreshPeer
      <4>2. up'[w] = up[w]
        BY <1>3, <4>1 DEF Accept, Greet, GreetFails, EpInv, EpTypes
      <4> QED BY <1>1, <2>1, <4>1, <4>2, FreshData
    <3>2. CASE peer[r] # w
      <4>1. Greet /\ w = arriving /\ up[w] # <<>> /\ up'[w] = Tail(up[w])
        BY <1>3, <2>4, <3>2 DEF Accept, Greet, GreetFails, EpInv, EpTypes
      <4>2. /\ wpc[w] \in {"say", "shake", "gone"} /\ down[w] = <<>>
            /\ IsSeq(up[w]) /\ Len(up[w]) = 1
        BY <2>1, <4>1, SeqFacts DEF EpInv, WorkersInv, QueuedInv, Over
      <4>3. up'[w] = <<>>
        <5>1. IsSeq(Tail(up[w])) /\ Len(Tail(up[w])) = 0
          BY <4>2, TailFacts
        <5> QED BY <4>1, <5>1, SeqFacts
      <4> QED BY <1>1, <2>1, <4>2, <4>3, FreshData, EmptyFacts
    <3> QED BY <3>1, <3>2
  <2>5. \A r \in Others : PeerData(r)'
    BY <2>4 DEF PeerData
  <2> QED BY <1>1, <2>2, <2>3, <2>5 DEF DataInv
<1> QED BY <1>2, <1>3 DEF Opening

\* The frames of a broadcast say what the coordinator holds.
LEMMA CallContents ==
  ASSUME NEW n, NEW l, NEW i \in 1..Len(CallFrames(n, l)), NEW f, f = CallFrames(n, l)[i]
  PROVE  f.k \in {"header", "body"} /\ (f.k = "body" => f.call = n /\ f.sel = l)
<1> DEFINE h == [k |-> "header", call |-> n]
           b == [k |-> "body", call |-> n, sel |-> l]
<1>1. h.k = "header" /\ b.k = "body" /\ b.call = n /\ b.sel = l
  OBVIOUS
<1>2. CallFrames(n, l) = <<h, b>>
  BY DEF CallFrames
<1> HIDE DEF h, b
<1>3. Len(<<h, b>>) = 2 /\ <<h, b>>[1] = h /\ <<h, b>>[2] = b
  BY PairFacts
<1>4. f = h \/ f = b
  BY <1>2, <1>3
<1> QED BY <1>1, <1>4

LEMMA ShakeContents ==
  ASSUME NEW own, NEW i \in 1..Len(ShakeFrames(own)), NEW f, f = ShakeFrames(own)[i]
  PROVE  /\ f.k \in {"shake", "table"}
         /\ f.k = "shake" => (f.mode = 0 <=> plan = Static)
         /\ f.k = "table" => f.own = own
<1> DEFINE s(m) == [k |-> "shake", mode |-> m]
           t == [k |-> "table", own |-> own]
<1>1. /\ \A m : s(m).k = "shake" /\ s(m).mode = m
      /\ t.k = "table" /\ t.own = own
  OBVIOUS
<1>2. ShakeFrames(own) = IF plan = Static THEN <<s(0)>> ELSE <<s(1), t>>
  BY DEF ShakeFrames
<1> HIDE DEF s, t
<1>3. /\ Len(<<s(0)>>) = 1 /\ <<s(0)>>[1] = s(0)
      /\ Len(<<s(1), t>>) = 2 /\ <<s(1), t>>[1] = s(1) /\ <<s(1), t>>[2] = t
  BY SingleFacts, PairFacts
<1>4. CASE plan = Static
  BY <1>1, <1>2, <1>3, <1>4
<1>5. CASE plan # Static
  BY <1>1, <1>2, <1>3, <1>5
<1> QED BY <1>4, <1>5

\* A call begins: no answer to another is under way.
LEMMA StartCallData ==
  ASSUME EpInv, DataInv, StartCall
  PROVE  DataInv'
<1>1. /\ UNCHANGED <<nranks, peer, wpc, down, up, wout, plan, bound, cbuf, at, left>>
      /\ rpc = "ready" /\ rpc' \in {"shake", "cast"} /\ Others' = Others
      /\ rpc \notin Over /\ at = 1
  BY DEF StartCall, processes, linkVars, Over, Others, EpInv, OutboxInv
<1>2. /\ x' \in Inputs /\ sel' = Route(x')
      /\ \/ bound /\ table' = table /\ rpc' = "cast" /\ outbox' = CallFrames(call', sel')
         \/ /\ ~bound /\ rpc' = "shake" /\ outbox' = ShakeFrames(table'[Root])
            /\ \/ plan = Static /\ table' = table
               \/ plan # Static /\ table' = [table EXCEPT ![Root] = Balanced(plan, nranks)]
  BY DEF StartCall
<1>3. /\ table' = [p \in Workers \cup {Root} |-> table'[p]]
      /\ \A v \in Workers : table'[v] = table[v]
      /\ table'[Root] \in [Experts -> 0..nranks-1]
      /\ bound \/ plan = Static => table' = table
  <2>1. plan # Static => Balanced(plan, nranks) \in [Experts -> 0..nranks-1]
    BY PlanFacts DEF DataInv, RootData
  <2> QED BY <1>2, <2>1, RootAssumption DEF DataInv, RootData
<1>4. RootData'
  BY <1>1, <1>2, <1>3 DEF DataInv, RootData
<1>5. OutData'
  <2> SUFFICES ASSUME NEW i \in 1..Len(outbox') PROVE Genuine(outbox[i])'
    BY DEF OutData
  <2>1. PICK f : f = outbox'[i]
    OBVIOUS
  <2>2. CASE outbox' = CallFrames(call', sel')
    <3>1. f.k \in {"header", "body"} /\ (f.k = "body" => f.call = call' /\ f.sel = sel')
      BY <2>1, <2>2, CallContents
    <3> QED BY <2>1, <3>1 DEF Genuine
  <2>3. CASE outbox' = ShakeFrames(table'[Root])
    <3>1. /\ f.k \in {"shake", "table"}
          /\ f.k = "shake" => (f.mode = 0 <=> plan = Static)
          /\ f.k = "table" => f.own = table'[Root]
      BY <2>1, <2>3, ShakeContents
    <3> QED BY <1>1, <2>1, <3>1 DEF Genuine
  <2> QED BY <1>2, <2>2, <2>3
<1>6. BufData'
  BY <1>1 DEF BufData, Collected
<1>7. ASSUME NEW r \in Others, NEW w \in Workers, peer[r] = w
      PROVE  DownData(w)' /\ UpData(w)' /\ CoverData(r, w)'
  <2>1. DownData(w) /\ up[w] = <<>> /\ wpc[w] # "reply" /\ (wpc[w] # "gone" => ~Called(w))
    <3>1. ~Owes(r) /\ w # None
      BY <1>1, NoneAssumption DEF Owes
    <3>2. Idle(w) /\ DownData(w)
      BY <1>1, <1>7, <3>1 DEF DataInv, PeerData, EpInv, PeersInv, PeerInv
    <3> QED BY <3>2 DEF Idle
  <2>2. CASE ~bound
    <3>1. wpc[w] # "gone" => Len(down[w]) = 0 /\ wpc[w] = "shake"
      BY <1>1, <1>7, <2>2, FreshPeer
    <3> QED BY <1>1, <2>1, <3>1, FreshData
  <2>3. CASE bound
    <3>1. ASSUME wpc[w] # "gone", NEW i \in 1..Len(down[w]) PROVE Genuine(down[w][i])'
      <4>1. DownInv(w) /\ Len(down[w]) \in Nat
        BY SeqFacts DEF EpInv, WorkersInv, DownInv
      <4>2. down[w][i].k # "body"
        <5>1. i < Len(down[w]) \/ i = Len(down[w])
          BY <4>1
        <5> QED BY <2>1, <3>1, <4>1, <5>1 DEF DownInv, Called
      <4>3. Genuine(down[w][i])
        BY <2>1, <3>1 DEF DownData
      <4> QED BY <1>1, <1>3, <2>3, <4>2, <4>3 DEF Genuine
    <3>2. DownData(w)'
      BY <1>1, <1>3, <2>1, <2>3, <3>1 DEF DownData
    <3>3. UpData(w)'
      BY <1>1, <2>1, EmptyFacts DEF UpData
    <3>4. CoverData(r, w)'
      BY <1>1, <2>1 DEF CoverData
    <3> QED BY <3>2, <3>3, <3>4
  <2> QED BY <2>2, <2>3
<1>8. \A r \in Others : PeerData(r)'
  BY <1>1, <1>7 DEF PeerData
<1> QED BY <1>1, <1>4, <1>5, <1>6, <1>8 DEF DataInv

\* The last frame says that no call follows.
LEMMA StartEndData ==
  ASSUME EpInv, DataInv, StartEnd
  PROVE  DataInv'
<1>1. /\ UNCHANGED <<nranks, peer, wpc, down, up, wout, table, plan, bound, call, x, sel, cbuf, at, left>>
      /\ rpc = "ready" /\ Others' = Others
  BY DEF StartEnd, processes, linkVars, callVars, EndAs, Others
<1>2. CASE ~bound
  <2>1. rpc' \in Over
    BY <1>2 DEF StartEnd, EndAs, Over
  <2> QED BY <1>1, <2>1, EndData
<1>3. CASE bound
  <2>1. rpc' = "bye" /\ outbox' = <<End>>
    BY <1>3 DEF StartEnd
  <2>2. OutData'
    <3>1. Len(<<End>>) = 1 /\ <<End>>[1] = End /\ End.k = "header"
      BY SingleFacts DEF End
    <3>2. \A i \in 1..Len(outbox') : outbox'[i].k = "header"
      BY <2>1, <3>1
    <3> QED BY <3>2 DEF OutData, Genuine
  <2>3. BufData'
    BY <2>1 DEF BufData, Collected
  <2>4. RootData'
    BY <1>1, <2>1 DEF DataInv, RootData, Busy
  <2>5. ASSUME NEW r \in Others, NEW w \in Workers, peer[r] = w
        PROVE  DownData(w)' /\ UpData(w)' /\ CoverData(r, w)'
    <3>1. DownData(w) /\ UpData(w) /\ CoverData(r, w)
      BY <1>1, <2>5 DEF DataInv, PeerData, Over
    <3>2. ~Owes(r)' /\ rpc' # "row" /\ Same(w)
      BY <1>1, <2>1 DEF Owes, Same
    <3> QED BY <1>1, <3>1, <3>2, PeerDataStays
  <2>6. \A r \in Others : PeerData(r)'
    BY <1>1, <2>5 DEF PeerData
  <2> QED BY <1>1, <2>2, <2>3, <2>4, <2>6 DEF DataInv
<1> QED BY <1>2, <1>3

\* A frame goes to a rank, or is lost with it.
LEMMA SendNextData ==
  ASSUME EpInv, DataInv, EpInv', SendNext
  PROVE  DataInv'
<1>1. /\ UNCHANGED <<nranks, peer, wpc, up, wout, table, plan, call, x, sel, cbuf, left>>
      /\ rpc \in Sending /\ rpc \in Open /\ rpc \notin Over /\ rpc # "row" /\ at \in Others
      /\ Others' = Others
      /\ IsSeq(outbox) /\ Len(outbox) \in {1, 2}
  BY DEF SendNext, AfterBroadcast, EndAs, processes, linkVars, callVars, Broadcasting, Others,
         Sending, Open, Over, EpInv, EpTypes, OutboxInv
<1>2. \A i \in 1..Len(outbox) : Genuine(outbox[i])
  BY <1>1 DEF DataInv, OutData
<1>0. PICK w \in Workers : w = peer[at]
  BY <1>1, PeerFacts
<1>3. PICK f : w = peer[at] /\ f = outbox[1]
  BY <1>0
<1>4. Genuine(f) /\ Head(outbox) = f
  <2>1. 1 \in 1..Len(outbox) /\ Len(outbox) > 0
    BY <1>1
  <2> QED BY <1>1, <1>2, <1>3, <2>1, TailFacts
<1>5. /\ \A v \in Workers \ {w} : Same(v)
      /\ wpc[w] = "gone" => Same(w)
      /\ wpc[w] # "gone" => down'[w] = Append(down[w], f)
  <2>1. down' = IF wpc[w] = "gone" THEN down ELSE [down EXCEPT ![w] = Append(@, f)]
    BY <1>3, <1>4 DEF SendNext, SendTo, SendIntoVoid, Gone
  <2> QED BY <1>1, <2>1 DEF Same, EpInv, EpTypes
<1>6. \/ rpc' = rpc /\ outbox' \in {outbox, Tail(outbox)} /\ (outbox' # outbox => Len(outbox) = 2)
      \/ rpc' = "cast" /\ outbox' = CallFrames(call, sel) /\ rpc = "shake"
      \/ rpc' = "own" /\ rpc = "cast"
      \/ rpc' = "closed"
  <2>1. CASE at < nranks - 1
    BY <2>1 DEF SendNext
  <2>2. CASE ~(at < nranks - 1) /\ Len(outbox) > 1
    <3>1. Len(outbox) \in {1, 2} /\ Len(outbox) \in Nat
      BY <1>1
    <3>2. Len(outbox) = 2
      BY <2>2, <3>1
    <3>3. rpc' = rpc /\ outbox' = Tail(outbox)
      BY <2>2 DEF SendNext
    <3> QED BY <3>2, <3>3
  <2>3. CASE ~(at < nranks - 1) /\ ~(Len(outbox) > 1)
    <3>1. AfterBroadcast
      BY <2>3 DEF SendNext
    <3> QED BY <1>1, <3>1 DEF AfterBroadcast, EndAs, Sending
  <2> QED BY <2>1, <2>2, <2>3
<1>7. CASE rpc' = "closed"
  BY <1>1, <1>7, EndData DEF Over
<1>8. CASE rpc' # "closed"
  <2>1. OutData'
    <3> SUFFICES ASSUME rpc' \in Sending, NEW i \in 1..Len(outbox') PROVE Genuine(outbox[i])'
      BY DEF OutData
    <3>1. PICK g : g = outbox'[i]
      OBVIOUS
    <3>2. CASE rpc' = rpc /\ outbox' \in {outbox, Tail(outbox)} /\ (outbox' # outbox => Len(outbox) = 2)
      <4>1. \E k \in 1..Len(outbox) : g = outbox[k]
        <5>1. CASE outbox' = outbox
          BY <3>1, <5>1
        <5>2. CASE outbox' = Tail(outbox) /\ Len(outbox) = 2
          <6>1. /\ Len(Tail(outbox)) = Len(outbox) - 1
                /\ \A k \in 1..Len(outbox)-1 : Tail(outbox)[k] = outbox[k + 1]
            BY <1>1, <5>2, TailFacts
          <6>2. i \in 1..Len(outbox)-1 /\ i + 1 \in 1..Len(outbox)
            <7>1. Len(outbox') = 1
              BY <5>2, <6>1
            <7>2. i \in 1..1
              BY <7>1
            <7> QED BY <5>2, <7>2
          <6> QED BY <3>1, <5>2, <6>1, <6>2
        <5> QED BY <3>2, <5>1, <5>2
      <4>2. Genuine(g)
        BY <1>2, <4>1
      <4> QED BY <1>1, <3>1, <4>2 DEF Genuine
    <3>3. CASE outbox' = CallFrames(call, sel)
      <4>1. g.k \in {"header", "body"} /\ (g.k = "body" => g.call = call /\ g.sel = sel)
        BY <3>1, <3>3, CallContents
      <4> QED BY <1>1, <3>1, <4>1 DEF Genuine
    <3> QED BY <1>6, <1>8, <3>2, <3>3 DEF Sending
  <2>2. BufData'
    <3>1. rpc' \in Sending \cup {"own"}
      BY <1>1, <1>6, <1>8 DEF Sending
    <3> QED BY <3>1 DEF BufData, Collected, Sending
  <2>3. RootData'
    <3>1. rpc' \in Busy => rpc \in Busy
      BY <1>1, <1>6, <1>8 DEF Busy, Sending
    <3> QED BY <1>1, <3>1 DEF DataInv, RootData
  <2>4. ASSUME NEW r \in Others, NEW v \in Workers, peer[r] = v
        PROVE  DownData(v)' /\ UpData(v)' /\ CoverData(r, v)'
    <3>1. DownData(v) /\ UpData(v) /\ CoverData(r, v)
      BY <1>1, <2>4 DEF DataInv, PeerData
    <3>2. Owes(r)' => Owes(r) \/ (up[v] = <<>> /\ wpc[v] # "reply")
      <4>1. ~Owes(r) => Idle(v)
        BY <1>1, <2>4, PeerFacts
      <4> QED BY <4>1 DEF Idle
    <3>3. rpc' # "row"
      BY <1>1, <1>6 DEF Sending
    <3>4. CASE v # w \/ wpc[w] = "gone"
      <4>1. Same(v)
        BY <1>5, <3>4
      <4> QED BY <1>1, <3>1, <3>2, <3>3, <4>1, PeerDataStays
    <3>5. CASE v = w /\ wpc[w] # "gone"
      <4>1. IsSeq(down[w])
        BY DEF EpInv, WorkersInv, DownInv
      <4>2. /\ Len(down'[w]) = Len(down[w]) + 1 /\ Len(down[w]) \in Nat
            /\ \A i \in 1..Len(down[w]) : down'[w][i] = down[w][i]
            /\ down'[w][Len(down[w]) + 1] = f
        <5>1. /\ Len(Append(down[w], f)) = Len(down[w]) + 1
              /\ \A i \in 1..Len(down[w]) : Append(down[w], f)[i] = down[w][i]
              /\ Append(down[w], f)[Len(down[w]) + 1] = f
          BY <4>1, AppendFacts
        <5> QED BY <1>5, <3>5, <4>1, <5>1, SeqFacts
      <4>3. ASSUME NEW i \in 1..Len(down'[w]) PROVE Genuine(down[w][i])'
        <5>1. PICK g : g = down'[w][i]
          OBVIOUS
        <5>2. Genuine(g)
          <6>1. i \in 1..Len(down[w]) \/ i = Len(down[w]) + 1
            BY <4>2
          <6>2. \A k \in 1..Len(down[w]) : Genuine(down[w][k])
            BY <3>1, <3>5 DEF DownData
          <6>3. g \in {down[w][i], f} /\ (i = Len(down[w]) + 1 => g = f)
                /\ (i \in 1..Len(down[w]) => g = down[w][i])
            BY <4>2, <5>1, <6>1
          <6> QED BY <1>4, <6>1, <6>2, <6>3
        <5> QED BY <1>1, <5>1, <5>2 DEF Genuine
      <4>4. DownData(w)'
        BY <1>1, <3>1, <3>5, <4>3 DEF DownData
      <4>5. UpData(w)'
        BY <1>1, <3>1, <3>5 DEF UpData, Row
      <4>6. CoverData(r, w)'
        <5>1. Due(r)' = Due(r) /\ \A j : Promised(w, j)' <=> Promised(w, j)
          BY <1>1 DEF Due, Owns, Promised, Said, Todo
        <5> QED BY <1>1, <3>1, <3>2, <3>3, <3>5, <5>1 DEF CoverData
      <4> QED BY <3>5, <4>4, <4>5, <4>6
    <3> QED BY <3>4, <3>5
  <2>5. \A r \in Others : PeerData(r)'
    BY <1>1, <2>4 DEF PeerData
  <2> QED BY <1>1, <2>1, <2>2, <2>3, <2>5 DEF DataInv
<1> QED BY <1>7, <1>8

\* The coordinator adds the rows of rank 0, or has all it needs.
LEMMA OwnRowsData ==
  ASSUME EpInv, DataInv, Contribute \/ Reduce
  PROVE  DataInv'
<1>1. /\ UNCHANGED <<nranks, peer, wpc, down, up, wout, table, plan, bound, call, x, sel, outbox, at, left>>
      /\ Others' = Others /\ at = 1
      /\ \/ rpc = "own" /\ rpc' = "count"
         \/ rpc = "reduce" /\ rpc' = "ready" /\ cbuf' = cbuf
  BY DEF Contribute, Reduce, processes, linkVars, rootVars, callVars, Others, EpInv, OutboxInv
<1>2. OutData'
  BY <1>1 DEF OutData, Sending
<1>3. RootData'
  <2>1. cbuf' = [j \in Slots |-> cbuf'[j]]
    BY DEF DataInv, RootData, Contribute, Reduce, rootVars, callVars
  <2>2. rpc' \in Busy => rpc \in Busy
    BY <1>1 DEF Busy
  <2> QED BY <1>1, <2>1, <2>2 DEF DataInv, RootData
<1>4. BufData'
  <2> SUFFICES ASSUME NEW r \in 0..nranks-1, Collected(r)', NEW j \in Slots, Owns(Root, r, sel[j])
               PROVE  Has(j)'
    BY <1>1 DEF BufData, Due, Owns
  <2>1. rpc = "own" /\ rpc' = "count" /\ r < 1
    BY <1>1 DEF Collected
  <2>2. r = 0
    BY <2>1 DEF DataInv, RootData
  <2>3. cbuf'[j] = Row(call, sel[j])
    BY <2>1, <2>2 DEF Contribute, Reduce
  <2> QED BY <1>1, <2>3 DEF Has, Row
<1>5. ASSUME NEW r \in Others, NEW v \in Workers, peer[r] = v
      PROVE  DownData(v)' /\ UpData(v)' /\ CoverData(r, v)'
  <2>1. DownData(v) /\ UpData(v) /\ CoverData(r, v)
    BY <1>1, <1>5 DEF DataInv, PeerData, Over
  <2>2. (Owes(r)' => Owes(r)) /\ rpc' # "row" /\ Same(v)
    BY <1>1 DEF Owes, Same
  <2> QED BY <1>1, <2>1, <2>2, PeerDataStays
<1>6. \A r \in Others : PeerData(r)'
  BY <1>1, <1>5 DEF PeerData
<1> QED BY <1>1, <1>2, <1>3, <1>4, <1>6 DEF DataInv

\* A frame of the answer of the rank whose turn it is is read.  Its rows are there, or are
\* to come; with the last of them all are there.
LEMMA ReadData ==
  ASSUME EpInv, DataInv, rpc \in {"count", "row"}, NEW w \in Workers, w = peer[at],
         up[w] # <<>>, up' = [up EXCEPT ![w] = Tail(@)],
         UNCHANGED <<nranks, peer, wpc, down, wout, table, plan, bound, call, x, sel, outbox>>,
         cbuf' = [j \in Slots |-> cbuf'[j]],
         \A j \in Slots : Has(j) => Has(j)',
         \A j \in Due(at) : Has(j)' \/ Promised(w, j)',
         left' \in Nat, left' = Len(up'[w]) + Cardinality(Todo(w)),
         IF left' = 0 THEN NextRank ELSE rpc' = "row" /\ at' = at
  PROVE  DataInv'
<1>1. /\ rpc \in Open /\ rpc \notin Over /\ at \in Others /\ at \in Nat /\ nranks \in Nat
      /\ at >= 1 /\ at <= nranks - 1 /\ Others' = Others
      /\ \A r \in Others : r \in Nat /\ r >= 1 /\ r <= nranks - 1
  BY RankFacts DEF EpInv, EpTypes, Open, Over, Others
<1>2. \/ left' # 0 /\ rpc' = "row" /\ at' = at
      \/ left' = 0 /\ at < nranks - 1 /\ rpc' = "count" /\ at' = at + 1
      \/ left' = 0 /\ at = nranks - 1 /\ rpc' = "reduce" /\ at' = 1
  <2>1. at >= nranks - 1 <=> ~(at < nranks - 1)
    BY <1>1
  <2>2. at >= nranks - 1 => at = nranks - 1
    BY <1>1
  <2> QED BY <2>1, <2>2 DEF NextRank, LastRank
<1>3. rank[w] = at /\ IsSeq(up[w]) /\ Len(up[w]) \in Nat /\ Len(up[w]) > 0
  BY <1>1, PeerFacts, SeqFacts
<1>4. /\ up'[w] = Tail(up[w]) /\ \A v \in Workers \ {w} : up'[v] = up[v]
      /\ Len(up'[w]) = Len(up[w]) - 1
      /\ \A i \in 1..Len(up'[w]) : i + 1 \in 1..Len(up[w]) /\ up'[w][i] = up[w][i + 1]
  <2>1. up'[w] = Tail(up[w]) /\ \A v \in Workers \ {w} : up'[v] = up[v]
    BY DEF EpInv, EpTypes
  <2>2. Len(Tail(up[w])) = Len(up[w]) - 1 /\ \A i \in 1..Len(up[w])-1 : Tail(up[w])[i] = up[w][i + 1]
    BY <1>3, TailFacts
  <2>3. \A i \in 1..Len(up[w])-1 : i + 1 \in 1..Len(up[w])
    BY <1>3
  <2> QED BY <2>1, <2>2, <2>3
<1>5. left' = 0 => \A j \in Due(at) : Has(j)'
  <2> SUFFICES ASSUME left' = 0, NEW j \in Due(at) PROVE ~Promised(w, j)'
    OBVIOUS
  <2>1. Cardinality(Todo(w)) \in Nat /\ (Cardinality(Todo(w)) = 0 <=> Todo(w) = {})
    <3>1. Todo(w) \subseteq Slots
      BY DEF Todo, EpInv, WorkersInv, ReplyInv, IsReply
    <3> QED BY <3>1, SlotsFacts
  <2>2. Len(up'[w]) = 0 /\ Todo(w) = {}
    <3>1. \A m, n \in Nat : 0 = m + n => m = 0 /\ n = 0
      OBVIOUS
    <3>2. Len(up'[w]) \in Nat
      BY <1>3, <1>4
    <3>3. Len(up'[w]) = 0 /\ Cardinality(Todo(w)) = 0
      BY <2>1, <3>1, <3>2
    <3> QED BY <2>1, <3>3
  <2>3. Todo(w)' = {}
    BY <2>2 DEF Todo
  <2>4. ~Said(w, j)'
    <3> SUFFICES ASSUME NEW i \in 1..Len(up'[w]) PROVE FALSE
      BY DEF Said
    <3>1. Len(up'[w]) = 0
      BY <2>2
    <3>2. i \in 1..0
      BY <3>1
    <3> QED BY <3>2
  <2> QED BY <2>3, <2>4 DEF Promised
<1>6. OutData'
  BY <1>2 DEF OutData, Sending
<1>7. RootData'
  <2>1. rpc \in Busy
    BY DEF Busy
  <2> QED BY <2>1 DEF DataInv, RootData
<1>8. BufData'
  <2> SUFFICES ASSUME NEW r \in 0..nranks-1, Collected(r)', NEW j \in Due(r)
               PROVE  Has(j)'
    BY DEF BufData, Due, Owns
  <2>1. r \in Nat /\ r <= nranks - 1
    BY <1>1
  <2>2. r < at \/ (r = at /\ left' = 0)
    BY <1>1, <1>2, <2>1 DEF Collected
  <2>3. CASE r < at
    <3>1. Has(j) /\ j \in Slots
      BY <2>3 DEF DataInv, BufData, Collected, Due
    <3> QED BY <3>1
  <2> QED BY <1>5, <2>2, <2>3
<1>9. ASSUME NEW r \in Others, NEW v \in Workers, peer[r] = v
      PROVE  DownData(v)' /\ UpData(v)' /\ CoverData(r, v)'
  <2>1. DownData(v) /\ UpData(v) /\ CoverData(r, v) /\ rank[v] = r
    BY <1>1, <1>9, PeerFacts DEF DataInv, PeerData
  <2>2. CASE r # at
    <3>1. Same(v)
      BY <1>3, <1>4, <2>1, <2>2 DEF Same
    <3>2. (Owes(r)' => Owes(r)) /\ ~(rpc' = "row" /\ r = at')
      BY <1>1, <1>2, <2>2 DEF Owes
    <3> QED BY <2>1, <3>1, <3>2, PeerDataStays
  <2>3. CASE r = at
    <3>1. v = w /\ ~Owes(r)'
      BY <1>1, <1>2, <1>9, <2>3 DEF Owes
    <3>2. DownData(v)'
      BY <2>1 DEF DownData, Genuine
    <3>3. UpData(v)'
      <4> SUFFICES ASSUME NEW i \in 1..Len(up'[w]), up'[w][i].k = "row"
                   PROVE  up'[w][i].row = Row(call, sel[up'[w][i].n])
        BY <3>1 DEF UpData, Row
      <4>1. i + 1 \in 1..Len(up[w]) /\ up'[w][i] = up[w][i + 1]
        BY <1>4
      <4> QED BY <2>1, <3>1, <4>1 DEF UpData
    <3>4. CoverData(r, v)'
      <4>1. Due(r)' = Due(r)
        BY DEF Due, Owns
      <4> QED BY <2>3, <3>1, <4>1 DEF CoverData
    <3> QED BY <3>2, <3>3, <3>4
  <2> QED BY <2>2, <2>3
<1>10. \A r \in Others : PeerData(r)'
  BY <1>1, <1>9 DEF PeerData
<1> QED BY <1>1, <1>6, <1>7, <1>8, <1>10 DEF DataInv

\* The count of the rows that come, or a row.
LEMMA ReadCountData ==
  ASSUME EpInv, DataInv, ReadCount
  PROVE  DataInv'
<1>1. PICK w : w = peer[at]
  OBVIOUS
<1>2. /\ w \in Workers /\ rpc = "count" /\ at \in Others
      /\ UNCHANGED <<nranks, wpc, down, wout, peer, bound, call, outbox, plan, callVars, table>>
      /\ up[w] # <<>> /\ up' = [up EXCEPT ![w] = Tail(@)]
      /\ up'[w] = Tail(up[w]) /\ IsSeq(up[w]) /\ Len(up[w]) > 0
      /\ up[w][1].k = "count"
      /\ left' \in Nat /\ left' = Len(up'[w]) + Cardinality(Todo(w))
      /\ IF left' = 0 THEN NextRank ELSE rpc' = "row" /\ at' = at
  BY <1>1, ReadCountFacts
<1>3. /\ UNCHANGED <<x, sel, cbuf>> /\ cbuf' = [j \in Slots |-> cbuf'[j]]
      /\ \A j \in Slots : Has(j) => Has(j)'
  BY <1>2 DEF callVars, Has, Row, DataInv, RootData
<1>4. ASSUME NEW j \in Due(at) PROVE Promised(w, j)'
  <2>1. Promised(w, j)
    <3>1. Owes(at) /\ rpc \notin Over
      BY <1>2, RankFacts DEF Owes, Over, EpInv
    <3>2. CoverData(at, w)
      BY <1>1, <1>2, <3>1 DEF DataInv, PeerData
    <3> QED BY <1>2, <3>1, <3>2 DEF CoverData
  <2>2. CASE j \in Todo(w)
    BY <1>2, <2>2 DEF Promised, Todo
  <2>3. CASE Said(w, j)
    <3>1. PICK i \in 1..Len(up[w]) : up[w][i].k = "row" /\ up[w][i].n = j
      BY <2>3 DEF Said
    <3>2. i # 1 /\ Len(up[w]) \in Nat
      BY <1>2, <3>1, SeqFacts
    <3>3. Len(Tail(up[w])) = Len(up[w]) - 1 /\ \A k \in 1..Len(up[w])-1 : Tail(up[w])[k] = up[w][k + 1]
      BY <1>2, TailFacts
    <3>4. i - 1 \in 1..Len(up[w])-1 /\ (i - 1) + 1 = i
      BY <3>2
    <3>5. i - 1 \in 1..Len(up'[w]) /\ up'[w][i - 1] = up[w][i]
      BY <1>2, <3>3, <3>4
    <3> QED BY <3>1, <3>5 DEF Promised, Said
  <2> QED BY <2>1, <2>2, <2>3 DEF Promised
<1> QED BY <1>1, <1>2, <1>3, <1>4, ReadData

LEMMA ReadRowData ==
  ASSUME EpInv, DataInv, ReadRow
  PROVE  DataInv'
<1>1. PICK w : w = peer[at]
  OBVIOUS
<1>2. PICK f : f = up[w][1]
  OBVIOUS
<1>3. /\ w \in Workers /\ rpc = "row" /\ at \in Others
      /\ UNCHANGED <<nranks, wpc, down, wout, peer, bound, call, outbox, plan, x, sel, table>>
      /\ up[w] # <<>> /\ up' = [up EXCEPT ![w] = Tail(@)]
      /\ up'[w] = Tail(up[w]) /\ IsSeq(up[w]) /\ Len(up[w]) > 0
      /\ f.k = "row" /\ f.n \in Slots
      /\ left' \in Nat /\ left' = Len(up'[w]) + Cardinality(Todo(w))
      /\ IF left' = 0 THEN NextRank ELSE rpc' = "row" /\ at' = at
      /\ cbuf' = [cbuf EXCEPT ![f.n] = f.row]
  BY <1>1, <1>2, ReadRowFacts
<1>4. UpData(w) /\ CoverData(at, w)
  <2>1. rpc \notin Over
    BY <1>3 DEF Over
  <2> QED BY <1>1, <1>3, <2>1 DEF DataInv, PeerData
<1>5. f.row = Row(call, sel[f.n])
  <2>1. 1 \in 1..Len(up[w])
    BY <1>3, SeqFacts
  <2> QED BY <1>2, <1>3, <1>4, <2>1 DEF UpData
<1>6. /\ cbuf' = [j \in Slots |-> cbuf'[j]]
      /\ cbuf'[f.n] = f.row /\ \A j \in Slots \ {f.n} : cbuf'[j] = cbuf[j]
  BY <1>3 DEF DataInv, RootData
<1>7. Has(f.n)' /\ \A j \in Slots : Has(j) => Has(j)'
  BY <1>3, <1>5, <1>6 DEF Has, Row
<1>8. ASSUME NEW j \in Due(at) PROVE Has(j)' \/ Promised(w, j)'
  <2>1. j \in Slots /\ (Has(j) \/ Promised(w, j))
    BY <1>3, <1>4 DEF CoverData, Due
  <2>2. CASE Has(j)
    BY <1>7, <2>1, <2>2
  <2>3. CASE j \in Todo(w)
    BY <1>3, <2>3 DEF Promised, Todo
  <2>4. CASE Said(w, j)
    <3>1. PICK i \in 1..Len(up[w]) : up[w][i].k = "row" /\ up[w][i].n = j
      BY <2>4 DEF Said
    <3>2. CASE i = 1
      BY <1>2, <1>7, <3>1, <3>2
    <3>3. CASE i # 1
      <4>1. Len(up[w]) \in Nat
        BY <1>3, SeqFacts
      <4>2. Len(Tail(up[w])) = Len(up[w]) - 1 /\ \A k \in 1..Len(up[w])-1 : Tail(up[w])[k] = up[w][k + 1]
        BY <1>3, TailFacts
      <4>3. i - 1 \in 1..Len(up[w])-1 /\ (i - 1) + 1 = i
        BY <3>3, <4>1
      <4>4. i - 1 \in 1..Len(up'[w]) /\ up'[w][i - 1] = up[w][i]
        BY <1>3, <4>2, <4>3
      <4> QED BY <3>1, <4>4 DEF Promised, Said
    <3> QED BY <3>2, <3>3
  <2> QED BY <2>1, <2>2, <2>3, <2>4 DEF Promised
<1> QED BY <1>1, <1>3, <1>6, <1>7, <1>8, ReadData

\* A call that is given up leaves no row to anybody.
LEMMA FailData ==
  ASSUME EpInv, DataInv, Punctual, SendFails \/ ReadFails
  PROVE  (EpInv' /\ DataInv') \/ Spoilt'
<1>1. UNCHANGED <<nranks, plan, table, cbuf, wpc>>
  BY DEF SendFails, ReadFails, Abandon, processes, rootVars, callVars
<1>2. rpc' \in Over => DataInv'
  BY <1>1, EndData
<1> QED BY <1>2, FailKeeps

LEMMA DataStep ==
  ASSUME EpInv, DataInv, Punctual, [Next]_vars
  PROVE  (EpInv' /\ DataInv') \/ Spoilt'
<1>1. EpInv' \/ Spoilt'
  BY PairedStep
<1>2. CASE SendFails \/ ReadFails
  BY <1>2, FailData
<1>3. CASE Opening /\ UNCHANGED <<rootVars, table, wout>>
  BY <1>1, <1>3, OpeningData
<1>4. CASE SendNext \/ Contribute \/ ReadCount \/ ReadRow \/ Reduce \/ StartCall \/ StartEnd
  BY <1>1, <1>4, SendNextData, OwnRowsData, ReadCountData, ReadRowData, StartCallData, StartEndData
<1>5. ASSUME NEW w \in Workers, WorkerWorks(w) \/ (Crash(w) /\ UNCHANGED <<rootVars, table, wout>>)
      PROVE  DataInv'
  BY <1>5, WorkerKeepsData
<1>6. CASE UNCHANGED vars
  <2>1. /\ UNCHANGED <<nranks, rpc, peer, wpc, down, up, wout, table, plan, bound, call, x, sel, cbuf,
                       outbox, at, left>>
        /\ Others' = Others
    BY <1>6 DEF vars, transport, processes, linkVars, rootVars, callVars, Others
  <2>2. RootData' /\ OutData' /\ BufData'
    BY <2>1 DEF DataInv, RootData, OutData, BufData, Genuine, Collected, Due, Owns, Has, Row
  <2>3. ASSUME NEW r \in Others, NEW v \in Workers, rpc \notin Over, peer[r] = v
        PROVE  DownData(v)' /\ UpData(v)' /\ CoverData(r, v)'
    <3>1. DownData(v) /\ UpData(v) /\ CoverData(r, v)
      BY <2>3 DEF DataInv, PeerData
    <3>2. (Owes(r)' => Owes(r)) /\ Same(v) /\ (rpc' = "row" /\ r = at' => rpc = "row" /\ r = at)
      BY <2>1 DEF Owes, Same
    <3> QED BY <2>1, <3>1, <3>2, PeerDataStays
  <2>4. \A r \in Others : PeerData(r)'
    BY <2>1, <2>3 DEF PeerData
  <2> QED BY <1>1, <2>1, <2>2, <2>4 DEF DataInv
<1> QED BY <1>1, <1>2, <1>3, <1>4, <1>5, <1>6 DEF Next, RootWorks

\* Without a table each rank owns as many experts as the others.
LEMMA ShareFacts ==
  ASSUME NEW n \in Nat, n >= 2, NExperts % n = 0, NEW e \in Experts
  PROVE  e \div (NExperts \div n) \in 0..n-1
<1> DEFINE q == NExperts \div n
           d == e \div q
<1>1. e \in Nat /\ e < NExperts /\ NExperts \in Nat
  BY ExpertsAssumption DEF Experts
<1>2. q \in Nat /\ NExperts = q * n
  <2>1. NExperts = n * q + (NExperts % n)
    BY <1>1
  <2>2. q \in Nat
    BY <1>1
  <2> QED BY <1>1, <2>1, <2>2
<1> HIDE DEF q
<1>3. q > 0
  BY <1>1, <1>2
<1>4. d \in Nat /\ d * q <= e
  <2>1. d \in Nat
    BY <1>1, <1>2, <1>3
  <2>2. e = q * d + (e % q) /\ (e % q) \in Nat
    BY <1>1, <1>2, <1>3
  <2> QED BY <1>1, <1>2, <2>1, <2>2
<1> HIDE DEF d
<1>5. d < n
  <2> SUFFICES ASSUME d >= n PROVE FALSE
    BY <1>4
  <2>1. d * q >= n * q
    BY <1>2, <1>3, <1>4
  <2> QED BY <1>1, <1>2, <1>4, <2>1
<1> QED BY <1>4, <1>5 DEF d, q

LEMMA InitData ==
  ASSUME Init, Alike
  PROVE  DataInv
<1>1. /\ nranks \in 2..MaxRanks /\ nranks \in Nat /\ nranks >= 2 /\ plan \in Plans /\ rpc = "listen"
      /\ peer = [r \in Others |-> None]
      /\ cbuf = [j \in Slots |-> Row(0, NoOne)]
  BY DEF Init, TransportInit
<1>2. PICK split : /\ \A w \in Workers : split[w] = split[Root]
                   /\ table = [p \in Workers \cup {Root} |-> Owners(split[p])]
  BY DEF Init
<1>3. \A s : Owners(s) \in [Experts -> 0..nranks-1]
  <2> SUFFICES ASSUME NEW s, NEW e \in Experts
               PROVE  (IF s > 0 /\ nranks = 2 /\ s < NExperts THEN (IF e < s THEN 0 ELSE 1)
                         ELSE e \div (NExperts \div nranks)) \in 0..nranks-1
    BY DEF Owners
  <2>1. e \div (NExperts \div nranks) \in 0..nranks-1
    BY <1>1, ShareFacts, ExpertsAssumption
  <2>2. 0 \in 0..nranks-1 /\ 1 \in 0..nranks-1
    BY <1>1
  <2> QED BY <2>1, <2>2
<1>4. RootData
  BY <1>1, <1>2, <1>3 DEF RootData, Busy
<1>5. OutData /\ BufData
  BY <1>1 DEF OutData, BufData, Collected, Sending
<1>6. \A r \in Others : PeerData(r)
  BY <1>1, NoneAssumption DEF PeerData
<1> QED BY <1>4, <1>5, <1>6 DEF DataInv

\* The rows of the call are the coordinator's to have, until a call is given up.
ExactInv == crashes \in Nat /\ slow \in BOOLEAN /\ Punctual /\ ((EpInv /\ DataInv) \/ Spoilt)

LEMMA ExactStep ==
  ASSUME ExactInv, [Next]_vars
  PROVE  ExactInv'
<1>1. slow' = slow /\ driver' = driver /\ crashes' \in Nat
  BY SessionFacts DEF ExactInv
<1>2. Punctual'
  BY <1>1 DEF ExactInv, Punctual
<1>3. (EpInv' /\ DataInv') \/ Spoilt'
  BY DataStep, SpoiltStays DEF ExactInv
<1> QED BY <1>1, <1>2, <1>3 DEF ExactInv

\* Whoever dies, the rows a layer's output is computed from (moe_ep_reduce) are those of the
\* call and of the experts a single process would choose, if all processes split the experts
\* alike and no answer comes too late for the forward pass.
THEOREM FfnStaysExact ==
  ASSUME Alike, "forward" \notin SlowDrivers
  PROVE  Spec => []FfnExact
<1>1. Init => ExactInv
  <2> SUFFICES ASSUME Init PROVE ExactInv
    OBVIOUS
  <2>1. crashes = 0 /\ slow \in BOOLEAN /\ Punctual
    BY DEF Init, TransportInit, Punctual
  <2> QED BY <2>1, InitEp, InitData DEF ExactInv
<1>2. ExactInv /\ [Next]_vars => ExactInv'
  BY ExactStep
<1>3. ExactInv => FfnExact
  <2> SUFFICES ASSUME ExactInv, rpc = "reduce"
               PROVE  /\ Preferred(x, Experts, sel)
                      /\ \A j \in Slots : sel[j] # NoOne => cbuf[j] = Row(call, sel[j])
    BY DEF FfnExact
  <2>1. EpInv /\ DataInv
    BY DEF ExactInv, Spoilt, Stuck, Over, Sending
  <2>2. Preferred(x, Experts, sel) /\ sel \in [Slots -> Experts \cup {NoOne}]
    <3>1. x \in [Experts -> Nat \cup {NaN}] /\ sel = Route(x)
      BY <2>1, InputsAssumption DEF DataInv, RootData, Busy
    <3> QED BY <3>1, RouteRight
  <2>3. ASSUME NEW j \in Slots, sel[j] # NoOne PROVE Has(j)
    <3>1. PICK r \in 0..nranks-1 : r = table[Root][sel[j]]
      BY <2>1, <2>2, <2>3 DEF DataInv, RootData
    <3>2. j \in Due(r) /\ Collected(r)
      BY <2>3, <3>1 DEF Due, Owns, Collected
    <3> QED BY <2>1, <3>2 DEF DataInv, BufData
  <2> QED BY <2>2, <2>3 DEF Has
<1> QED BY <1>1, <1>2, <1>3, PTL DEF Spec
=============================================================================
