-------------------------- MODULE BatchSchedProps ---------------------------
(***************************************************************************)
(* What the batch scheduler must get right, and how it implements the      *)
(* promise stated in LockstepDecode.                                       *)
(***************************************************************************)
EXTENDS BatchSched

\* Whoever is about to sample has had every token it submitted forwarded once,
\* and samples from the logits of its own last token: no stale epoch lets
\* vb_step return early, and no forward reaches the state twice or crosses
\* requests that reuse a slot.  A forward without memory breaks it (ScratchFails):
\* vllm_batch.c:7-8 says that the engine "runs ONE forward for the whole set ..., then
\* bumps each node's done_epoch", and it bumps them all the same.
ExactlyOnce ==
  \A w \in Workers :
    wpc[w] = "decode" =>
      /\ st[slot[w]].live
      /\ st[slot[w]].rows = gen[w]
      /\ st[slot[w]].logits = <<w, gen[w]>>

\* From the moment the engine drops `lock` with a list of slots until it
\* reacquires it to write them back, every slot on the list belongs to a
\* worker blocked in vb_step with that same token: the state the engine
\* forwards is neither freed, prefilled nor handed to another request.
BatchIsStable ==
  epc \in {"lock", "forward", "commit"} =>
    \A n \in batch :
      /\ st[n].live
      /\ \E w \in Workers :
           slot[w] = n /\ wpc[w] \in Stepping /\ toks[n] = <<w, gen[w]>>

\* A slot is on the free list or held by exactly one worker, and `used` says
\* which: vb_acquire and vb_release neither leak nor double-book a slot.
SlotsPartitioned ==
  /\ \A v, w \in Workers : wpc[v] \in Holding /\ slot[v] = slot[w] => v = w
  /\ \A n \in Nodes :
       /\ n \in free <=> ~node[n].used
       /\ n \in free <=> \A w \in Workers : slot[w] # n

\* While a worker waits in vb_step its token is either still offered to the
\* engine or already marked done: a request for a step is never dropped.
StepNotDropped ==
  \A w \in Workers :
    wpc[w] \in Stepping => node[slot[w]].want \/ StepDone(slot[w])

(***************************************************************************)
(* The inductive invariant behind them.                                    *)
(***************************************************************************)

\* Slots and their holders.
SlotInv ==
  /\ \A w \in Workers : slot[w] \in Nodes <=> wpc[w] \in Holding
  /\ \A v, w \in Workers : slot[v] \in Nodes /\ slot[v] = slot[w] => v = w
  /\ \A n \in Nodes :
       /\ n \in free <=> ~node[n].used
       /\ n \in free <=> \A w \in Workers : slot[w] # n

\* No epoch in the table is ahead of the counter.
EpochInv ==
  \A n \in Nodes : node[n].doneEpoch <= epoch /\ node[n].waitEpoch <= epoch

\* want_step is set only while the holder is inside vb_step.
WantInv ==
  \A n \in Nodes :
    node[n].want => \E w \in Workers : slot[w] = n /\ wpc[w] \in Stepping

\* What the engine carries from one critical section to the next is current.
BatchInv ==
  epc \in {"lock", "forward", "commit"} =>
    \A n \in batch : node[n].want /\ toks[n] = node[n].token

\* The inference state of a worker, place by place; what is in it is known as long
\* as no forward fails.
Forwarded(n) == epc = "commit" /\ n \in batch
Fresh(w)   == st[slot[w]].live /\ st[slot[w]].rows = 0 /\ gen[w] = 0
Current(w) ==
  \/ ScratchFails
  \/ st[slot[w]].rows = gen[w] /\ st[slot[w]].logits = <<w, gen[w]>>
Behind(w)  == ScratchFails \/ st[slot[w]].rows + 1 = gen[w]
Waiting(w) ==
  LET n == slot[w] IN
  /\ st[n].live
  /\ node[n].token = <<w, gen[w]>>
  /\ node[n].want <=> ~StepDone(n)
  /\ IF node[n].want /\ ~Forwarded(n) THEN Behind(w) ELSE Current(w)

StateOf(w) ==
  /\ wpc[w] \in {"prefill", "prefilling"} => Fresh(w)
  /\ wpc[w] = "decode" => st[slot[w]].live /\ Current(w)
  /\ wpc[w] \in Stepping => Waiting(w)

StateInv == \A w \in Workers : StateOf(w)

\* vllm_batch_destroy finds no request running.
StopInv == stop => \A w \in Workers : wpc[w] = "none"

\* The strengthening that each action preserves and that implies the four
\* safety properties above.
IInv == TypeOK /\ SlotInv /\ EpochInv /\ WantInv /\ BatchInv /\ StateInv /\ StopInv

(***************************************************************************)
(* Refinement: a worker's request as LockstepDecode sees it.               *)
(***************************************************************************)
PhaseOf(w) ==
  CASE wpc[w] \in {"none", "wake"} -> "none"
    [] wpc[w] \in {"acquire", "full", "slotWait", "slotAsleep"} -> "queued"
    [] wpc[w] \in {"init", "prefill", "prefilling"} -> "loading"
    [] wpc[w] \in {"decode", "release"} -> "decoding"
    [] OTHER -> "awaiting"

SubmittedBy(w) == IF wpc[w] \in {"decode", "release"} \cup Stepping THEN gen[w] ELSE 0

ForwardedFor(w) == IF slot[w] = NoNode THEN 0 ELSE st[slot[w]].rows

Promise == INSTANCE LockstepDecode WITH
  Requesters <- Workers,
  phase      <- [w \in Workers |-> PhaseOf(w)],
  submitted  <- [w \in Workers |-> SubmittedBy(w)],
  forwarded  <- [w \in Workers |-> ForwardedFor(w)]

\* The scheduler, with its threads and its wakeups, implements the promise.
ImplementsPromise == Promise!Spec

(***************************************************************************)
(* Liveness, under Fairness.                                               *)
(***************************************************************************)

\* A token the engine has collected is forwarded, or a forward of it is tried and
\* fails, and it is marked done, whatever prefills compete for the engine mutex.
CollectedIsForwarded ==
  \A n \in Nodes : (epc = "lock" /\ n \in batch) ~> (n \in Nodes /\ StepDone(n))

\* vllm_batch_destroy's join returns: an engine asleep, or about to fall
\* asleep, when `stop` is set still leaves its loop.
DestroyJoins == stop ~> (epc = "exited")

\* vllm_batch.h: "No condition-variable dependency: waiters poll with a 1-2ms
\* backoff".  Were it so, every token handed to vb_step would come back.
StepReturns ==
  \A w \in Workers : wpc[w] \in Stepping ~> wpc[w] \notin Stepping
=============================================================================
