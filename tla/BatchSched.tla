----------------------------- MODULE BatchSched -----------------------------
(***************************************************************************)
(* The continuous-batching scheduler (src/src/serve/vllm_batch.c).         *)
(*                                                                         *)
(* One engine thread runs every batched forward.  HTTP worker threads each *)
(* take a slot (VBNode), prefill under the engine mutex, then alternate    *)
(* between sampling a token and handing it to the engine (vb_step).  The   *)
(* threads share the slot table under `lock`, the mutex `engine` and ONE   *)
(* condition variable `cv`, on which the idle engine, the workers waiting  *)
(* for a slot and the workers waiting for a step all sleep.                *)
(*                                                                         *)
(* Atomicity: a critical section of `lock` or of `cv_mu` is one action (no *)
(* other lock is taken inside one).  The engine mutex is held across a     *)
(* forward or a prefill and is a variable.  Everything between two such    *)
(* sections can be interleaved, which is where wakeups can be lost.        *)
(*                                                                         *)
(* Abstracted: token values, text and metrics (a token is its position in  *)
(* its request); the LIFO order of the free list (nothing reads it).       *)
(***************************************************************************)
EXTENDS Naturals, FiniteSets

CONSTANTS
  Workers,      \* HTTP worker threads
  BatchMax,     \* slots (batch_max, clamped to at least 2)
  MaxTokens,    \* a request's max_tokens
  ScratchFails, \* a forward may find no memory for its scratch buffers
  MaxRequests   \* bound: requests each worker runs

ASSUME WorkersAssumption == IsFiniteSet(Workers) /\ Workers # {}
ASSUME BatchMaxAssumption == BatchMax \in Nat /\ BatchMax >= 2
ASSUME MaxTokensAssumption == MaxTokens \in Nat \ {0}
ASSUME ScratchFailsAssumption == ScratchFails \in BOOLEAN
ASSUME MaxRequestsAssumption == MaxRequests \in Nat \ {0}

Nodes   == 1 .. BatchMax
NoNode  == 0
NoToken == <<>>
\* The k-th token of the request `w` is running; position 0 is its prompt.
Token   == Workers \X Nat

VARIABLES
  node,      \* the slot table: used, want (want_step), token, waitEpoch, doneEpoch
  free,      \* the free list
  epoch,     \* completed batch-step counter
  stop,      \* set by vllm_batch_destroy
  engine,    \* holder of the engine mutex: "nobody", "engine" or a worker
  epc,       \* where the engine thread is
  batch,     \* the slots the engine collected for this forward
  toks,      \* the tokens it copied with them
  wpc,       \* where each worker is
  slot,      \* the slot a worker holds
  gen,       \* tokens its request has submitted to vb_step
  requests,  \* requests it has run (bounds the model)
  st         \* ghost: the inference state behind each slot

schedVars  == <<node, free, epoch, stop>>
engineVars == <<engine, epc, batch, toks>>
workerVars == <<wpc, slot, gen, requests>>
vars       == <<schedVars, engineVars, workerVars, st>>

\* An inference state: allocated or not, decode tokens forwarded through it,
\* and the token whose forward its logits come from.
FreedState     == [live |-> FALSE, rows |-> 0, logits |-> NoToken]
AllocatedState == [live |-> TRUE, rows |-> 0, logits |-> NoToken]

EngineAt == {"scan", "idle", "asleep", "lock", "forward", "commit", "notify", "exited"}
WorkerAt == {"none", "acquire", "full", "slotWait", "slotAsleep", "init", "prefill",
             "prefilling", "decode", "signal", "check", "stepWait", "stepAsleep",
             "release", "wake"}
\* Between claiming a slot and giving it back.
Holding  == {"init", "prefill", "prefilling", "decode", "signal", "check", "stepWait",
             "stepAsleep", "release"}
\* Inside vb_step, after the token was published.
Stepping == {"signal", "check", "stepWait", "stepAsleep"}

NodeRecord  == [used : BOOLEAN, want : BOOLEAN, token : Token \cup {NoToken},
                waitEpoch : Nat, doneEpoch : Nat]
StateRecord == [live : BOOLEAN, rows : Nat, logits : Token \cup {NoToken}]

TypeOK ==
  /\ node \in [Nodes -> NodeRecord]
  /\ free \in SUBSET Nodes
  /\ epoch \in Nat
  /\ stop \in BOOLEAN
  /\ engine \in {"nobody", "engine"} \cup Workers
  /\ epc \in EngineAt
  /\ batch \in SUBSET Nodes
  /\ toks \in [Nodes -> Token \cup {NoToken}]
  /\ wpc \in [Workers -> WorkerAt]
  /\ slot \in [Workers -> Nodes \cup {NoNode}]
  /\ gen \in [Workers -> 0 .. MaxTokens - 1]
  /\ requests \in [Workers -> 0 .. MaxRequests]
  /\ st \in [Nodes -> StateRecord]

Init ==
  /\ node = [n \in Nodes |-> [used |-> FALSE, want |-> FALSE, token |-> NoToken,
                              waitEpoch |-> 0, doneEpoch |-> 0]]
  /\ free = Nodes
  /\ epoch = 0
  /\ stop = FALSE
  /\ engine = "nobody"
  /\ epc = "scan"
  /\ batch = {}
  /\ toks = [n \in Nodes |-> NoToken]
  /\ wpc = [w \in Workers |-> "none"]
  /\ slot = [w \in Workers |-> NoNode]
  /\ gen = [w \in Workers |-> 0]
  /\ requests = [w \in Workers |-> 0]
  /\ st = [n \in Nodes |-> FreedState]

(***************************************************************************)
(* The condition variable.  Whoever wakes looks again at what it was       *)
(* waiting for.                                                            *)
(***************************************************************************)
Awake(at) ==
  CASE at = "slotAsleep" -> "acquire"
    [] at = "stepAsleep" -> "check"
    [] OTHER -> at

AwakeEngine(at) == IF at = "asleep" THEN "scan" ELSE at

\* pthread_cond_broadcast.
AllAwake == [w \in Workers |-> Awake(wpc[w])]

Sleepers == {w \in Workers : wpc[w] \in {"slotAsleep", "stepAsleep"}}

(***************************************************************************)
(* The engine thread.                                                      *)
(***************************************************************************)
\* (mutation: want_step not tested)
Occupied == {n \in Nodes : node[n].used}

Pending == {n \in Nodes : node[n].used /\ node[n].want}

\* The loop head, and under `lock` the scan that collects the slots with a token.
EngineScan ==
  /\ epc = "scan"
  /\ IF stop
     THEN epc' = "exited" /\ UNCHANGED <<batch, toks>>
     ELSE /\ batch' = Pending
          /\ toks' = [n \in Nodes |-> node[n].token]
          /\ epc' = IF Pending = {} THEN "idle" ELSE "lock"
  /\ UNCHANGED <<schedVars, engine, workerVars, st>>

\* (mutation: `stop` not looked at under cv_mu)
EngineSleepUnchecked ==
  /\ epc = "idle"
  /\ epc' = "asleep"
  /\ UNCHANGED <<schedVars, engine, batch, toks, workerVars, st>>

\* Under cv_mu: only `stop` is looked at again, not want_step.
EngineSleep ==
  /\ epc = "idle"
  /\ epc' = IF stop THEN "scan" ELSE "asleep"
  /\ UNCHANGED <<schedVars, engine, batch, toks, workerVars, st>>

EngineLock ==
  /\ epc = "lock"
  /\ engine = "nobody"
  /\ engine' = "engine"
  /\ epc' = "forward"
  /\ UNCHANGED <<schedVars, batch, toks, workerVars, st>>

\* st_qwen_model_forward_batch appends each token to its state and leaves the
\* logits of the next position there; skipped when the scheduler is stopping.  It
\* returns nothing: without memory it leaves the states, and the engine goes on.
EngineForward ==
  /\ epc = "forward"
  /\ \/ st' = [n \in Nodes |->
                 IF n \in batch /\ ~stop
                 THEN [st[n] EXCEPT !.rows = @ + 1, !.logits = toks[n]]
                 ELSE st[n]]
     \/ ScratchFails /\ UNCHANGED st
  /\ engine' = "nobody"
  /\ epc' = "commit"
  /\ UNCHANGED <<schedVars, batch, toks, workerVars>>

\* (mutation: done_epoch = b->epoch++)
EpochBeforeBump(n) == epoch + Cardinality({m \in batch : m < n})

\* The loop bumps `epoch` once per slot, in the order of the table.
EpochOf(n) == epoch + Cardinality({m \in batch : m <= n})

EngineCommit ==
  /\ epc = "commit"
  /\ node' = [n \in Nodes |->
                IF n \in batch
                THEN [node[n] EXCEPT !.want = FALSE, !.doneEpoch = EpochOf(n)]
                ELSE node[n]]
  /\ epoch' = epoch + Cardinality(batch)
  /\ epc' = "notify"
  /\ UNCHANGED <<free, stop, engine, batch, toks, workerVars, st>>

EngineNotify ==
  /\ epc = "notify"
  /\ wpc' = AllAwake
  /\ epc' = "scan"
  /\ UNCHANGED <<schedVars, engine, batch, toks, slot, gen, requests, st>>

Engine == EngineScan \/ EngineSleep \/ EngineLock \/ EngineForward \/ EngineCommit
            \/ EngineNotify

(***************************************************************************)
(* A worker thread running one request (vllm_batch_run).                   *)
(***************************************************************************)
Goto(w, at) == wpc' = [wpc EXCEPT ![w] = at]

\* A request reaches vllm_batch_run.
Arrive(w) ==
  /\ wpc[w] = "none"
  /\ ~stop
  /\ requests[w] < MaxRequests
  /\ requests' = [requests EXCEPT ![w] = @ + 1]
  /\ Goto(w, "acquire")
  /\ UNCHANGED <<schedVars, engineVars, slot, gen, st>>

\* vb_acquire: the look at the free list, under `lock`.
AcquireSlot(w) ==
  /\ wpc[w] = "acquire"
  /\ \E n \in free :
       /\ free' = free \ {n}
       /\ node' = [node EXCEPT ![n] =
                      [@ EXCEPT !.used = TRUE, !.want = FALSE, !.doneEpoch = 0]]
       /\ slot' = [slot EXCEPT ![w] = n]
  /\ Goto(w, "init")
  /\ UNCHANGED <<epoch, stop, engineVars, gen, requests, st>>

AcquireFull(w) ==
  /\ wpc[w] = "acquire"
  /\ free = {}
  /\ Goto(w, "full")
  /\ UNCHANGED <<schedVars, engineVars, slot, gen, requests, st>>

\* The deadline (VB_SLOT_WAIT_MS) is only looked at here, awake: rc = -3.
AcquireTimeout(w) ==
  /\ wpc[w] = "full"
  /\ Goto(w, "none")
  /\ UNCHANGED <<schedVars, engineVars, slot, gen, requests, st>>

AcquireAgain(w) ==
  /\ wpc[w] = "full"
  /\ ~stop
  /\ Goto(w, "slotWait")
  /\ UNCHANGED <<schedVars, engineVars, slot, gen, requests, st>>

\* Under cv_mu, an untimed wait: the free list is not looked at again.
AcquireSleep(w) ==
  /\ wpc[w] = "slotWait"
  /\ Goto(w, IF stop THEN "acquire" ELSE "slotAsleep")
  /\ UNCHANGED <<schedVars, engineVars, slot, gen, requests, st>>

\* st_qwen_inference_init; it may fail (rc = -1).
InitState(w) ==
  /\ wpc[w] = "init"
  /\ \/ /\ st' = [st EXCEPT ![slot[w]] = AllocatedState]
        /\ Goto(w, "prefill")
     \/ /\ Goto(w, "release")
        /\ UNCHANGED st
  /\ gen' = [gen EXCEPT ![w] = 0]
  /\ UNCHANGED <<schedVars, engineVars, slot, requests>>

PrefillLock(w) ==
  /\ wpc[w] = "prefill"
  /\ engine = "nobody"
  /\ engine' = w
  /\ Goto(w, "prefilling")
  /\ UNCHANGED <<schedVars, epc, batch, toks, slot, gen, requests, st>>

\* (mutation: a failed prefill returns with the engine mutex held)
PrefillKeepsEngine(w) ==
  /\ wpc[w] = "prefilling"
  /\ \/ /\ st' = [st EXCEPT ![slot[w]] = [@ EXCEPT !.logits = <<w, 0>>]]
        /\ Goto(w, "decode")
        /\ engine' = "nobody"
     \/ /\ Goto(w, "release")
        /\ UNCHANGED <<st, engine>>
  /\ UNCHANGED <<schedVars, epc, batch, toks, slot, gen, requests>>

\* The prefill leaves the logits of the prompt's last position, or fails.
Prefill(w) ==
  /\ wpc[w] = "prefilling"
  /\ \/ /\ st' = [st EXCEPT ![slot[w]] = [@ EXCEPT !.logits = <<w, 0>>]]
        /\ Goto(w, "decode")
     \/ /\ Goto(w, "release")
        /\ UNCHANGED st
  /\ engine' = "nobody"
  /\ UNCHANGED <<schedVars, epc, batch, toks, slot, gen, requests>>

\* (mutation: step < max_tokens)
TokensAllowed(w) == gen[w] < MaxTokens

\* vb_step runs only `if (step + 1 < max_tokens)`.
TokensLeft(w) == gen[w] + 1 < MaxTokens

\* Samples from the slot's logits a token that is not an end token and, with
\* tokens left to generate, publishes it: the first critical section of vb_step.
SubmitToken(w) ==
  /\ wpc[w] = "decode"
  /\ TokensLeft(w)
  /\ gen' = [gen EXCEPT ![w] = @ + 1]
  /\ node' = [node EXCEPT ![slot[w]] =
                 [@ EXCEPT !.token = <<w, gen[w] + 1>>, !.want = TRUE, !.waitEpoch = epoch]]
  /\ Goto(w, "signal")
  /\ UNCHANGED <<free, epoch, stop, engineVars, slot, requests, st>>

\* An end token, a failed stream write, or the last of max_tokens.
EndDecode(w) ==
  /\ wpc[w] = "decode"
  /\ Goto(w, "release")
  /\ UNCHANGED <<schedVars, engineVars, slot, gen, requests, st>>

\* pthread_cond_signal: wakes one sleeper on cv, the engine or any worker.
StepSignal(w) ==
  /\ wpc[w] = "signal"
  /\ \/ /\ epc = "asleep"
        /\ epc' = "scan"
        /\ Goto(w, "check")
     \/ \E v \in Sleepers :
          /\ wpc' = [wpc EXCEPT ![w] = "check", ![v] = Awake(@)]
          /\ UNCHANGED epc
     \/ /\ epc # "asleep"
        /\ Sleepers = {}
        /\ Goto(w, "check")
        /\ UNCHANGED epc
  /\ UNCHANGED <<schedVars, engine, batch, toks, slot, gen, requests, st>>

\* (mutation: an epoch not newer than the submission counts)
StepDoneEarly(n) == node[n].doneEpoch >= node[n].waitEpoch

\* The loop of vb_step: done_epoch is read outside cv_mu.
StepDone(n) == node[n].doneEpoch > node[n].waitEpoch

StepCheck(w) ==
  /\ wpc[w] = "check"
  /\ Goto(w, IF StepDone(slot[w]) THEN "decode" ELSE "stepWait")
  /\ UNCHANGED <<schedVars, engineVars, slot, gen, requests, st>>

\* Under cv_mu: waits without looking at done_epoch (or stop) again.
StepSleep(w) ==
  /\ wpc[w] = "stepWait"
  /\ Goto(w, "stepAsleep")
  /\ UNCHANGED <<schedVars, engineVars, slot, gen, requests, st>>

\* (mutation: `used` stays set)
ReleaseSlotStillUsed(w) ==
  /\ wpc[w] = "release"
  /\ st' = [st EXCEPT ![slot[w]] = FreedState]
  /\ free' = free \cup {slot[w]}
  /\ slot' = [slot EXCEPT ![w] = NoNode]
  /\ Goto(w, "wake")
  /\ UNCHANGED <<node, epoch, stop, engineVars, gen, requests>>

\* vb_release: the state is freed, then the slot goes back under `lock`.
ReleaseSlot(w) ==
  /\ wpc[w] = "release"
  /\ st' = [st EXCEPT ![slot[w]] = FreedState]
  /\ node' = [node EXCEPT ![slot[w]] = [@ EXCEPT !.used = FALSE]]
  /\ free' = free \cup {slot[w]}
  /\ slot' = [slot EXCEPT ![w] = NoNode]
  /\ Goto(w, "wake")
  /\ UNCHANGED <<epoch, stop, engineVars, gen, requests>>

ReleaseNotify(w) ==
  /\ wpc[w] = "wake"
  /\ wpc' = [AllAwake EXCEPT ![w] = "none"]
  /\ epc' = AwakeEngine(epc)
  /\ UNCHANGED <<schedVars, engine, batch, toks, slot, gen, requests, st>>

Worker(w) ==
  \/ AcquireSlot(w) \/ AcquireFull(w) \/ AcquireTimeout(w) \/ AcquireAgain(w)
  \/ AcquireSleep(w) \/ InitState(w) \/ PrefillLock(w) \/ Prefill(w)
  \/ SubmitToken(w) \/ EndDecode(w) \/ StepSignal(w) \/ StepCheck(w) \/ StepSleep(w)
  \/ ReleaseSlot(w) \/ ReleaseNotify(w)

(***************************************************************************)
(* Teardown and the environment.                                           *)
(***************************************************************************)

\* vllm_batch_destroy sets `stop`, broadcasts under cv_mu and joins the engine.
\* Its callers (model unload, server exit) have drained the requests.
Destroy ==
  /\ ~stop
  /\ \A w \in Workers : wpc[w] = "none"
  /\ stop' = TRUE
  /\ epc' = AwakeEngine(epc)
  /\ UNCHANGED <<node, free, epoch, engine, batch, toks, workerVars, st>>

\* POSIX lets a condition wait return without a signal.
SpuriousWakeup ==
  /\ \/ /\ epc = "asleep"
        /\ epc' = "scan"
        /\ UNCHANGED wpc
     \/ \E w \in Sleepers :
          /\ Goto(w, Awake(wpc[w]))
          /\ UNCHANGED epc
  /\ UNCHANGED <<schedVars, engine, batch, toks, slot, gen, requests, st>>

Next ==
  \/ Engine
  \/ \E w \in Workers : Arrive(w) \/ Worker(w)
  \/ Destroy
  \/ SpuriousWakeup

Spec == Init /\ [][Next]_vars

\* Every thread keeps being scheduled; the engine mutex, a test-and-set or
\* pthread mutex, is not held for ever, and who asks for it often enough gets it.
Fairness ==
  /\ WF_vars(Engine)
  /\ SF_vars(EngineLock)
  /\ \A w \in Workers : WF_vars(Worker(w)) /\ SF_vars(PrefillLock(w))

FairSpec == Spec /\ Fairness
=============================================================================
