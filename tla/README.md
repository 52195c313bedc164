# A TLA+ model of the kestrel-llm server

Kestrel is an LLM inference engine in C with an HTTP server around it
(`src/serve/`, `src/main.c`).  The numeric kernels are sequential and left to
tests.  What tests hardly reach is everything around them: threads that share
one model, one KV cache, one batch engine, one pool of compute threads and a
directory of files, weights that are loaded and unloaded under their users,
caches whose contents must follow a token sequence through prefix reuse,
eviction, speculation and restarts.  That is what these modules model.

Paths are relative to the repository.  `PROJECT.json` holds the machine-readable
part: components, runs, mutants, the source lines of every definition (`map`),
findings, hazards, theorems.

## 1. Inventory

| Component | State | Operations | What makes it hard |
|---|---|---|---|
| **Continuous batching** `serve/vllm_batch.c` | slot table, free list, epoch counter, engine mutex, one condition variable | acquire, prefill, submit a token (`vb_step`), batched forward, release, destroy | one condition variable for three kinds of sleepers, waits without a timeout, a list of slots used outside the lock |
| **Model lifecycle and admission** `serve/vllm_server.c`, `main.c` | `load_state`, `unload_pending`, `inflight_handlers`, active/queued/busy counters, `inf_lock`, the model pointers in `ctx` | enter, ensure model, load on use, gate, run, leave, load thread, unload, monitor tick, health | model pointers are read without a lock; counters are all that keeps the model allocated |
| **KV prefix reuse** `serve/vllm_server.c`, end of `model/vllm_safetensors.c` | KV rows, logits, `last_ids`/`last_mark`, checkpoint index, KV files, rulebook snapshots | find rows to keep, load a file, reset, prefill, decode, save, evict, restart | rows and the tokens that vouch for them change at different times; files may be short; saves after the lock |
| **L3 cold KV eviction** `main.c`, `core/vllm_l3.c`, `model/vllm_safetensors.c` | blocks in RAM or not, payloads on disk, stale flags, the buffer, one file per user | evict after prefill, restore a prefix, back freed blocks, switch files, turn on and off | a payload outlives the rows it was made of; a file belongs to one user and the cache to the last one |
| **Residency ladder** `serve/vllm_server.c` | level, `g_l3_evict`, sparse attention, idle clock | tick, set level, resume, load and unload | levels change beside requests, loads and each other |
| **CPU thread pool** `core/vllm_tp.c` | job descriptor, generation, done counter, parked flags | publish, wake, run, join, shut down | publication without a lock, parking, timed waits |
| **HTTP server** `serve/vllm_http.c` | ring of connections, stop flag | accept, push (sheds the oldest), pop, answer, stream, stop | overload, ownership of a streamed connection |
| **Audit log** `serve/vllm_audit.c` | last hash, sequence number, file | init, add, verify | the record is composed before the lock; cut last line; writes that come short and go unnoticed |
| **Sessions** `serve/vllm_session.c`, `handle_chat` | one file per session | read or take the request's own messages, append, write, collect, delete | read, infer, write back; a rewrite empties the file first |
| **Speculative decoding** `decode_loop` | draft, predictions, rows past the accepted prefix, positions | draft, verify, roll back, replay, emit | rows and positions rolled back by hand, stale predictions |
| **Expert parallelism** `core/vllm_ep.c`, `model/vllm_safetensors.c` | connections, the owner table of every process, whether the table was handed out, rows kept from call to call | open a session, hand out the table, broadcast a call, answer it, reduce, end | processes that die or are late, broadcasts that stop half way, frames that must pair |
| **Rulebooks** `serve/vllm_rulebook.c` | package and metadata files | build (offline), render, fingerprint | stale snapshots (modelled in KV reuse) |
| Admin API, attestation, legacy scheduler, transport, kernels, container format, tokenizer, vision, NPU, cryptography, CLI, converters | | | see section 7 and `PROJECT.json` |

How they interact.  `vllm_http.c` accepts connections and calls `server_handler`
on one of its worker threads, which counts itself in and dispatches.  An
inference handler makes sure a model is loaded (perhaps starting a load thread),
builds its prompt from `ctx->tok` and `ctx->cfg` without a lock, passes the gate,
and then either runs alone under `inf_lock` on `ctx->ist` (prefix reuse, eviction
and speculation apply) or joins the batch scheduler with a KV state of its own.
Either way the forward runs on the thread pool, one caller at a time.  A chat
turn of a session reads its file before and writes it after.  An admin handler or
the monitor thread unloads (close the gate, wait until nobody is inside, take
`inf_lock`, destroy the scheduler, free) and moves the residency level, which
turns eviction on and off and may unload.  Admin actions are recorded in the audit
log by the handler that did them.  Expert parallelism is not part of the server: it is
a mode of the command line, in which one process runs the transformer and the others
compute experts for it.

What makes each component correct:

- batching: a request samples only from logits of its own last token, every
  token is forwarded once, slots are conserved, no submitted token is forgotten,
  waits end;
- lifecycle: no user of the model loses it, counters are exact, one load at a
  time, no leak, the gate reopens, every request is answered;
- KV reuse and eviction: whatever is kept, loaded or evicted, a request decodes in
  the context of exactly its prompt, with fresh logits; a file holds the rows of
  the tokens it is named by;
- residency: the level that is reported is the level in effect; an idle model goes;
- thread pool: every item of a region runs once, inside the region; joins end;
- HTTP: a connection has one owner and is closed once, in overload too;
- sessions: turns are not repeated or reordered, nor lost but with the file (removed,
  cut, emptied by a rewrite that fails), by overlapping requests, or because the client
  replaced them with messages of its own;
- audit: a log that nobody touched, and whose writes were complete, verifies, and a
  touched one does not;
- speculation: it cannot be seen in the answer;
- expert parallelism: it cannot be seen in a layer's output, whoever computed it.

Every place where these are at risk is listed with its line under `hazards`, with
the property that watches it or the reason none does.

## 2. Modules

| Module | Contents |
|---|---|
| `BatchSched`, `BatchSchedProps`, `BatchSchedProofs` | the scheduler; its properties, inductive invariant and refinement mapping; theorems |
| `LockstepDecode` | what the scheduler promises a request, without threads or locks |
| `Lifecycle`, `LifecycleProps`, `LifecycleProofs` | handlers, gate, load threads, unloaders, monitor; properties; invariants and theorems |
| `ModelLease` | what the lifecycle promises: no model is freed while leased |
| `KVReuse`, `KVReuseProofs` | requests on the serial path, the KV cache, files, restarts, and properties; theorems |
| `L3Evict`, `L3EvictProps` | cold blocks, files of users, kept prefixes, faults; properties |
| `Residency`, `ResidencyProps`, `ResidencyProofs` | the ladder, composed over `L3Evict` (EXTENDS); properties; theorems about both |
| `ThreadPool`, `ThreadPoolProps`, `ThreadPoolProofs` | caller and workers of the pool; properties and inductive invariant; theorems |
| `ForkJoin` | what the pool promises its caller |
| `ServerThreads`, `HttpServer`, `Sessions`, `AuditChain` | the worker threads; the connection ring; session files; the audit log |
| `Serving`, `ServingProps` | the composition of these: which handler does what on which thread; properties |
| `ServingProofs` | theorems about connections, the audit log, conversations and types |
| `SpecDecode`, `SpecDecodeProps`, `SpecDecodeProofs` | a decoding loop that drafts, verifies and rolls back; properties; theorems |
| `GreedyDecode` | what decoding at temperature 0 promises a client |
| `EpTransport` | the processes of a session, their connections, how they open and die |
| `ExpertParallel`, `ExpertParallelProps`, `ExpertParallelProofs` | routing, owners, calls and answers over `EpTransport` (EXTENDS); properties; theorems |
| `MC...` | instances for TLC |

A definition written `(mutation: ...)` is not part of the model: it is a plausible
bug, put in the place of the definition after it to show that a property notices.

### BatchSched

`node` is the array of `VBNode`; `free`, `epoch` and `stop` are fields of
`VBatchSched`; `engine` is the mutex held during a forward or a prefill.  `epc`
and `wpc[w]` say where the engine and each worker are; `batch` and `toks` are the
engine's locals.  `st[n]` stands for the inference state behind a slot: whether it
is allocated, how many decode tokens went through it, and which token its logits
follow.  A critical section of `lock` or `cv_mu` is one action; the gaps between
them are where other threads run.  So `vb_step` is five actions: `SubmitToken`
(publish), `StepSignal` (`pthread_cond_signal`: any one sleeper on the shared
variable), `StepCheck` (unlocked read), `StepSleep` (wait), and the wakeup.
`SpuriousWakeup` is the one external action.
`EngineForward` forwards the whole list or, where `ScratchFails` says that memory may run
out, nothing at all: the code cannot tell the two apart.  `Destroy` needs that no request runs,
which its callers ensure (`Lifecycle`).

### Lifecycle

Variables carry the names of the fields of `VLLMServerCtx`.  A model is the
number of the load that allocated it, so "the pointer is valid" is `model \in
live`.  `hpc`, `upc` and `lpc` are the places of handlers, unload calls and load
threads; a handler may itself be an unloader (admin).  Every unlocked look at
`load_state` is an action: `EnsureModel`, `LoadOnUse`, `AwaitLoad`,
`RecheckModel`, `CheckLoaded`.  A load thread goes on when it has published its model:
`LoadIndex` finds it in `ctx`, `LoadEnd` is done with it.  Timeouts are nondeterministic: the last look may
come at any time.  `sched` is the model the batch scheduler was created on.

### KVReuse

A KV row is the token it was computed from; a token is its id and the mark of the
media it stands for; a row whose layers disagree is `Torn`.  Logits are the rows
they follow.  `Prefill`, `Finish` and `FinishMedia` are the halves of
`run_completion` and `run_completion_mm`; the search for rows to keep happens in the
`Start...` actions in the code's order: the client's `context_tokens` against the
previous request, then against the checkpoints; a rulebook snapshot; the previous
request; a checkpoint.  Operators that read or write a file (`LoadOutcomes`,
`FailedSaves`, `Written`) return the set of outcomes, since a file may be short or,
in format v2, misread.  Assumed: no L3 eviction, no failed allocation, no FNV
collision, no prompt beyond the KV span.

### L3Evict and Residency

A row of `ram` is the number of the request that computed it, 0 for what a fresh
block holds; `want` says what the rows of the current context should be.  A request
goes through `reset` (`ist_reset`: keep a prefix, restore its blocks, or drop all),
`prefill`, `evict` (`l3_evict_after_prefill`: any set of cold blocks of the right
size is packed, mirrored and freed) and `decode`.  `st->l3` is `bound`, `onDisk`,
`stale`, `file` and `mirror`.  One layer stands for all: they take the same steps.
`Faults` lets a restore fail, a packed block not reach the file, or an idle user's
file expire while it is open.

`Residency` adds the level, the loaded flag, the sparse-attention switch and the
threads inside `vllm_res_tick` and `vllm_res_set_level`; a call is `SetStart`, then
either `SetUnload` or `SetLoad`/`SetUnlocked`, then `SetApply` under `inf_lock`
and `SetPublish`.  Its `Serve` takes the steps of `L3Evict`'s requests.

### ThreadPool

`job`, `gen` (`job_gen`), `done` and `running` are the pool's fields, `running`
inverted as in the code.  `wpc` is where `tp_worker_main` is: spinning, about to
park, under its mutex, asleep, fetching the generation, adopting the descriptor,
running, about to count itself.  The caller wakes the workers one by one
(`WakeOne`), runs its own chunk, and joins; a join that drags on wakes again.
`Work(job, p)` is what part `p` of a job runs and `ran` counts it.

### Serving

`HttpServer` has the accept thread (`apc`), the worker threads (`tpc`), the ring
(`items`, `head`, `tail`, `count`) and each connection's descriptor and outcome;
`Sessions` the steps of a chat turn (`spc`) from reading the file to committing
it; `AuditChain` the two halves of `vllm_audit_add`.  `Serving` says what the
handler of a thread does: `Chat` begins a turn, `ChatStreams` couples the end of an
inference to `vhttp_stream_done`, `Administer` records what it did before it
answers, `Restart` ends the process wherever its threads are.

A request's messages are a query alone, or an array of the client's own: what it has
of the conversation, clipped by its `context_mode`, which `ReadHistory` puts in the
place of the stored turns (`own`).  `WriteFile` ends in a whole file, in no write
because `fopen` failed, or in a file that `fopen` emptied and nothing filled
(`WriteFails`); `Crash` leaves a part of one.  An append of the log is complete, is not
made because the file cannot be opened (`AppendFails`), or comes short
(`WriteIsShort`): the file has a stump or nothing, `torn` remembers it, and the head
of the chain moves on.  `kept` is what should still be in a file: all that was written
to it, but for what was lost with it or replaced.

### SpecDecode

The best next token is a function of the last token (`model`, chosen freely in
`Init`).  A KV row is its token and whether the decode path, or something equal to
it, computed it: after a row that is not exact the logits may be anything.  `preds`
is `g_verify_pred`, kept from round to round; `acc_probe` reads it the way the code
does, the word before the array included.  `VerifyFails` and `VerifyFallsBack` are
the prefill's other outcomes.  `EmitToken` is `emit_token` with its three results.

### EpTransport and ExpertParallel

`down[w]` and `up[w]` are the frames under way to and from worker `w`: one frame per
send of the code, but that `x`, `sel` and `pr`, which a worker reads in one
condition, are one, and so are the index and the row of an answer.  `rpc` is where
the coordinator is and `wpc[w]` where a worker is, named for the frame it reads next.
`SendNext` is one step of `vllm_ep_root_bcast`, which sends a frame to each rank before
the next frame, so a death leaves the ranks at different frames.  A worker that has
lost the framing is `astray`: it may consume, answer anything, or leave, and the
coordinator may read any number in what it answers (`NumberOf`).  What comes back from
a dead worker before its connection ends is read like the rest.  `driver` says who
calls: the forward pass, which falls back to one process and keeps the session, or
the check, which closes it (`Abandon`).  A row is the call and the expert it was
computed for; `cbuf` keeps rows from call to call as the code's buffer does.  `wout[w]` is
the answer a worker is sending: whether its count went out, and the slots to come.

## 3. Runs

| Run | Expect | What it shows | States |
|---|---|---|---|
| `batch_safety` | pass | `ExactlyOnce`, `BatchIsStable`, `SlotsPartitioned`, `StepNotDropped`, and `BatchSched` implements `LockstepDecode` | 414,939 |
| `batch_live` | pass | `CollectedIsForwarded`, `DestroyJoins` | 243,224 |
| `batch_step_returns` | violation | a token handed to `vb_step` may never come back | |
| `lifecycle` | pass | `HandlerKeepsModel`, `CountersExact`, `ModelsAccounted`, `GateReopens`, `RequestsAnswered`, and `Lifecycle` implements `ModelLease` | 319,514 |
| `lifecycle_policy` | violation | the residency policy frees a model in use | |
| `kv_reuse` | pass | `ContextIsPrompt`, `LogitsAreFresh`, `FilesAreTrue`, `LastIsCached` | |
| `thread_pool` | pass | `NoStrayWorker`, `JoinReturns`, `ShutdownReturns`, and `ThreadPool` implements `ForkJoin` | 38,188 |
| `serving` | pass | `ConnsOwned`, `TurnsKept`, `ChainHolds`, `DamageIsFound` | 1,227,888 |
| `spec_decode` | pass | `HistoryIsCached`, `RequestEnds`, and `SpecDecode` implements `GreedyDecode` (`Lossless`) | 543,102 |
| `l3_evict` | pass | `CacheReadable`, `PayloadsAreTrue` | 90,044 |
| `residency` | pass | `LevelIsApplied`, `IdleUnloads` | 120,081 |
| `expert_parallel` | pass | `FfnExact`, `FramesPaired`, `TableIsBalanced`, `EveryCallReturns` | 531,218 |

The runs of the components that share memory between threads also check the type
invariant of their module; in `KVReuse`, `L3Evict`, `Residency`, `SpecDecode` and
`ExpertParallelProps` it says what the variables hold, and no run lists it.  Each violation run
has its entry under `findings`, which quotes what it contradicts.

The passing runs keep the causes of known deviations out by constants named for
them, so that everything else is explored; section 6 lists each constant and what
turning it shows.

### Bounds

- `batch_safety`: 3 workers on 2 slots, so that one waits for a slot while two
  share a forward; 3 tokens, so that each request makes two steps and meets its own
  earlier epoch; the third worker always reuses a slot with an old epoch.
- `batch_live`, `batch_step_returns`: 2 workers, no symmetry (unsound for liveness).  In
  `batch_live` forwards may run out of memory (`ScratchFails`).
- `lifecycle`: 2 handlers with 2 requests each, of any kind, the monitor, 2 loads,
  a queue of 1: a user against an unloader with a third thread beside them; two
  loads are what it takes for a model to be replaced.
- `kv_reuse`: 3 requests (one to leave rows, one to overwrite them, one to be fooled), 1
  restart, prompts of 2 to 4 tokens with `MinLcp` 2, files capped at 2, snapshots at
  6 tokens, one generated token.  Pictures share a prefix or differ only in content.
- `thread_pool`: 2 workers and a caller, regions of up to 5 items (so that parts
  are empty, equal and unequal), 2 generations before a shutdown, several pools.
- `serving`: 3 connections on a ring of 2 with 2 threads (it overflows while both
  work), 1 restart, 2 clients and room for one session file; 3 questions (one to be lost,
  one to lose it, one that brings an array with or without it) or 3 records (a first, one
  to alter or lose, one after it) in a window of 2, so that the start of the log falls out
  of it.  Not everything is combined (`Apart`): conversations and records, which share
  nothing but threads, are taken in turns; from the second question on no connection is
  shed and nobody stops the server (it may still crash); the third question is asked when
  the requests of the first two are over.
- `spec_decode`: every model on 3 tokens, every prompt of 3 or 4 tokens, 3 tokens
  to generate, drafts of 2, windows of 1 and 2.
- `l3_evict`: 2 users, 3 blocks of 2 rows, 3 requests: one to leave payloads, one
  to overwrite rows, one to read them back.
- `residency`: 2 blocks of one row, 2 requests, 1 administrator with 1 call.
- `expert_parallel`: 2 workers in a session of 2 or 3 processes (with 3, each rank once
  or one taken twice; with 2, one worker too many), 6 experts of which a call takes 2
  (both from one rank, from two, or only one at all), 2 calls (one to leave rows and
  frames behind, one to be fooled by them), 1 death at any point, static owners (with a
  split) and balanced ones with uneven load and power.

Deadlock is checked only in `thread_pool`: the other models stop by design when
their bounded number of requests is used up.

### Fairness

- `BatchSched`: every thread keeps being scheduled (weak fairness of the engine and
  of each worker), and who keeps asking for the engine mutex while it is released
  again and again gets it (strong fairness of `EngineLock` and `PrefillLock`): a
  plain pthread mutex, held for the length of a forward.  Nothing is assumed of
  arrivals, of `Destroy`, or of spurious wakeups.
- `Lifecycle`: weak fairness of handlers, load threads and unload calls; nothing is
  asked of new requests or of the monitor.  Weak fairness suffices for `inf_lock`
  because each handler runs finitely many requests in the instance.
- `ThreadPool`: weak fairness of the caller's own steps and of each worker's; the
  timed waits of the code are never promised to time out, nor a spinning worker to
  park, nor the caller to wake again: `JoinReturns` shows that no wakeup is lost.
- `SpecDecode`: weak fairness of the only thread.
- `Residency`: the clock and the monitor go on, a request that was let in ends, a
  call of `vllm_res_set_level` returns.  Nothing is asked of administrators.
- `ExpertParallel`: every process goes on (weak fairness of the coordinator and of each
  worker).  Nothing is asked of the program that calls layers, nor that a timeout
  expires: a call ends because the peer answers or its connection ends.
- `KVReuse`, `L3Evict`, `Serving` have no liveness property: their requests are
  sequential code, or wait for clients that promise nothing.

## 4. Proofs

TLC explores small instances; `tlapm` proves the following for every value of the
constants, from the assumptions named in the modules and nothing else.

**`BatchSchedProofs`**: any finite set of workers and any number of slots, tokens and
requests (`WorkersAssumption`, `BatchMaxAssumption`, `MaxTokensAssumption`,
`MaxRequestsAssumption`).  `SamplesOwnLogits` and `DecodesInLockstep` suppose that no forward
runs out of memory (`~ScratchFails`); the others hold either way.

| Theorem | Property | What it says |
|---|---|---|
| `Invariance` | `IInv` | the inductive invariant holds |
| `TypeCorrect` | `TypeOK` | every variable keeps its type |
| `SamplesOwnLogits` | `ExactlyOnce` | a worker samples the logits of its own last token, each forwarded once |
| `BatchStaysOwned` | `BatchIsStable` | nothing touches the slots of a batch during its forward |
| `SlotsConserved` | `SlotsPartitioned` | a slot has one owner or none |
| `NoStepDropped` | `StepNotDropped` | no submitted token is overwritten before its forward |
| `DecodesInLockstep` | `ImplementsPromise` | the scheduler implements `LockstepDecode` |

None of the four properties is inductive: that the logits a worker reads are its own
depends on the epoch it waits for, which depends on what the engine collected.
`IInv` ties these together.  `SlotInv` says who owns a slot; `WantInv` that a token is
wanted exactly as long as the slot's epoch is not newer than the one read at its
submission; `BatchInv` that what was collected is still wanted and unchanged;
`EpochInv` and `StateInv` that the recurrent state of a slot is, if no forward failed, one
token behind from the submission to the forward and level from then on; `StopInv` what a stopping
engine leaves.  There is a lemma per conjunct, with a step per action.
The refinement needs one invariant more, `UnusedInv`: a slot that is free or was just
taken has forwarded nothing yet.  Then an acquisition is `Admit` (`RoomForOne`: while a slot
is free, fewer than `BatchMax` requests are admitted), a submission `Offer`, the commit of a
forward `Forward`, and all the locking, waiting and waking is a stutter.

**`ThreadPoolProofs`**: any number of workers, items and regions
(`MaxWorkersAssumption` and its neighbours).

| Theorem | Property | What it says |
|---|---|---|
| `TypeCorrect` | `TypeOK` | every variable keeps its type |
| `NoWorkerIsStray` | `NoStrayWorker` | no worker is in a region its caller has left |
| `PoolIsForkJoin` | `ImplementsForkJoin` | the pool implements `ForkJoin`: a region returns when every item was run once |

The invariant rests on a count: a worker of a region has not begun it, is running its
part, or has been counted (`StageInv`), and `done` is the number of the counted
(`CountInv`).  `Join` needs it as a fact about sets, `AllCounted`: a subset of the
workers with as many members as there are workers is all of them.  That the parts cover the
items without overlap is `PartsInv`, from the lemma `ChunkBounds` on `n * p / parts`;
`RanInv` says how far each part has been run.  The refinement then has a step per
action: `Parfor` and `Parcall` are `Enter`, an item is `Run`, `Join` is `Leave`, and everything
else is a stutter.

**`LifecycleProofs`**: any finite set of handlers and any number of requests and loads.

| Theorem | Property | What it says |
|---|---|---|
| `TypeCorrect` | `TypeOK` | every variable keeps its type, so no counter goes below zero |
| `GateCountsExactly` | `CountersExact` | the counters of the gate are those of the handlers |
| `NoUseAfterFree` | `HandlerKeepsModel` | no request loses the model it uses |
| `NoModelLost` | `ModelsAccounted` | one load at a time, no allocated model forgotten |
| `LeaseIsKept` | `ImplementsLease` | the lifecycle implements `ModelLease` |

The first two hold for all settings.  Their invariant `GateInv` says who holds
`inf_lock` (`LockInv`), which handler is inside an unload call (`CallerInv`), and that
each counter is the number of handlers at certain places (`CountInv`); the lemma
`CntMove` says what a handler that moves does to such a number.  The other three hold
under `Careful`: the monitor does not use the residency policy, one unload runs at a
time, and a load outlasts the last stores of an unload.  Section 6 says what happens
without each of these.  Their invariant `KeepInv` rests on `IdleMeansEmpty`: when the
unload finds `inflight_handlers` at zero, the handlers inside are exactly those that took
their own count out, so nobody is between `ensure_model_ready` and its last use of the
model; `ClosedInv` keeps it so while the gate is closed.  `LoadInv` says that
`load_state` 1 is the claim of one load, `ModelInv` what is allocated and loaded.

**`ServingProofs`**: any finite sets of threads and connections, any capacity of the ring
(`ThreadsAssumption`, `ConnsAssumption`, `QueueCapAssumption`), any window of the
verification.

| Theorem | Property | What it says |
|---|---|---|
| `OneOwner` | `ConnsOwned` | a connection has one owner, and none is leaked but with an abandoned stream |
| `ChainVerifies` | `ChainHolds` | the audit log verifies unless a line was cut or came short, somebody altered it, or two wrote at once |
| `DamageBreaksChain` | `DamageIsFound` | a line lost or altered in the middle is found |
| `ConversationsKept` | `TurnsKept` | the turns of a file are in order; what was written stays until it is removed, cut or replaced |
| `TypesHold` | `TypeOK` | every variable keeps its type and its bounds |

`HttpInv` reads the ring as the places from `head` on (`RingInv`): no connection is at two of
them, and none of them is also with the accept thread or a worker (`OwnerInv`).  `FdInv` says
that what is owned is open and unanswered, but for what its handler streamed.  That
`(head + k) % QueueCap` wraps round once is the lemma `Wraps`.  For the log, `HashInv` says
that no two lines, written or on their way, share a hash, and `CleanInv` that in a clean log
each line follows the one before it and the only record on its way follows the last; it
ends with a write that comes short, since the head of the chain then leaves the file.  An
altered or missing line then leaves its successor with the hash of something else.

Conversations are those of any finite set of clients (`ClientsAssumption`), with any number
of turns and files kept.  That a late request cannot put an old turn after a new one rests on the client: it asks one
thing at a time, so of its requests the one that has yet to read carries the last turn
(`AskInv`, `OrderInv`).  `KeepInv` says that as long as no two requests of the session
overlapped, one at most may write, and what it is going to write has all that should stay:
what was kept or, if it brought its own messages, those.
`Quiet` names what all the steps that neither read nor write a conversation have in common.

The bounds of the types are not local either.  A sequence number is read from `gseq` when the
line is composed and counted when it is appended, so what stays below the number of hashes is
`gseq` and the threads that are appending (`ChainBound`); a restart reads the number back
from the last line, which may be a stump.  Turns and ages are bounded by the requests of
their client and the files there are (`BoundInv`).

**`SpecDecodeProofs`**: any model, prompt, limit, window and draft, under `Replays`: a
rejected draft is followed by the replay, that is neither `VLLM_SPEC_VEXACT` nor
`VLLM_SPEC_FAST` is set (`Adopt = FALSE`).

| Theorem | Property | What it says |
|---|---|---|
| `CacheIsHistory` | `HistoryIsCached` | rows and positions are those of what was sent, computed by the decode path |
| `SpeculationIsLossless` | `Lossless` | the loop implements `GreedyDecode` |

The invariant `CacheInv` says that the rows are the history and, after it, what the model
likes best after each row before: so a draft that is emitted is always the greedy token,
whatever the search proposed and `preds` held.  `RoundInv` says how far the rows are ahead
of the history at each place of the loop.

**`KVReuseProofs`**: any prompts, answers, rulebook, number of checkpoints, saves, requests
and restarts, and any length of a file cut short (`PromptsAssumption` and its neighbours),
under `Sound`, each part of which keeps out a deviation of section 6: no format v2
(`Quantised`), no save outside the lock (`Overlap`), no rulebook named late
(`RulebookLate`), no prompt as short as `PREFIX_KV_MIN_LCP`, and `--prefix-kv` or no
pictures (`PrefixKv`).

| Theorem | Property | What it says |
|---|---|---|
| `DecodesOwnPrompt` | `ContextIsPrompt` | a request decodes over the rows of its prompt |
| `SamplesFreshLogits` | `LogitsAreFresh` | it samples from logits of that prompt |
| `FilesStayTrue` | `FilesAreTrue` | a checkpoint or snapshot holds the rows of the tokens it is found by |
| `RememberedIsCached` | `LastIsCached` | between requests what is remembered is what is cached |

The four rest on each other, so one invariant has them all (`KVInv`).  Between requests the
rows agree with `last_ids` (`CachedInv`), and every file with its name (`FileInv`).  A search
may then load a file that turns out to be short, and leave rows torn while `last_ids` stays:
the step that finds them (`FoundFor`) therefore speaks of what will be kept.  The files that
were loaded, and the remembered sequence, agree with the prompt as far as they were compared
(`LcpAgrees`), so a failed load only tears rows the prefill replaces (`Loads`), and what is
kept at the prefill is the prompt's (`KeepInv`).  After it the rows are the prompt, wherever
it started (`PrefillComputesPrompt`, `DecodeInv`), and a save, complete or not, writes rows
under the tokens they were computed from (`FailedSavesAreTrue`, `ConversationSaved`).

**`ResidencyProofs`**: any users, blocks, rows of a block, requests and share of cold blocks,
with or without the reuse of prefixes (`NoneAssumption`, `SizesAssumption`), under `Sound`:
no fault happens and `--l3-min-seq` is not set; section 6 says what each of them breaks.

| Theorem | Property | What it says |
|---|---|---|
| `ReadsOwnContext` | `CacheReadable` | a request reads its own context from RAM or from payloads |
| `PayloadsStayTrue` | `PayloadsAreTrue` | a payload that is not stale is the block |
| `LevelStaysApplied` | `LevelIsApplied` | the level that is reported is the one in effect |
| `ReadsOwnContextAtAnyLevel` | `CacheReadable` | the first, while the ladder moves |
| `PayloadsStayTrueAtAnyLevel` | `PayloadsAreTrue` | the second, while the ladder moves |

`FillingInv` speaks of the time from the reset to the eviction: every block is in RAM, and
the valid payloads within the kept prefix are the context's; those after it may not be,
which is what `MarkStale` is for.  `SettledInv` speaks of the rest: what is not in RAM has a
valid payload, and each of those lies wholly within the context, so that a generated token
never changes a row of one.  That a row is at one offset of one block, that all blocks but
the last are full, and which blocks a prefix covers are lemmas about `\div` and `%`
(`RowOf`, `BlocksFacts`, `KeptBlocks`).

The ladder adds any levels, any callers of `vllm_res_set_level`, loads and unloads, under
`OneByOne` (a change of the level, a load and an unload are not under way together), and
`LevelStaysApplied` also supposes that `--l3-evict` comes with `--sparse-attn`.  `AloneInv`
and `QuietInv` say who may be inside a change and that no request is then between its reset
and its end; `LevelInv` ties the level to the eviction at each place of a change.  Every
step of the ladder is, for the cache, a step of `L3Evict`, a switch of the eviction between
two requests, or a fresh cache (`Between`), and the invariant of `L3Evict` survives all
three: that carries its two theorems over.

**`ExpertParallelProofs`**: any number of processes, workers, experts, slots, calls and
deaths, any order of connections and frames.  Ranks taken twice, workers that give up and
coordinators that are killed are included.

| Theorem | Property | What it says |
|---|---|---|
| `FramesStayPaired` | `FramesPaired` | as long as nobody dies or is late, whoever reads finds the frame it expects, and a call leaves nothing under way |
| `FfnStaysExact` | `FfnExact` | whoever dies, a layer is given the rows of this call and of the experts a single process would choose |
| `TableStaysBalanced` | `TableIsBalanced` | EPLB's table is even: without any one of its experts a rank has at most its share of the work |

`FramesPaired` speaks of the next frame, so it is not inductive.  `EpInv` speaks of all that
is under way: the frames to a worker follow one another (`After`), what it expects after
the last of them is what its rank is sent next (`Reach`, `Upcoming`), and a rank that owes
an answer (`Owes`) has the call under way, or has said how many rows come and these are the
frames under way and the slots it has still to send (`Pending`, `Answering`), or is dead and
will not say the rest.  When a call is given up in the middle `EpInv` is lost, and `Spoilt`
takes its place: a rank is dead and silent, and every later call stops at that rank before
it is reduced (`Stuck`), or the session is over.

`DataInv` adds what the frames say: who has been handed the table, or has read that there is
none, owns what the coordinator thinks it does; the frames under way and the answers are those
of the call under way; and of the slots a rank answers for each has its row, or the row is
under way, or the worker is to send it (`Promised`, `CoverData`), so that when the count of
the rows that are left is zero all are there (`BufData`).

`FfnStaysExact` supposes what section 6 says the code relies on: all processes split the
experts alike (`Alike`), and no answer is late in a session of the forward pass
(`"forward" \notin SlowDrivers`).

Both the router (`Route`) and the balancer (`Balanced`) are recursive functions, and what
they compute is proved by induction, stated with a set in place of a predicate (`Induct`,
`UpTo`) so that the library's well-foundedness of the numbers yields it; `Iterated` says that
such a function exists.  `InsertKeeps`: after each expert the slots hold the best of the
experts looked at so far (`Preferred`), hence `RouteRight` for any logits.  `GiveKeeps`: after
each expert given the busier have gone first, `acc` is the sum of what each rank was given,
and the rank that was least busy had no more than its share before (`Handed`, by comparing
sums term by term, `TotalBound`), hence `BalancedRight`; `TableInv` carries it from
`StartCall` to every later state.  Loads and powers are natural numbers and compared by
cross-multiplying, where the code divides doubles.

**Only model-checked.**  The liveness properties (`CollectedIsForwarded`, `DestroyJoins`,
`GateReopens`, `RequestsAnswered`, `JoinReturns`, `ShutdownReturns`, `RequestEnds`,
`IdleUnloads`, `EveryCallReturns`): fairness and `ENABLED` are beyond the prover.  Every
invariant, action property and refinement of the passing runs has a theorem.

## 5. What the findings say

- `batch_step_returns`: `vb_step` reads `done_epoch` outside `cv_mu` and then waits
  without a timeout; a commit and its broadcast that fall between are missed.  The
  header promises a poll.
- `lifecycle_policy`: the monitor's tick unloads through the wrapper that discounts
  the calling handler's own count, though it has none, and frees the model under
  the only request in flight.

## 6. Known deviations

Where the code does not do what one would expect, and what keeps it out of the
passing runs.  Where a constant is named, set it in the run's cfg to see it.

| Where | What | Kept out by |
|---|---|---|
| `vllm_batch.c:218` | `st_qwen_model_forward_batch` returns nothing, and early when it has no memory (`vllm_safetensors.c:17076-17086`); the engine marks the tokens done all the same, and the requests sample the logits of the tokens before them (`ExactlyOnce`, `ImplementsPromise`), though 6-8 say that it runs one forward for the whole set | `ScratchFails = FALSE` in `batch_safety`; use `TRUE` |
| `main.c:4044` | the load thread goes on to name the model and to index `--disk-kv` by it when it has published it, and nothing counts it: an unload may free what it reads, though `vllm_server.h:278` calls an unload safe | `LoaderKeepsModel` is stated in `LifecycleProps` and not run |
| `main.c:4158` | two unloads at once store `load_state` 0 over a load under way; a second load starts beside it (`ModelsAccounted`) | `MaxUnloaders = 1` |
| `vllm_server.c:3846` | `/health` is admitted while an unload is pending and follows `ctx->cfg` after a test without a lock | `HandlerKeepsModel` speaks of inference requests |
| `main.c:4163` | an unload clears `m->cfg`, `m->tok`, `m->ist` after it reopened the gate | `SlowLoads = TRUE` |
| `vllm_server.c:1704` | a prompt of exactly `PREFIX_KV_MIN_LCP` tokens that repeats the last one keeps one row fewer than `ist_reset` honours, and the prefill skips them all the same (`ContextIsPrompt`) | `TextPrompts <- LongPrompts`; use `ShortPrompt` |
| `vllm_safetensors.c:20043` | restoring a proper prefix of a checkpoint in format v2 skips the rest of each layer by `2*kv_dim + 2*nkv` bytes a token where 19909-19911 store `2*kv_dim + 8*nkv`: every layer but the first is misread and the load succeeds (`ContextIsPrompt`) | `Quantised = FALSE` |
| `vllm_server.c:1857` | without `--prefix-kv` a request with pictures forgets neither `last_ids` nor that they were text, so the next save of the conversation writes the picture's rows under the tokens of the text before it (`FilesAreTrue`) | `PrefixKv = TRUE`; use `FALSE` |
| `vllm_server.c:3375` | the rulebook snapshot of a request that is not streamed is saved after `inf_lock` was released (`FilesAreTrue`) | `Overlap = FALSE` in `KVReuse` |
| `vllm_server.c:2522` | it is saved on the strength of the cache's length, whatever the rows are, when a conversation names the rulebook late (`FilesAreTrue`) | `RulebookLate = FALSE` |
| `vllm_server.c:3358`, `vllm_batch.c:405,435,488` | a stream whose inference fails or whose client leaves is never closed, though the comment expects a dropped connection | the exception `outcome = "lost"` in `ConnsOwned` |
| `vllm_http.c:971`, `532` | `g_vhttp_conns` goes up and down in several threads without a lock: an update may be lost, and the status page (`vllm_admin.c:572`) is off from then on | not modelled: nothing but that page reads it |
| `vllm_server.c:4344` | `vhttp_stop` does not wait for worker threads: `vllm_server_run` destroys locks they may hold | `Restart` in the middle of handlers |
| `vllm_server.c:2717`, `3373` | a streamed turn is answered before it is committed, so the next turn may read the old file; `vllm_session.h:15-16` promises otherwise | the exception `raced` in `TurnsKept` |
| `vllm_audit.c:256` | two records composed at once carry the same number: verification reports tampering from then on | the exception `crossed` in `ChainHolds` |
| `vllm_audit.c:300` | a write that comes short moves the chain on: the next record is linked to a line that is not in the file, and verification reports tampering from then on, though 25-26 call `g_seq` and `g_prev` those of the last line | the exception `torn` in `ChainHolds`; `HeadIsLastLine` is stated in `ServingProps` and not run |
| `vllm_audit.c:319` | a file that cannot be opened leaves the action unrecorded | `AppendFails` |
| `vllm_session.c:218` | a rewrite that fails after `fopen` has emptied the file loses the conversation, not the turn alone | `WriteFails` ends what `TurnsKept` keeps |
| `vllm_server.c:2728` | messages that a request brings replace the stored ones, clipped by `context_mode`; `vllm_session.h:10-12` says so | `own`: `TurnsKept` then speaks of what the client sent |
| `vllm_server.c:4225` | a reloaded model resumes at the level L3 happens to be in, not at the one of the command line | `ResumesAsStarted` is stated in `ResidencyProps` and not run |
| `vllm_server.c:4197` | L3 is switched without `inf_lock` after a load, and the level is published after the lock (`LevelIsApplied`, `CacheReadable`) | `Overlap = FALSE` in `Residency` |
| `main.c:4635` | `--l3-evict` is set whether or not `--sparse-attn` is, and `main.c:1038` then skips every eviction: a level below L4 is reported and nothing is evicted (`LevelIsApplied`) | `CliL3 = FALSE`; use `TRUE` |
| `vllm_server.c:4236` | without `auto_idle`, which is off unless it is configured (4062), no idle model is unloaded | `TickIdle` has it on |
| `vllm_server.c:4257` | a memory floor above the current level moves the level up (`IdleUnloads`) | `MemLowLevel = 0`; use 3 |
| `vllm_server.c:370` | closing an idle user's bound file drops blocks of a prefix that is then reported complete (`CacheReadable`) | `Faults`; use `{"expiry"}` |
| `vllm_server.c:485` | after a failed restore only what follows the prefix is prefilled (`CacheReadable`) | `Faults`; use `{"restore"}` |
| `main.c:1261` | a block whose packing failed is freed all the same (`CacheReadable`) | `Faults`; use `{"write"}` |
| `main.c:1136` | with `--l3-min-seq` the early return skips the marking of stale payloads (`PayloadsAreTrue`) | `MinSeq = 0`; use 4 |
| `vllm_l3.c:581`, `667` | flushing or seeking the file fails: the load keeps an empty mirror, the eviction ignores it and counts the payload as on disk | not modelled: with `Faults` the only writes that fail are those the code sees |
| `main.c:1257` | with `--l3-max-size` the slot of a block may lie past the file's table | not modelled |
| `vllm_safetensors.c:16254` | a read that times out makes the forward pass compute the layer itself, and keeps the session: the late answer is read as the answer of the next call and reduced (`FfnExact`), though 16112-16114 promise identical bits | `SlowDrivers = {"check"}`; add `"forward"` |
| `vllm_safetensors.c:15438` | with static owners nothing checks that all processes have the same `--ep-split`: a slot may be nobody's, and keeps the row of an earlier call (`FfnExact`) | `Alike = TRUE`; use `FALSE` with `Splits = {0, 4}` |
| `vllm_safetensors.c:15458` | with `expert_ff` beyond 2048, which the handshake lets pass (15190-15197), `moe_ep_contrib` gives up: a worker announces 0 rows and then sends those of its slots (16073-16081), and the framing is lost | not modelled: an expert fits the buffers |
| `vllm_ep.c:107` | a send to a process that has gone raises SIGPIPE, which only the HTTP server ignores (`vllm_http.c:874`); `vllm_ep.h:19` says that primitives return -1 | modelled: `SendFails` may end the coordinator, which `EveryCallReturns` accepts |
| `vllm_ep.c:199` | the read of a new worker's rank has no timeout, so one that stays silent holds up the session; `vllm_ep.h:19-20` promises no endless wait | the fairness of `SayRank` |
| `vllm_tp.c:388` | if a `pthread_create` fails, `nworkers` stays too high and joins never end | assumed not to fail |
| `vllm_tp.c:202` | a parked worker's absolute deadline is computed once: after 50 ms it polls | timing, not modelled |

## 7. Not modelled

`PROJECT.json` lists every component with its status and the reason.  In short:

- **Numerics and data**: the transformer and its quantised kernels
  (`vllm_safetensors.c` but for its disk KV, rebuild and verification hooks and its
  expert parallelism), vision,
  media decoding, tokenizer, homomorphic encryption, NTT, SM2/SM3: pure functions on
  large data without a protocol.  They are most of the 89,000 lines, with vendored
  (`stb_image.h`) and generated (`embedded_web.c`) sources, which is why the map
  covers a small share of the whole while it covers most of the server's control.
- **Hardware**: the NPU backend, whose state machine is the device's.
- **Offline tools**: converters, benchmarks, drivers, rulebook builds.
- **Of the modelled components**: read-only endpoints that differ from `/health`
  only in what they read; changing the model directory; saves by the monitor beside
  a running request; `--l3-max-size`; sampling at higher temperatures.

## 8. What could follow

1. `vllm_res_persist_session` beside a running request, once `KVReuse` lets a save
   and a prefill interleave row by row.
2. The legacy scheduler (`vllm_scheduler.c`), if it comes into use by the server.
