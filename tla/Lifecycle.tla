----------------------------- MODULE Lifecycle ------------------------------
(***************************************************************************)
(* Loading, using and unloading the model (src/src/serve/vllm_server.c,    *)
(* src/src/main.c).                                                        *)
(*                                                                         *)
(* HTTP handler threads run requests; an inference request makes sure that *)
(* a model is loaded, passes the admission gate, runs under `inf_lock` (or *)
(* on the batch scheduler) and leaves.  A detached thread loads the model; *)
(* an admin handler or the policy monitor unloads it.  Between two         *)
(* critical sections the handlers read the model through ctx without any   *)
(* lock: what keeps it allocated is the count of handlers in flight and    *)
(* the flag unload_pending, both under `stat_lock`.                        *)
(*                                                                         *)
(* Atomicity: a critical section of stat_lock is one action, inf_lock is a *)
(* variable, and each unlocked read or write of load_state is an action of *)
(* its own.  A model is the number of the load that allocated it.          *)
(* Abstracted: request contents, the KV state, clocks (a timeout or an     *)
(* idle period may always have passed).                                    *)
(***************************************************************************)
EXTENDS Integers, FiniteSets

CONSTANTS
  Handlers,      \* HTTP worker threads
  Monitor,       \* the policy monitor thread
  Free,          \* nobody holds inf_lock
  AutoLoad,      \* --load-on-use
  PolicyTick,    \* the monitor unloads through the residency policy, not --auto-unload
  MaxQueued,     \* max_queued (0: unlimited)
  MaxRequests,   \* bound: requests each handler runs
  MaxLoads,      \* bound: load threads; beyond it pthread_create fails
  MaxUnloaders,  \* bound: unload calls in progress at once
  SlowLoads      \* building a model takes longer than the last stores of an unload

ASSUME HandlersAssumption == IsFiniteSet(Handlers) /\ Monitor \notin Handlers
ASSUME FreeAssumption == Free \notin Handlers \cup {Monitor}
ASSUME SettingsAssumption ==
  AutoLoad \in BOOLEAN /\ PolicyTick \in BOOLEAN /\ SlowLoads \in BOOLEAN
ASSUME BoundsAssumption ==
  MaxQueued \in Nat /\ MaxRequests \in Nat /\ MaxLoads \in Nat /\ MaxUnloaders \in Nat

Callers == Handlers \cup {Monitor}
Loads   == 1 .. MaxLoads
NoModel == 0

\* load_state
Unloaded == 0
Loading  == 1
Ready    == 2
Failed   == 3

Kinds == {"infer", "health", "load", "unload"}

VARIABLES
  batchMode,  \* batch_max >= 2
  pending,    \* unload_pending
  inflight,   \* inflight_handlers
  active,     \* active_requests
  queued,     \* queued_requests
  busy,
  infLock,    \* holder of inf_lock
  loadState,
  model,      \* what ctx->w, ctx->ist and ctx->tok point to
  cfg,        \* what ctx->cfg points into
  sched,      \* the model the batch scheduler was created on
  staged,     \* ServeModel: what the load thread has built
  live,       \* models allocated and not freed
  hpc,        \* where each handler is
  kind,       \* the request it runs
  requests,   \* requests it has run (bounds the model)
  upc,        \* where each caller is in vllm_serve_unload_model
  deducted,   \* callers that took their own count out of inflight_handlers
  lpc         \* where each load thread is

gateVars   == <<pending, inflight, active, queued, busy, infLock>>
modelVars  == <<loadState, model, cfg, sched, staged, live>>
threadVars == <<hpc, kind, requests, upc, deducted, lpc>>
vars       == <<batchMode, gateVars, modelVars, threadVars>>

HandlerAt  == {"idle", "ensure", "loadOnUse", "claim", "spawn", "await", "recheck",
               "prepare", "gate", "queued", "granted", "running", "unlock", "after",
               "probe", "probing", "unloading", "leave"}
UnloaderAt == {"none", "deduct", "check", "refuse", "drain", "abort", "lock", "free",
               "clear", "open", "wipe", "restore"}
LoaderAt   == {"none", "begin", "load", "publish", "index", "indexing", "done"}

TypeOK ==
  /\ batchMode \in BOOLEAN
  /\ pending \in BOOLEAN
  /\ inflight \in Int
  /\ active \in Nat
  /\ queued \in Nat
  /\ busy \in BOOLEAN
  /\ infLock \in Callers \cup {Free}
  /\ loadState \in {Unloaded, Loading, Ready, Failed}
  /\ model \in Loads \cup {NoModel}
  /\ cfg \in Loads \cup {NoModel}
  /\ sched \in Loads \cup {NoModel}
  /\ staged \in Loads \cup {NoModel}
  /\ live \in SUBSET Loads
  /\ hpc \in [Handlers -> HandlerAt]
  /\ kind \in [Handlers -> Kinds]
  /\ requests \in [Handlers -> 0 .. MaxRequests]
  /\ upc \in [Callers -> UnloaderAt]
  /\ deducted \in SUBSET Callers
  /\ lpc \in [Loads -> LoaderAt]

Init ==
  /\ batchMode \in BOOLEAN
  /\ pending = FALSE
  /\ inflight = 0
  /\ active = 0
  /\ queued = 0
  /\ busy = FALSE
  /\ infLock = Free
  /\ loadState = Unloaded
  /\ model = NoModel
  /\ cfg = NoModel
  /\ sched = NoModel
  /\ staged = NoModel
  /\ live = {}
  /\ hpc = [h \in Handlers |-> "idle"]
  /\ kind = [h \in Handlers |-> "infer"]
  /\ requests = [h \in Handlers |-> 0]
  /\ upc = [u \in Callers |-> "none"]
  /\ deducted = {}
  /\ lpc = [l \in Loads |-> "none"]

Goto(h, at)   == hpc' = [hpc EXCEPT ![h] = at]
UGoto(u, at)  == upc' = [upc EXCEPT ![u] = at]
LGoto(l, at)  == lpc' = [lpc EXCEPT ![l] = at]

(***************************************************************************)
(* A request: server_handler and the handler it dispatches to.             *)
(***************************************************************************)
FirstStep(k) ==
  CASE k = "infer"  -> "ensure"
    [] k = "health" -> "probe"
    [] k = "load"   -> "claim"
    [] k = "unload" -> "unloading"

Unloading == {u \in Callers : upc[u] # "none"}
MayUnload == Cardinality(Unloading) < MaxUnloaders

\* (mutation: inference requests enter while an unload is pending)
EnterWhilePending(h) ==
  /\ hpc[h] = "idle"
  /\ requests[h] < MaxRequests
  /\ requests' = [requests EXCEPT ![h] = @ + 1]
  /\ \E k \in Kinds :
       /\ kind' = [kind EXCEPT ![h] = k]
       /\ Goto(h, FirstStep(k))
       /\ IF k = "unload" THEN MayUnload /\ UGoto(h, "deduct") ELSE UNCHANGED upc
  /\ inflight' = inflight + 1
  /\ UNCHANGED <<batchMode, pending, active, queued, busy, infLock, modelVars,
                 deducted, lpc>>

\* Every handler is counted.  An inference request is turned away (503) while
\* an unload is pending; an admin request may call the unload's wrapper.
Enter(h) ==
  /\ hpc[h] = "idle"
  /\ requests[h] < MaxRequests
  /\ requests' = [requests EXCEPT ![h] = @ + 1]
  /\ \E k \in Kinds :
       /\ kind' = [kind EXCEPT ![h] = k]
       /\ Goto(h, IF k = "infer" /\ pending THEN "leave" ELSE FirstStep(k))
       /\ IF k = "unload" THEN MayUnload /\ UGoto(h, "deduct") ELSE UNCHANGED upc
  /\ inflight' = inflight + 1
  /\ UNCHANGED <<batchMode, pending, active, queued, busy, infLock, modelVars,
                 deducted, lpc>>

Leave(h) ==
  /\ hpc[h] = "leave"
  /\ inflight' = inflight - 1
  /\ Goto(h, "idle")
  /\ UNCHANGED <<batchMode, pending, active, queued, busy, infLock, modelVars,
                 kind, requests, upc, deducted, lpc>>

\* ensure_model_ready, its first look at load_state.
EnsureModel(h) ==
  /\ hpc[h] = "ensure"
  /\ Goto(h, IF loadState = Ready THEN "prepare"
             ELSE IF AutoLoad /\ loadState # Loading THEN "loadOnUse" ELSE "recheck")
  /\ UNCHANGED <<batchMode, gateVars, modelVars, kind, requests, upc, deducted, lpc>>

\* vllm_serve_load_on_use: looks again before it starts a load, and refuses when
\* no model was chosen.
LoadOnUse(h) ==
  /\ hpc[h] = "loadOnUse"
  /\ \E at \in IF loadState = Ready THEN {"recheck"} ELSE {"claim", "leave"} : Goto(h, at)
  /\ UNCHANGED <<batchMode, gateVars, modelVars, kind, requests, upc, deducted, lpc>>

AfterClaim(h) == IF kind[h] = "load" THEN "leave" ELSE "await"

\* vllm_serve_start_load claims load_state under stat_lock.
ClaimLoad(h) ==
  /\ hpc[h] = "claim"
  /\ IF loadState \in {Loading, Ready}
     THEN Goto(h, AfterClaim(h)) /\ UNCHANGED loadState
     ELSE Goto(h, "spawn") /\ loadState' = Loading
  /\ UNCHANGED <<batchMode, gateVars, model, cfg, sched, staged, live,
                 kind, requests, upc, deducted, lpc>>

\* (mutation: a failed pthread_create leaves load_state at 1)
SpawnLeavesLoading(h) ==
  /\ hpc[h] = "spawn"
  /\ \/ \E l \in Loads :
          /\ \A i \in Loads : lpc[i] = "none" <=> i >= l
          /\ LGoto(l, "begin")
          /\ Goto(h, AfterClaim(h))
     \/ /\ Goto(h, "leave")
        /\ UNCHANGED lpc
  /\ UNCHANGED <<batchMode, gateVars, modelVars, kind, requests, upc, deducted>>

\* pthread_create
SpawnLoader(h) ==
  /\ hpc[h] = "spawn"
  /\ \/ \E l \in Loads :
          /\ \A i \in Loads : lpc[i] = "none" <=> i >= l
          /\ LGoto(l, "begin")
          /\ Goto(h, AfterClaim(h))
          /\ UNCHANGED loadState
     \/ /\ loadState' = Failed
        /\ Goto(h, "leave")
        /\ UNCHANGED lpc
  /\ UNCHANGED <<batchMode, gateVars, model, cfg, sched, staged, live,
                 kind, requests, upc, deducted>>

\* The polling loop of vllm_serve_load_on_use, until the load is over.
AwaitLoad(h) ==
  /\ hpc[h] = "await"
  /\ loadState # Loading
  /\ Goto(h, IF loadState = Ready THEN "recheck" ELSE "leave")
  /\ UNCHANGED <<batchMode, gateVars, modelVars, kind, requests, upc, deducted, lpc>>

\* ensure_model_ready, its last look: 503 unless the model is ready.
RecheckModel(h) ==
  /\ hpc[h] = "recheck"
  /\ Goto(h, IF loadState = Ready THEN "prepare" ELSE "leave")
  /\ UNCHANGED <<batchMode, gateVars, modelVars, kind, requests, upc, deducted, lpc>>

\* Builds the prompt, reading ctx->tok, ctx->cfg and ctx->ist without a lock;
\* in batch mode batch_ensure creates the scheduler, unless an unload is pending.
Prepare(h) ==
  /\ hpc[h] = "prepare"
  /\ sched' = IF batchMode /\ sched = NoModel /\ ~pending THEN model ELSE sched
  /\ Goto(h, "gate")
  /\ UNCHANGED <<batchMode, gateVars, loadState, model, cfg, staged, live,
                 kind, requests, upc, deducted, lpc>>

QueueFull == MaxQueued > 0 /\ queued >= MaxQueued

Admissible == ~pending /\ ~QueueFull

\* infer_gate, infer_gate_batch: 503 while unloading or with RAM short, 429
\* with the queue full.  In batch mode the request counts as queued throughout.
Gate(h) ==
  /\ hpc[h] = "gate"
  /\ \/ /\ Admissible
        /\ active' = active + 1
        /\ queued' = queued + 1
        /\ busy' = (busy \/ batchMode)
        /\ Goto(h, IF batchMode THEN "running" ELSE "queued")
     \/ /\ Goto(h, "leave")
        /\ UNCHANGED <<active, queued, busy>>
  /\ UNCHANGED <<batchMode, pending, inflight, infLock, modelVars,
                 kind, requests, upc, deducted, lpc>>

TakeInfLock(h) ==
  /\ hpc[h] = "queued"
  /\ infLock = Free
  /\ infLock' = h
  /\ Goto(h, "granted")
  /\ UNCHANGED <<batchMode, pending, inflight, active, queued, busy, modelVars,
                 kind, requests, upc, deducted, lpc>>

StartInference(h) ==
  /\ hpc[h] = "granted"
  /\ queued' = queued - 1
  /\ busy' = TRUE
  /\ Goto(h, "running")
  /\ UNCHANGED <<batchMode, pending, inflight, active, infLock, modelVars,
                 kind, requests, upc, deducted, lpc>>

\* (mutation: infer_done takes back the place in the queue a second time)
FinishDequeues(h) ==
  /\ hpc[h] = "running"
  /\ active' = active - 1
  /\ queued' = queued - 1
  /\ busy' = (batchMode /\ active' > 0)
  /\ Goto(h, IF batchMode THEN "after" ELSE "unlock")
  /\ UNCHANGED <<batchMode, pending, inflight, infLock, modelVars,
                 kind, requests, upc, deducted, lpc>>

\* infer_done's critical section, or all of infer_done_batch.
FinishInference(h) ==
  /\ hpc[h] = "running"
  /\ active' = active - 1
  /\ IF batchMode
     THEN /\ queued' = IF queued > 0 THEN queued - 1 ELSE 0
          /\ busy' = (active' > 0)
          /\ Goto(h, "after")
     ELSE /\ busy' = FALSE
          /\ Goto(h, "unlock")
          /\ UNCHANGED queued
  /\ UNCHANGED <<batchMode, pending, inflight, infLock, modelVars,
                 kind, requests, upc, deducted, lpc>>

DropInfLock(h) ==
  /\ hpc[h] = "unlock"
  /\ infLock' = Free
  /\ Goto(h, "after")
  /\ UNCHANGED <<batchMode, pending, inflight, active, queued, busy, modelVars,
                 kind, requests, upc, deducted, lpc>>

\* After the gate: the session is committed and the rulebook snapshot saved,
\* from ctx->ist, without a lock.
AfterInference(h) ==
  /\ hpc[h] = "after"
  /\ Goto(h, "leave")
  /\ UNCHANGED <<batchMode, gateVars, modelVars, kind, requests, upc, deducted, lpc>>

\* handle_health: `if (ctx->cfg)`, then ctx->cfg->max_seq_len.
ProbeConfig(h) ==
  /\ hpc[h] = "probe"
  /\ Goto(h, IF cfg # NoModel THEN "probing" ELSE "leave")
  /\ UNCHANGED <<batchMode, gateVars, modelVars, kind, requests, upc, deducted, lpc>>

ReadConfig(h) ==
  /\ hpc[h] = "probing"
  /\ Goto(h, "leave")
  /\ UNCHANGED <<batchMode, gateVars, modelVars, kind, requests, upc, deducted, lpc>>

Handler(h) ==
  \/ Leave(h) \/ EnsureModel(h) \/ LoadOnUse(h) \/ ClaimLoad(h) \/ SpawnLoader(h)
  \/ AwaitLoad(h) \/ RecheckModel(h) \/ Prepare(h) \/ Gate(h) \/ TakeInfLock(h)
  \/ StartInference(h) \/ FinishInference(h) \/ DropInfLock(h) \/ AfterInference(h)
  \/ ProbeConfig(h) \/ ReadConfig(h)

(***************************************************************************)
(* The load thread.                                                        *)
(***************************************************************************)
LoadBegin(l) ==
  /\ lpc[l] = "begin"
  /\ loadState' = Loading
  /\ LGoto(l, "load")
  /\ UNCHANGED <<batchMode, gateVars, model, cfg, sched, staged, live,
                 hpc, kind, requests, upc, deducted>>

\* (mutation: the error path frees nothing)
LoadModelLeaks(l) ==
  /\ lpc[l] = "load"
  /\ SlowLoads => \A u \in Callers : upc[u] \notin {"open", "wipe"}
  /\ live' = live \cup {l}
  /\ \/ /\ staged' = l
        /\ LGoto(l, "publish")
        /\ UNCHANGED loadState
     \/ /\ loadState' = Failed
        /\ LGoto(l, "done")
        /\ UNCHANGED staged
  /\ UNCHANGED <<batchMode, gateVars, model, cfg, sched, hpc, kind, requests, upc,
                 deducted>>

\* serve_load_model builds the weights, tokenizer and inference state, or fails.
LoadModel(l) ==
  /\ lpc[l] = "load"
  /\ SlowLoads => \A u \in Callers : upc[u] \notin {"open", "wipe"}
  /\ \/ /\ staged' = l
        /\ live' = live \cup {l}
        /\ LGoto(l, "publish")
        /\ UNCHANGED loadState
     \/ /\ loadState' = Failed
        /\ LGoto(l, "done")
        /\ UNCHANGED <<staged, live>>
  /\ UNCHANGED <<batchMode, gateVars, model, cfg, sched, hpc, kind, requests, upc,
                 deducted>>

LoadPublish(l) ==
  /\ lpc[l] = "publish"
  /\ model' = staged
  /\ cfg' = staged
  /\ loadState' = Ready
  /\ LGoto(l, "index")
  /\ UNCHANGED <<batchMode, gateVars, sched, staged, live, hpc, kind, requests, upc,
                 deducted>>

\* The model is published, and may be unloaded: the thread goes on to name it and
\* to index --disk-kv by it, `if (!ctx->ist || !ctx->cfg)`, without a lock or a count.
LoadIndex(l) ==
  /\ lpc[l] = "index"
  /\ LGoto(l, IF model # NoModel THEN "indexing" ELSE "done")
  /\ UNCHANGED <<batchMode, gateVars, modelVars, hpc, kind, requests, upc, deducted>>

LoadEnd(l) ==
  /\ lpc[l] = "indexing"
  /\ LGoto(l, "done")
  /\ UNCHANGED <<batchMode, gateVars, modelVars, hpc, kind, requests, upc, deducted>>

Loader(l) ==
  LoadBegin(l) \/ LoadModel(l) \/ LoadPublish(l) \/ LoadIndex(l) \/ LoadEnd(l)

(***************************************************************************)
(* vllm_serve_unload_model and its _self wrapper, called by an admin       *)
(* handler or by the monitor.                                              *)
(***************************************************************************)
\* The monitor calls the wrapper from the residency policy (vllm_res_tick),
\* the plain unload for --auto-unload.
MonitorTick ==
  /\ upc[Monitor] = "none"
  /\ MayUnload
  /\ loadState = Ready
  /\ UGoto(Monitor, IF PolicyTick THEN "deduct" ELSE "check")
  /\ UNCHANGED <<batchMode, gateVars, modelVars, hpc, kind, requests, deducted, lpc>>

\* _self: takes the caller's own count, or what it believes to be it.
DeductSelf(u) ==
  /\ upc[u] = "deduct"
  /\ IF inflight > 0
     THEN inflight' = inflight - 1 /\ deducted' = deducted \cup {u}
     ELSE UNCHANGED <<inflight, deducted>>
  /\ UGoto(u, "check")
  /\ UNCHANGED <<batchMode, pending, active, queued, busy, infLock, modelVars,
                 hpc, kind, requests, lpc>>

\* Two unlocked looks at load_state.
CheckLoaded(u) ==
  /\ upc[u] = "check"
  /\ UGoto(u, IF loadState = Ready THEN "refuse" ELSE "restore")
  /\ UNCHANGED <<batchMode, gateVars, modelVars, hpc, kind, requests, deducted, lpc>>

\* (mutation: only requests past the gate count)
GatedUse == active > 0 \/ queued > 0 \/ busy

InUse == active > 0 \/ queued > 0 \/ busy \/ inflight > 0

\* Under stat_lock: refuses (-3) while anything is in use, else closes the gate.
RefuseBusy(u) ==
  /\ upc[u] = "refuse"
  /\ IF InUse
     THEN UGoto(u, "restore") /\ UNCHANGED pending
     ELSE UGoto(u, "drain") /\ pending' = TRUE
  /\ UNCHANGED <<batchMode, inflight, active, queued, busy, infLock, modelVars,
                 hpc, kind, requests, deducted, lpc>>

\* The last look after the loop that waits up to 2 s: it may come at any time.
Drain(u) ==
  /\ upc[u] = "drain"
  /\ UGoto(u, IF InUse THEN "abort" ELSE "lock")
  /\ UNCHANGED <<batchMode, gateVars, modelVars, hpc, kind, requests, deducted, lpc>>

\* (mutation: an aborted unload leaves the gate closed)
AbortKeepsGate(u) ==
  /\ upc[u] = "abort"
  /\ UGoto(u, "restore")
  /\ UNCHANGED <<batchMode, gateVars, modelVars, hpc, kind, requests, deducted, lpc>>

AbortUnload(u) ==
  /\ upc[u] = "abort"
  /\ pending' = FALSE
  /\ UGoto(u, "restore")
  /\ UNCHANGED <<batchMode, inflight, active, queued, busy, infLock, modelVars,
                 hpc, kind, requests, deducted, lpc>>

LockForFree(u) ==
  /\ upc[u] = "lock"
  /\ infLock = Free
  /\ infLock' = u
  /\ UGoto(u, "free")
  /\ UNCHANGED <<batchMode, pending, inflight, active, queued, busy, modelVars,
                 hpc, kind, requests, deducted, lpc>>

\* vllm_server_reset_session destroys the batch scheduler; then the vision and
\* inference states, the tokenizer and the weights are freed and set to NULL.
FreeModel(u) ==
  /\ upc[u] = "free"
  /\ live' = live \ {model}
  /\ model' = NoModel
  /\ sched' = NoModel
  /\ UGoto(u, "clear")
  /\ UNCHANGED <<batchMode, gateVars, loadState, cfg, staged, hpc, kind, requests,
                 deducted, lpc>>

ClearState(u) ==
  /\ upc[u] = "clear"
  /\ cfg' = NoModel
  /\ loadState' = Unloaded
  /\ UGoto(u, "open")
  /\ UNCHANGED <<batchMode, gateVars, model, sched, staged, live, hpc, kind, requests,
                 deducted, lpc>>

ReopenGate(u) ==
  /\ upc[u] = "open"
  /\ pending' = FALSE
  /\ UGoto(u, "wipe")
  /\ UNCHANGED <<batchMode, inflight, active, queued, busy, infLock, modelVars,
                 hpc, kind, requests, deducted, lpc>>

\* m->tok = m->ist = NULL, after load_state said that a load may start.
WipeStaged(u) ==
  /\ upc[u] = "wipe"
  /\ staged' = NoModel
  /\ infLock' = Free
  /\ UGoto(u, "restore")
  /\ UNCHANGED <<batchMode, pending, inflight, active, queued, busy, loadState, model,
                 cfg, sched, live, hpc, kind, requests, deducted, lpc>>

\* (mutation: the wrapper does not give the count back)
RestoreNothing(u) ==
  /\ upc[u] = "restore"
  /\ deducted' = deducted \ {u}
  /\ UGoto(u, "none")
  /\ hpc' = [h \in Handlers |-> IF h = u THEN "leave" ELSE hpc[h]]
  /\ UNCHANGED <<batchMode, gateVars, modelVars, kind, requests, lpc>>

RestoreSelf(u) ==
  /\ upc[u] = "restore"
  /\ inflight' = IF u \in deducted THEN inflight + 1 ELSE inflight
  /\ deducted' = deducted \ {u}
  /\ UGoto(u, "none")
  /\ hpc' = [h \in Handlers |-> IF h = u THEN "leave" ELSE hpc[h]]
  /\ UNCHANGED <<batchMode, pending, active, queued, busy, infLock, modelVars,
                 kind, requests, lpc>>

Unloader(u) ==
  \/ DeductSelf(u) \/ CheckLoaded(u) \/ RefuseBusy(u) \/ Drain(u) \/ AbortUnload(u)
  \/ LockForFree(u) \/ FreeModel(u) \/ ClearState(u) \/ ReopenGate(u) \/ WipeStaged(u)
  \/ RestoreSelf(u)

Next ==
  \/ \E h \in Handlers : Enter(h) \/ Handler(h)
  \/ \E l \in Loads : Loader(l)
  \/ \E u \in Callers : Unloader(u)
  \/ MonitorTick

Spec == Init /\ [][Next]_vars

\* Threads keep being scheduled; requests arrive and the monitor ticks as they
\* please.  Of the mutexes no more is asked than that they are given when free.
Fairness ==
  /\ \A h \in Handlers : WF_vars(Handler(h))
  /\ WF_vars(\E l \in Loads : Loader(l))
  /\ WF_vars(\E u \in Callers : Unloader(u))

FairSpec == Spec /\ Fairness
=============================================================================
