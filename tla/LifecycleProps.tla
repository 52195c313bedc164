--------------------------- MODULE LifecycleProps ---------------------------
(***************************************************************************)
(* What loading, admission and unloading must get right, and the lease     *)
(* they implement (ModelLease).                                            *)
(***************************************************************************)
EXTENDS Lifecycle

\* Inside a handler, and where it reads the model through ctx.
Inside == {h \in Handlers : hpc[h] # "idle"}
Using  == {h \in Handlers : hpc[h] \in {"prepare", "gate", "queued", "granted", "running",
                                        "unlock", "after"}}

\* server_handler: "The unload waits for this to reach 0 before freeing
\* ctx->ist/cfg/w ... freeing under it would be a use-after-free".  From
\* ensure_model_ready to its last use of ctx, under inf_lock or not, an
\* inference request finds the model allocated; past the gate, in batch mode, it
\* finds the batch scheduler, created on the weights now loaded.
HandlerKeepsModel ==
  /\ \A h \in Using : model \in live /\ cfg = model
  /\ sched # NoModel => sched = model
  /\ batchMode => \A h \in Handlers : hpc[h] = "running" => sched # NoModel

\* The gate's counters are exact: each request in flight is counted once, the
\* caller of the _self wrapper excepted; what the unload reads as idle is idle,
\* and the queue stays within max_queued.
CountersExact ==
  LET Count(at) == Cardinality({h \in Handlers : hpc[h] \in at}) IN
  /\ inflight = Cardinality(Inside) - Cardinality(deducted)
  /\ active = Count({"queued", "granted", "running"})
  /\ queued = IF batchMode THEN active ELSE Count({"queued", "granted"})
  /\ busy <=> \E h \in Handlers : hpc[h] = "running"
  /\ MaxQueued > 0 => queued <= MaxQueued

\* vllm_serve_start_load: "concurrent callers (worker threads / idle monitor)
\* never start two loads at once".  And no allocated model is lost sight of: it is
\* the one ctx points to or the one the load thread is about to publish, so it
\* will be freed, and freed once.
ModelsAccounted ==
  /\ Cardinality({l \in Loads : lpc[l] \in {"begin", "load", "publish"}}) <= 1
  /\ live = {l \in Loads : l = model \/ (lpc[l] = "publish" /\ staged = l)}

\* vllm_serve_unload_model: "Safe to call from an HTTP worker or the idle-unload
\* monitor thread".  The thread that loaded the model and still reads it through
\* ctx, to index --disk-kv, finds it allocated.
\* Not run: nothing keeps an unload from freeing it.
LoaderKeepsModel == (\E l \in Loads : lpc[l] = "indexing") => model \in live

-----------------------------------------------------------------------------
\* The lease a request has is what the gate, the counters and inf_lock make of it.
Lease == INSTANCE ModelLease WITH
  Users   <- Handlers,
  Models  <- Loads,
  loaded  <- model,
  leases  <- Using

ImplementsLease == Lease!Spec

\* An unload that closed the gate to inference opens it again.
GateReopens == pending ~> ~pending

\* Every request is answered: the waits for a load, for inf_lock and for the
\* drain of an unload all end.
RequestsAnswered == \A h \in Handlers : hpc[h] # "idle" ~> hpc[h] = "idle"
=============================================================================
