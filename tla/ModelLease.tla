----------------------------- MODULE ModelLease -----------------------------
(***************************************************************************)
(* What loading and unloading promise an inference request                 *)
(* (src/include/serve/vllm_server.h): it gets a lease on the one loaded    *)
(* model, and no model is freed while a lease on it is out.                *)
(***************************************************************************)
CONSTANTS Users, Models, NoModel

VARIABLES
  loaded,  \* the model that may be leased
  leases   \* users of the model

vars == <<loaded, leases>>

Init == loaded = NoModel /\ leases = {}

Load(m) ==
  /\ loaded = NoModel
  /\ loaded' = m
  /\ UNCHANGED leases

Unload ==
  /\ loaded # NoModel
  /\ leases = {}
  /\ loaded' = NoModel
  /\ UNCHANGED leases

Acquire(u) ==
  /\ loaded # NoModel
  /\ u \notin leases
  /\ leases' = leases \cup {u}
  /\ UNCHANGED loaded

Release(u) ==
  /\ u \in leases
  /\ leases' = leases \ {u}
  /\ UNCHANGED loaded

Next ==
  \/ \E m \in Models : Load(m)
  \/ Unload
  \/ \E u \in Users : Acquire(u) \/ Release(u)

Spec == Init /\ [][Next]_vars
=============================================================================
