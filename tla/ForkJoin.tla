------------------------------ MODULE ForkJoin ------------------------------
(***************************************************************************)
(* What the thread pool promises its caller (src/include/core/vllm_tp.h):  *)
(* a parallel region runs every one of its items exactly once and nothing  *)
(* else, and the caller leaves the region only when all of them have run.  *)
(***************************************************************************)
EXTENDS Naturals

CONSTANT Items      \* every item a region may have

VARIABLES
  inside,     \* the caller is inside a region
  region,     \* its items
  ran         \* how often each item ran in the last region

Init == inside = FALSE /\ region = {} /\ ran = [i \in Items |-> 0]

\* vllm_tp_parfor and vllm_tp_parcall.
Enter ==
  /\ ~inside
  /\ inside' = TRUE
  /\ region' \in SUBSET Items
  /\ ran' = [i \in Items |-> 0]

\* One call of the region's function, by the caller or by a worker.
Run(i) ==
  /\ inside
  /\ ran[i] = 0
  /\ ran' = [ran EXCEPT ![i] = 1]
  /\ UNCHANGED <<inside, region>>

Leave ==
  /\ inside
  /\ \A i \in region : ran[i] = 1
  /\ inside' = FALSE /\ region' = {}
  /\ UNCHANGED ran

Next == Enter \/ Leave \/ \E i \in region : Run(i)

Spec == Init /\ [][Next]_<<inside, region, ran>>
=============================================================================
