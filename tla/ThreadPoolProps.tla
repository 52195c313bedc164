-------------------------- MODULE ThreadPoolProps ---------------------------
(***************************************************************************)
(* What the thread pool must get right.                                    *)
(***************************************************************************)
EXTENDS ThreadPool

\* The parts of a region: one per worker and one for the caller.
RegionItems == UNION {Work(job, p) : p \in 0 .. nworkers}

\* Between vllm_tp_parfor/parcall and the end of its join.
InRegion == cpc \in {"wake", "chunk", "join", "rewake"}

\* A worker is between reading the generation and publishing `done` only inside
\* the region it belongs to: the caller never overwrites a descriptor (or the
\* context on its stack) that a worker still reads, and the guard against a
\* repeated generation is never taken.
NoStrayWorker ==
  \A w \in Slots :
    wpc[w] \in {"adopt", "run", "finish"} =>
      InRegion /\ mine[w] = gen /\ (wpc[w] = "adopt" => ~Repeated(w))

\* The region is what ForkJoin promises: every item exactly once, and nobody
\* leaves before the last one ran.
Promise == INSTANCE ForkJoin WITH
  inside <- InRegion,
  region <- IF InRegion THEN RegionItems ELSE {}
ImplementsForkJoin == Promise!Spec

\* A join ends, though no timed wait need ever time out: no wakeup is lost
\* between the parked flag, the second look at job_gen and the sleep.
JoinReturns == cpc = "wake" ~> cpc = "idle"

\* A shutdown ends, wherever the workers were when it began.
ShutdownReturns == cpc = "stopWake" ~> cpc = "noPool"

(***************************************************************************)
(* The inductive invariant.                                                *)
(***************************************************************************)

\* Where a worker without a job is.
Resting == {"spin", "park", "wait", "sleeping"}

Stopping == cpc \in {"stopWake", "stopJoin"}

\* The three stages of a worker in a region: it has not taken the job, it runs its
\* part, it has run it.
Begins(w) ==
  /\ last[w] = gen - 1 /\ lastGen[w] = gen - 1
  /\ wpc[w] \in Resting \cup {"fetch", "adopt"}
  /\ wpc[w] = "adopt" => mine[w] = gen
Runs(w) == wpc[w] = "run" /\ last[w] = gen - 1 /\ lastGen[w] = gen /\ mine[w] = gen
Ends(w) ==
  /\ last[w] = gen /\ lastGen[w] = gen /\ mine[w] = gen
  /\ wpc[w] \in Resting \cup {"finish"}

\* What the caller knows of the workers without a lock: outside a region all of them
\* have run every job so far; inside one each is in one of three stages.
StageInv ==
  /\ cpc = "idle" => \A w \in Members : Ends(w) /\ wpc[w] # "finish"
  /\ InRegion => gen > 0 /\ \A w \in Members : Begins(w) \/ Runs(w) \/ Ends(w)
  /\ Stopping =>
       \A w \in Members : last[w] # gen /\ wpc[w] \in Resting \cup {"fetch", "exited"}
  /\ cpc = "stopJoin" => \A w \in Members : w < ct => wpc[w] = "exited"
  /\ \A w \in Slots \ Members : wpc[w] \in {"none", "exited"}

CallerInv ==
  /\ InRegion \/ cpc = "idle" => ~running
  /\ Stopping => running
  /\ cpc = "noPool" <=> nworkers = 0
  /\ cpc \in Waking \cup {"stopJoin"} => ct <= nworkers

\* `done` counts the workers that ran their part and have said so.
Counted == {w \in Members : last[w] = gen /\ wpc[w] # "finish"}
CountInv == done = IF InRegion THEN Cardinality(Counted) ELSE 0

\* The items of part p are Lo(p) .. Hi(p) - 1; the parts follow one another.
Lo(p) == IF job.kind = "parfor" THEN job.lo[p] ELSE p
Hi(p) == IF job.kind = "parfor" THEN job.hi[p] ELSE p + 1
PartsInv ==
  InRegion =>
    /\ job.kind # "idle"
    /\ \A p \in 0 .. nworkers : Lo(p) <= Hi(p)
    /\ \A p, q \in 0 .. nworkers : p < q => Hi(p) <= Lo(q)

\* The first item of a part that has not run.
Reached(p) ==
  IF p = nworkers THEN (IF cpc \in {"wake", "chunk"} THEN ci ELSE Hi(p))
  ELSE IF last[p] = gen THEN Hi(p)
  ELSE IF wpc[p] = "run" THEN cur[p].next
  ELSE Lo(p)

\* A part is run from its first item to its last, once.
RanInv ==
  InRegion =>
    /\ \A p \in 0 .. nworkers :
         /\ Reached(p) \in Lo(p) .. Hi(p)
         /\ \A i \in Lo(p) .. Hi(p) - 1 : ran[i] = IF i < Reached(p) THEN 1 ELSE 0
    /\ \A w \in Members : wpc[w] = "run" => cur[w].end = Hi(w)

IInv == TypeOK /\ StageInv /\ CallerInv /\ CountInv /\ PartsInv /\ RanInv
=============================================================================
