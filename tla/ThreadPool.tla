----------------------------- MODULE ThreadPool -----------------------------
(***************************************************************************)
(* The pool of compute threads (src/src/core/vllm_tp.c).                   *)
(*                                                                         *)
(* One caller publishes a job by writing a descriptor and incrementing     *)
(* job_gen; workers that spin see the new generation, workers that parked  *)
(* are signalled one by one; everybody runs its own chunk, and the caller  *)
(* waits until `done` equals the number of workers.  There is no lock      *)
(* around the descriptor: the generation alone says when it may be read    *)
(* and when it may be overwritten.                                         *)
(*                                                                         *)
(* Atomicity: reads and writes of shared fields that another thread can    *)
(* come between are actions of their own; the full barriers of the code    *)
(* make them sequentially consistent.  Fetch reads `running` and job_gen   *)
(* together, Adopt the whole descriptor: NoStrayWorker shows that the      *)
(* caller cannot write either while a worker is there.  Checking the       *)
(* condition under a worker's mutex and going to sleep is one action.      *)
(* One thread at a time calls the pool: the server calls it under inf_lock *)
(* or under the engine mutex.                                              *)
(*                                                                         *)
(* Abstracted: spin counts (a spinning worker parks when it likes, a       *)
(* joining caller wakes again when it likes), affinity, what a body does.  *)
(***************************************************************************)
EXTENDS Integers, FiniteSets

CONSTANTS
  MaxWorkers,   \* largest number of workers a pool is created with
  MaxItems,     \* largest range of a parfor
  MaxJobs       \* bound: generations of one pool

ASSUME MaxWorkersAssumption == MaxWorkers \in Nat \ {0}
ASSUME MaxItemsAssumption == MaxItems \in Nat
ASSUME MaxJobsAssumption == MaxJobs \in Nat

\* Worker slots; the caller's own chunk has slot nworkers.
Slots == 0 .. MaxWorkers - 1
Parts == 0 .. MaxWorkers
Items == 0 .. (MaxItems + MaxWorkers)

VARIABLES
  nworkers,   \* workers of the pool, 0 when there is no pool
  gen,        \* job_gen
  running,    \* the code's inverted flag: set to make the workers leave
  done,       \* workers that finished the current job
  job,        \* the descriptor: kind, chunk_lo, chunk_hi
  wpc,        \* where each worker is
  asleep,     \* its flag "parked"
  last,       \* its local `last`
  lastGen,    \* w->last_gen
  mine,       \* its local `gen`
  cur,        \* its loop over its chunk: next item and end
  cpc,        \* where the caller is
  ci,         \* the next item of the caller's own chunk
  ct,         \* the worker the caller looks at (waking or joining)
  ran         \* ghost: how often each item of this region ran

poolVars   == <<nworkers, gen, running, done, job>>
workerVars == <<wpc, asleep, last, lastGen, mine, cur>>
callerVars == <<cpc, ci, ct>>
vars       == <<poolVars, workerVars, callerVars, ran>>

\* A chunk of a parfor, the thread itself in a parcall, nothing in an empty job.
IdleJob == [kind |-> "idle", lo |-> [p \in Parts |-> 0], hi |-> [p \in Parts |-> 0]]
JobType == [kind : {"idle", "parfor", "parcall"},
            lo : [Parts -> 0 .. MaxItems], hi : [Parts -> 0 .. MaxItems]]

\* The items part p of a job runs: its chunk, or one call of the function.
Work(j, p) == CASE j.kind = "parfor"  -> j.lo[p] .. j.hi[p] - 1
                [] j.kind = "parcall" -> {p}
                [] OTHER              -> {}

WorkerAt == {"none", "spin", "park", "wait", "sleeping", "fetch", "adopt", "run", "finish",
             "exited"}
CallerAt == {"noPool", "idle", "wake", "chunk", "join", "rewake", "stopWake", "stopJoin"}

TypeOK ==
  /\ nworkers \in 0 .. MaxWorkers
  /\ gen \in Nat /\ done \in Nat /\ running \in BOOLEAN
  /\ job \in JobType
  /\ wpc \in [Slots -> WorkerAt]
  /\ asleep \in [Slots -> BOOLEAN]
  /\ last \in [Slots -> Nat] /\ lastGen \in [Slots -> Nat] /\ mine \in [Slots -> Nat]
  /\ cur \in [Slots -> [next : Nat, end : Nat]]
  /\ cpc \in CallerAt /\ ci \in Nat /\ ct \in Parts
  /\ ran \in [Items -> Nat]

Init ==
  /\ nworkers = 0 /\ gen = 0 /\ running = FALSE /\ done = 0 /\ job = IdleJob
  /\ wpc = [w \in Slots |-> "none"]
  /\ asleep = [w \in Slots |-> FALSE]
  /\ last = [w \in Slots |-> 0] /\ lastGen = [w \in Slots |-> 0]
  /\ mine = [w \in Slots |-> 0]
  /\ cur = [w \in Slots |-> [next |-> 0, end |-> 0]]
  /\ cpc = "noPool" /\ ci = 0 /\ ct = 0
  /\ ran = [i \in Items |-> 0]

Members == 0 .. nworkers - 1

(***************************************************************************)
(* The caller.                                                             *)
(***************************************************************************)

\* vllm_tp_init: a zeroed pool, every field set before its threads start.
Create(n) ==
  /\ cpc = "noPool"
  /\ nworkers' = n
  /\ gen' = 0 /\ running' = FALSE /\ done' = 0 /\ job' = IdleJob
  /\ wpc' = [w \in Slots |-> IF w < n THEN "spin" ELSE "none"]
  /\ asleep' = [w \in Slots |-> FALSE]
  /\ last' = [w \in Slots |-> 0] /\ lastGen' = [w \in Slots |-> 0]
  /\ mine' = [w \in Slots |-> 0]
  /\ cur' = [w \in Slots |-> [next |-> 0, end |-> 0]]
  /\ cpc' = "idle"
  /\ UNCHANGED <<ci, ct, ran>>

\* (mutation: every part is rounded up)
ChunkRoundedUp(n, nt, p) == (n \div nt) + (IF n % nt > 0 THEN 1 ELSE 0)

\* Part p of [0, n) split into nt parts: the first n % nt get one more.
ChunkLen(n, nt, p) == (n \div nt) + (IF p < n % nt THEN 1 ELSE 0)

\* (mutation: the longer parts are not counted)
ChunkLoUnshifted(n, nt, p) == p * (n \div nt)

\* Where it begins, behind the parts before it.
ChunkLo(n, nt, p) == p * (n \div nt) + (IF p < n % nt THEN p ELSE n % nt)

ParforJob(n) ==
  [kind |-> "parfor",
   lo   |-> [p \in Parts |-> IF p > nworkers THEN job.lo[p] ELSE ChunkLo(n, nworkers + 1, p)],
   hi   |-> [p \in Parts |-> IF p > nworkers THEN job.hi[p]
                             ELSE ChunkLo(n, nworkers + 1, p) + ChunkLen(n, nworkers + 1, p)]]

\* tp_wake_workers begins at worker 0.
StartWaking(at) == cpc' = at /\ ct' = 0

\* The descriptor is written, then job_gen is incremented behind a barrier.
Publish(j) ==
  /\ cpc = "idle"
  /\ gen < MaxJobs
  /\ job' = j
  /\ gen' = gen + 1
  /\ ci' = IF j.kind = "parfor" THEN j.lo[nworkers] ELSE nworkers
  /\ ran' = [i \in Items |-> 0]
  /\ StartWaking("wake")
  /\ UNCHANGED <<nworkers, running, done, workerVars>>

\* vllm_tp_parfor of a range that is not empty, in a pool that has workers.
Parfor(n) == nworkers > 0 /\ n > 0 /\ Publish(ParforJob(n))
\* vllm_tp_parcall writes kind, function and context; the chunks stay.
Parcall == nworkers > 0 /\ Publish([job EXCEPT !.kind = "parcall"])

Waking == {"wake", "rewake", "stopWake"}
AfterWaking ==
  CASE cpc = "wake" -> "chunk" [] cpc = "rewake" -> "join" [] cpc = "stopWake" -> "stopJoin"

\* One round of tp_wake_workers: a worker that is not parked is passed over,
\* one that sleeps on its condition variable is woken.
WakeOne ==
  /\ cpc \in Waking
  /\ ct \in Members
  /\ ct' = ct + 1
  /\ wpc' = IF asleep[ct] /\ wpc[ct] = "sleeping" THEN [wpc EXCEPT ![ct] = "wait"] ELSE wpc
  /\ UNCHANGED <<poolVars, asleep, last, lastGen, mine, cur, cpc, ci, ran>>

WakeEnd ==
  /\ cpc \in Waking
  /\ ct = nworkers
  /\ cpc' = AfterWaking
  /\ ct' = 0
  /\ UNCHANGED <<poolVars, workerVars, ci, ran>>

\* The caller runs the last chunk.
CallerItem ==
  /\ cpc = "chunk"
  /\ ci \in Work(job, nworkers)
  /\ ran' = [ran EXCEPT ![ci] = @ + 1]
  /\ ci' = ci + 1
  /\ UNCHANGED <<poolVars, workerVars, cpc, ct>>

CallerDone ==
  /\ cpc = "chunk"
  /\ ci \notin Work(job, nworkers)
  /\ cpc' = "join"
  /\ UNCHANGED <<poolVars, workerVars, ci, ct, ran>>

\* (mutation: one worker is not waited for)
JoinedEarly == done + 1 >= nworkers

\* tp_join_workers: leave when all are done, wake again when it drags on.
Joined == done >= nworkers

Join ==
  /\ cpc = "join"
  /\ Joined
  /\ done' = 0
  /\ cpc' = "idle"
  /\ UNCHANGED <<nworkers, gen, running, job, workerVars, ci, ct, ran>>

JoinRewake ==
  /\ cpc = "join"
  /\ ~Joined
  /\ StartWaking("rewake")
  /\ UNCHANGED <<poolVars, workerVars, ci, ran>>

\* (mutation: job_gen stays)
ShutdownSilently ==
  /\ cpc = "idle"
  /\ job' = [job EXCEPT !.kind = "idle"]
  /\ running' = TRUE
  /\ StartWaking("stopWake")
  /\ UNCHANGED <<nworkers, gen, done, workerVars, ci, ran>>

\* vllm_tp_shutdown: no stale job, `running` set, one last generation.
Shutdown ==
  /\ cpc = "idle"
  /\ job' = [job EXCEPT !.kind = "idle"]
  /\ running' = TRUE
  /\ gen' = gen + 1
  /\ StartWaking("stopWake")
  /\ UNCHANGED <<nworkers, done, workerVars, ci, ran>>

JoinThread ==
  /\ cpc = "stopJoin"
  /\ ct \in Members
  /\ wpc[ct] = "exited"
  /\ ct' = ct + 1
  /\ UNCHANGED <<poolVars, workerVars, cpc, ci, ran>>

FreePool ==
  /\ cpc = "stopJoin"
  /\ ct = nworkers
  /\ cpc' = "noPool"
  /\ nworkers' = 0
  /\ UNCHANGED <<gen, running, done, job, workerVars, ci, ct, ran>>

(***************************************************************************)
(* A worker (tp_worker_main).                                              *)
(***************************************************************************)
Goto(w, at) == wpc' = [wpc EXCEPT ![w] = at]

\* A spinning worker sees a new generation.
SpinSees(w) ==
  /\ wpc[w] = "spin"
  /\ gen # last[w]
  /\ Goto(w, "fetch")
  /\ UNCHANGED <<poolVars, asleep, last, lastGen, mine, cur, callerVars, ran>>

\* Its spin budget is spent, whatever was published since it last looked: it
\* says that it parks, then looks once more.
SpinOut(w) ==
  /\ wpc[w] = "spin"
  /\ asleep' = [asleep EXCEPT ![w] = TRUE]
  /\ Goto(w, "park")
  /\ UNCHANGED <<poolVars, last, lastGen, mine, cur, callerVars, ran>>

ParkSees(w) ==
  /\ wpc[w] = "park"
  /\ gen # last[w]
  /\ asleep' = [asleep EXCEPT ![w] = FALSE]
  /\ Goto(w, "fetch")
  /\ UNCHANGED <<poolVars, last, lastGen, mine, cur, callerVars, ran>>

Park(w) ==
  /\ wpc[w] = "park"
  /\ gen = last[w]
  /\ Goto(w, IF running THEN "exited" ELSE "wait")
  /\ UNCHANGED <<poolVars, asleep, last, lastGen, mine, cur, callerVars, ran>>

\* (mutation: the generation is not looked at again)
NotRunning(w) == ~running

\* Under its mutex: sleep while nothing new was published.
NothingNew(w) == gen = last[w] /\ ~running

Sleep(w) ==
  /\ wpc[w] = "wait"
  /\ NothingNew(w)
  /\ Goto(w, "sleeping")
  /\ UNCHANGED <<poolVars, asleep, last, lastGen, mine, cur, callerVars, ran>>

Unpark(w) ==
  /\ wpc[w] = "wait"
  /\ ~NothingNew(w)
  /\ asleep' = [asleep EXCEPT ![w] = FALSE]
  /\ Goto(w, "spin")
  /\ UNCHANGED <<poolVars, last, lastGen, mine, cur, callerVars, ran>>

\* The wait is timed; it may also end for no reason.
WaitTimeout(w) ==
  /\ wpc[w] = "sleeping"
  /\ Goto(w, "wait")
  /\ UNCHANGED <<poolVars, asleep, last, lastGen, mine, cur, callerVars, ran>>

Exit(w) ==
  /\ wpc[w] = "fetch"
  /\ running
  /\ Goto(w, "exited")
  /\ UNCHANGED <<poolVars, asleep, last, lastGen, mine, cur, callerVars, ran>>

Fetch(w) ==
  /\ wpc[w] = "fetch"
  /\ ~running
  /\ mine' = [mine EXCEPT ![w] = gen]
  /\ Goto(w, "adopt")
  /\ UNCHANGED <<poolVars, asleep, last, lastGen, cur, callerVars, ran>>

\* The guard against a generation that it ran before.
Repeated(w) == mine[w] <= lastGen[w]

\* The descriptor is read without a lock.
Adopt(w) ==
  /\ wpc[w] = "adopt"
  /\ lastGen' = [lastGen EXCEPT ![w] = mine[w]]
  /\ IF Repeated(w)
       THEN /\ last' = [last EXCEPT ![w] = mine[w]]
            /\ Goto(w, "spin")
            /\ UNCHANGED cur
       ELSE /\ cur' = [cur EXCEPT ![w] =
                         CASE job.kind = "parfor"  -> [next |-> job.lo[w], end |-> job.hi[w]]
                           [] job.kind = "parcall" -> [next |-> w, end |-> w + 1]
                           [] OTHER                -> [next |-> 0, end |-> 0]]
            /\ Goto(w, "run")
            /\ UNCHANGED last
  /\ UNCHANGED <<poolVars, asleep, mine, callerVars, ran>>

WorkerItem(w) ==
  /\ wpc[w] = "run"
  /\ cur[w].next < cur[w].end
  /\ ran' = [ran EXCEPT ![cur[w].next] = @ + 1]
  /\ cur' = [cur EXCEPT ![w].next = @ + 1]
  /\ UNCHANGED <<poolVars, wpc, asleep, last, lastGen, mine, callerVars>>

\* `last` is set before `done` counts this worker.
WorkerLast(w) ==
  /\ wpc[w] = "run"
  /\ cur[w].next >= cur[w].end
  /\ last' = [last EXCEPT ![w] = mine[w]]
  /\ Goto(w, "finish")
  /\ UNCHANGED <<poolVars, asleep, lastGen, mine, cur, callerVars, ran>>

WorkerDone(w) ==
  /\ wpc[w] = "finish"
  /\ done' = done + 1
  /\ Goto(w, "spin")
  /\ UNCHANGED <<nworkers, gen, running, job, asleep, last, lastGen, mine, cur, callerVars, ran>>

CallerStep ==
  \/ WakeOne \/ WakeEnd \/ CallerItem \/ CallerDone \/ Join \/ JoinThread \/ FreePool

WorkerStep(w) ==
  \/ SpinSees(w) \/ ParkSees(w) \/ Park(w) \/ Sleep(w) \/ Unpark(w) \/ Exit(w) \/ Fetch(w)
  \/ Adopt(w) \/ WorkerItem(w) \/ WorkerLast(w) \/ WorkerDone(w)

Next ==
  \/ \E n \in 1 .. MaxWorkers : Create(n)
  \/ \E n \in 1 .. MaxItems : Parfor(n)
  \/ Parcall
  \/ CallerStep \/ JoinRewake \/ Shutdown
  \/ \E w \in Slots : WorkerStep(w) \/ SpinOut(w) \/ WaitTimeout(w)

\* The operating system runs every thread that can run.  Timeouts, giving up
\* the spin, and the caller's second look are not promised.
Fairness == WF_vars(CallerStep) /\ \A w \in Slots : WF_vars(WorkerStep(w))

Spec == Init /\ [][Next]_vars
FairSpec == Spec /\ Fairness
=============================================================================
