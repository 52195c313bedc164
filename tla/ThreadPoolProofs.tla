-------------------------- MODULE ThreadPoolProofs --------------------------
(***************************************************************************)
(* Proofs about ThreadPool for every number of workers, every range and    *)
(* every number of jobs.                                                   *)
(***************************************************************************)
EXTENDS ThreadPoolProps, FiniteSetTheorems, TLAPS

\* Multiplication by a natural number keeps the order.
LEMMA ProductOrder ==
  ASSUME NEW a \in Nat, NEW b \in Nat, NEW q \in Nat, a <= b
  PROVE  a * q \in Nat /\ b * q \in Nat /\ a * q <= b * q
<1> DEFINE k == b - a
<1>1. k \in Nat /\ b = a + k
  OBVIOUS
<1>2. (a + k) * q = a * q + k * q
  BY <1>1
<1>3. a * q \in Nat /\ k * q \in Nat
  BY <1>1
<1> HIDE DEF k
<1> QED BY <1>1, <1>2, <1>3

\* The split of vllm_tp_parfor: parts are ranges of [0, n), one behind the other.
LEMMA ChunkBounds ==
  ASSUME NEW n \in Nat, NEW nt \in Nat \ {0}, NEW p \in 0 .. nt - 1
  PROVE  /\ ChunkLo(n, nt, p) \in 0 .. n
         /\ ChunkLo(n, nt, p) + ChunkLen(n, nt, p) \in 0 .. n
         /\ ChunkLen(n, nt, p) \in Nat
         /\ \A t \in 0 .. nt - 1 :
              p < t => ChunkLo(n, nt, p) + ChunkLen(n, nt, p) <= ChunkLo(n, nt, t)
<1> DEFINE q == n \div nt
           r == n % nt
<1>1. q \in Nat /\ r \in 0 .. nt - 1 /\ n = nt * q + r
  OBVIOUS
<1>3. ChunkLo(n, nt, p) = p * q + (IF p < r THEN p ELSE r)
      /\ ChunkLen(n, nt, p) = q + (IF p < r THEN 1 ELSE 0)
      /\ \A t \in 0 .. nt - 1 : ChunkLo(n, nt, t) = t * q + (IF t < r THEN t ELSE r)
  BY DEF ChunkLo, ChunkLen
<1>4. (p + 1) * q = p * q + q
  BY <1>1
<1> HIDE DEF q, r
<1>2. ASSUME NEW a \in Nat, NEW b \in Nat, a <= b
      PROVE  a * q <= b * q /\ a * q \in Nat /\ b * q \in Nat
  BY <1>1, <1>2, ProductOrder
<1>5. p * q \in Nat /\ (p + 1) * q <= nt * q
  BY <1>1, <1>2
<1>6. \A t \in 0 .. nt - 1 : p < t => (p + 1) * q <= t * q /\ t * q \in Nat
  BY <1>1, <1>2
<1>7. nt * q \in Nat
  BY <1>1, <1>2
<1> DEFINE a == p * q
           b == nt * q
           lo == ChunkLo(n, nt, p)
           len == ChunkLen(n, nt, p)
<1>8. a \in Nat /\ b \in Nat /\ a + q <= b /\ n = b + r /\ q \in Nat /\ r \in Nat /\ r <= n
  BY <1>1, <1>4, <1>5, <1>7
<1>9. lo = a + (IF p < r THEN p ELSE r) /\ len = q + (IF p < r THEN 1 ELSE 0) /\ p \in Nat
  BY <1>3
<1>10. \A t \in 0 .. nt - 1 : p < t => lo + len <= ChunkLo(n, nt, t)
  <2> SUFFICES ASSUME NEW t \in 0 .. nt - 1, p < t PROVE lo + len <= ChunkLo(n, nt, t)
    OBVIOUS
  <2> DEFINE c == t * q
  <2>1. a + q <= c /\ c \in Nat
    BY <1>4, <1>6
  <2>2. ChunkLo(n, nt, t) = c + (IF t < r THEN t ELSE r)
    BY <1>3
  <2> HIDE DEF a, b, c, lo, len
  <2> QED BY <2>1, <2>2, <1>8, <1>9
<1> HIDE DEF a, b, lo, len
<1>11. lo \in 0 .. n /\ lo + len \in 0 .. n /\ len \in Nat
  BY <1>8, <1>9
<1> QED BY <1>10, <1>11 DEF lo, len

\* What vllm_tp_parfor writes is a descriptor whose parts follow one another.
LEMMA ParforParts ==
  ASSUME TypeOK, NEW n \in 1 .. MaxItems
  PROVE  /\ ParforJob(n) \in JobType
         /\ ParforJob(n).kind = "parfor"
         /\ \A p \in 0 .. nworkers : ParforJob(n).lo[p] <= ParforJob(n).hi[p]
         /\ \A p, q \in 0 .. nworkers : p < q => ParforJob(n).hi[p] <= ParforJob(n).lo[q]
<1> DEFINE nt == nworkers + 1
           lo(p) == ChunkLo(n, nt, p)
           hi(p) == ChunkLo(n, nt, p) + ChunkLen(n, nt, p)
<1>1. nt \in Nat \ {0} /\ n \in Nat /\ 0 .. n \subseteq 0 .. MaxItems
      /\ nworkers \in Nat /\ 0 .. nworkers = 0 .. nt - 1
  BY MaxItemsAssumption, MaxWorkersAssumption DEF TypeOK
<1>2. \A p \in 0 .. nt - 1 :
        /\ lo(p) \in 0 .. n /\ hi(p) \in 0 .. n /\ ChunkLen(n, nt, p) \in Nat
        /\ \A q \in 0 .. nt - 1 : p < q => hi(p) <= lo(q)
  BY <1>1, ChunkBounds
<1>3. \A p \in 0 .. nworkers :
        /\ lo(p) \in 0 .. MaxItems /\ hi(p) \in 0 .. MaxItems /\ lo(p) <= hi(p)
        /\ \A q \in 0 .. nworkers : p < q => hi(p) <= lo(q)
  <2> SUFFICES ASSUME NEW p \in 0 .. nworkers
      PROVE  /\ lo(p) \in 0 .. MaxItems /\ hi(p) \in 0 .. MaxItems /\ lo(p) <= hi(p)
             /\ \A q \in 0 .. nworkers : p < q => hi(p) <= lo(q)
    OBVIOUS
  <2> DEFINE a == lo(p)
             len == ChunkLen(n, nt, p)
  <2>1. a \in 0 .. n /\ a + len \in 0 .. n /\ len \in Nat
        /\ \A q \in 0 .. nworkers : p < q => hi(p) <= lo(q)
    BY <1>1, <1>2
  <2>2. a <= a + len
    <3> HIDE DEF a, len
    <3> QED BY <2>1
  <2> QED BY <1>1, <2>1, <2>2
<1>4. job.lo \in [Parts -> 0 .. MaxItems] /\ job.hi \in [Parts -> 0 .. MaxItems]
  BY DEF TypeOK, JobType
<1>5. 0 .. nworkers \subseteq Parts /\ \A p \in Parts : ~(p > nworkers) => p \in 0 .. nworkers
  BY MaxWorkersAssumption DEF TypeOK, Parts
<1>6. ParforJob(n) =
        [kind |-> "parfor",
         lo   |-> [p \in Parts |-> IF p > nworkers THEN job.lo[p] ELSE lo(p)],
         hi   |-> [p \in Parts |-> IF p > nworkers THEN job.hi[p] ELSE hi(p)]]
  BY DEF ParforJob
<1> HIDE DEF nt, lo, hi
<1>7. ParforJob(n) \in JobType /\ ParforJob(n).kind = "parfor"
  BY <1>3, <1>4, <1>5, <1>6 DEF JobType
<1>8. \A p \in 0 .. nworkers : ParforJob(n).lo[p] = lo(p) /\ ParforJob(n).hi[p] = hi(p)
  <2>1. \A p \in 0 .. nworkers : p \in Parts /\ ~(p > nworkers)
    BY <1>1, <1>5
  <2> QED BY <1>6, <2>1
<1> QED BY <1>3, <1>7, <1>8

-----------------------------------------------------------------------------
\* The descriptor of an empty job.
LEMMA IdleJobType == IdleJob \in JobType
<1>1. [p \in Parts |-> 0] \in [Parts -> 0 .. MaxItems]
  BY MaxItemsAssumption
<1> QED BY <1>1 DEF IdleJob, JobType

\* The invariant holds before the first pool is created.
LEMMA InitInv == Init => IInv
<1> SUFFICES ASSUME Init PROVE IInv
  OBVIOUS
<1> USE MaxWorkersAssumption, MaxItemsAssumption DEF Init
<1>1. TypeOK
  <2>1. cur \in [Slots -> [next : Nat, end : Nat]] /\ 0 \in Parts
    BY DEF Parts
  <2>2. /\ wpc \in [Slots -> WorkerAt] /\ asleep \in [Slots -> BOOLEAN]
        /\ last \in [Slots -> Nat] /\ lastGen \in [Slots -> Nat] /\ mine \in [Slots -> Nat]
    BY DEF WorkerAt
  <2>3. nworkers \in 0 .. MaxWorkers /\ job \in JobType /\ cpc \in CallerAt
    BY IdleJobType DEF CallerAt
  <2>4. running \in BOOLEAN /\ gen \in Nat /\ done \in Nat /\ ci \in Nat /\ ct \in Parts
        /\ ran \in [Items -> Nat]
    BY <2>1
  <2> HIDE DEF Init
  <2> QED BY <2>1, <2>2, <2>3, <2>4 DEF TypeOK
<1>2. StageInv /\ CallerInv
  BY DEF StageInv, CallerInv, InRegion, Stopping, Waking, Members
<1>3. CountInv /\ PartsInv /\ RanInv
  BY DEF CountInv, PartsInv, RanInv, InRegion
<1> QED BY <1>1, <1>2, <1>3 DEF IInv

\* Slots of the pool are slots, and a worker's part and the caller's are parts.
LEMMA MemberFacts ==
  ASSUME TypeOK
  PROVE  /\ nworkers \in Nat /\ Members \subseteq Slots /\ Slots \subseteq Nat
         /\ 0 .. nworkers = Members \cup {nworkers} /\ nworkers \notin Members
         /\ 0 .. nworkers \subseteq Parts
         /\ IsFiniteSet(Members) /\ Cardinality(Members) = nworkers
<1>1. nworkers \in 0 .. MaxWorkers /\ MaxWorkers \in Nat
  BY MaxWorkersAssumption DEF TypeOK
<1>2. IsFiniteSet(Members) /\ Cardinality(Members) = nworkers
  BY <1>1, FS_Interval DEF Members
<1> QED BY <1>1, <1>2 DEF Members, Slots, Parts

\* Every step keeps the types.
LEMMA TypeStep == TypeOK /\ CallerInv /\ [Next]_vars => TypeOK'
<1> SUFFICES ASSUME TypeOK, CallerInv, [Next]_vars PROVE TypeOK'
  OBVIOUS
<1> USE MaxWorkersAssumption, MaxItemsAssumption
    DEF TypeOK, poolVars, workerVars, callerVars, Goto, WorkerAt, CallerAt
<1>1. ASSUME NEW n \in 1 .. MaxWorkers, Create(n) PROVE TypeOK'
  <2>1. cur' \in [Slots -> [next : Nat, end : Nat]] /\ job' \in JobType
    BY <1>1, IdleJobType DEF Create
  <2>2. /\ wpc' \in [Slots -> WorkerAt] /\ asleep' \in [Slots -> BOOLEAN]
        /\ last' \in [Slots -> Nat] /\ lastGen' \in [Slots -> Nat] /\ mine' \in [Slots -> Nat]
    BY <1>1 DEF Create
  <2>3. nworkers' \in 0 .. MaxWorkers
    BY <1>1 DEF Create
  <2>5. cpc' \in CallerAt /\ running' \in BOOLEAN
    BY <1>1 DEF Create
  <2>4. /\ gen' \in Nat /\ done' \in Nat
        /\ ci' \in Nat /\ ct' \in Parts /\ ran' \in [Items -> Nat]
    BY <1>1 DEF Create
  <2> QED BY <2>1, <2>2, <2>3, <2>4, <2>5
<1>2. ASSUME NEW j \in JobType, Publish(j) PROVE TypeOK'
  <2>1. nworkers \in Parts /\ j.lo[nworkers] \in Nat
    BY DEF Parts, JobType
  <2>2. job' \in JobType /\ ci' \in Nat /\ gen' \in Nat
    BY <1>2, <2>1 DEF Publish
  <2> QED BY <1>2, <2>2 DEF Publish, StartWaking, Parts
<1>3. ASSUME NEW n \in 1 .. MaxItems, Parfor(n) PROVE TypeOK'
  BY <1>2, <1>3, ParforParts DEF Parfor
<1>4. CASE Parcall
  <2>1. [job EXCEPT !.kind = "parcall"] \in JobType
    BY DEF JobType
  <2> QED BY <1>2, <1>4, <2>1 DEF Parcall
<1>5. CASE WakeOne
  <2>1. ct + 1 \in Parts
    BY <1>5 DEF WakeOne, Members, Parts
  <2> QED BY <1>5, <2>1 DEF WakeOne
<1>6. CASE WakeEnd
  BY <1>6 DEF WakeEnd, AfterWaking, Waking, Parts
<1>7. CASE CallerItem
  <2>1. \A i \in Items : ran[i] + 1 \in Nat
    OBVIOUS
  <2>2. ran' \in [Items -> Nat]
    BY <1>7, <2>1 DEF CallerItem
  <2> QED BY <1>7, <2>2 DEF CallerItem
<1>8. CASE CallerDone \/ Join
  BY <1>8 DEF CallerDone, Join
<1>9. CASE JoinRewake
  BY <1>9 DEF JoinRewake, StartWaking, Parts
<1>10. CASE Shutdown
  <2>1. [job EXCEPT !.kind = "idle"] \in JobType
    BY DEF JobType
  <2> QED BY <1>10, <2>1 DEF Shutdown, StartWaking, Parts
<1>11. CASE JoinThread
  <2>1. ct + 1 \in Parts
    BY <1>11 DEF JoinThread, Members, Parts
  <2> QED BY <1>11, <2>1 DEF JoinThread
<1>12. CASE FreePool
  BY <1>12 DEF FreePool
<1>13. ASSUME NEW w \in Slots, WorkerStep(w) \/ SpinOut(w) \/ WaitTimeout(w) PROVE TypeOK'
  <2>1. CASE SpinSees(w) \/ SpinOut(w) \/ ParkSees(w) \/ Park(w) \/ Sleep(w) \/ Unpark(w)
             \/ WaitTimeout(w) \/ Exit(w) \/ Fetch(w)
    BY <2>1 DEF SpinSees, SpinOut, ParkSees, Park, Sleep, Unpark, WaitTimeout, Exit, Fetch
  <2>2. CASE Adopt(w)
    <3>1. w \in Parts /\ w \in Nat
      BY DEF Slots, Parts
    <3>2. cur' \in [Slots -> [next : Nat, end : Nat]]
      BY <2>2, <3>1 DEF Adopt, JobType
    <3> QED BY <2>2, <3>2 DEF Adopt
  <2>3. CASE WorkerItem(w)
    <3> DEFINE n == cur[w].next
    <3>3. ran' = [ran EXCEPT ![n] = @ + 1]
      BY <2>3 DEF WorkerItem
    <3>4. \A i \in Items : ran[i] \in Nat /\ ran[i] + 1 \in Nat
      OBVIOUS
    <3>1. ran' \in [Items -> Nat]
      <4> HIDE DEF n
      <4> QED BY <3>3, <3>4
    <3>2. cur' \in [Slots -> [next : Nat, end : Nat]]
      BY <2>3 DEF WorkerItem
    <3> QED BY <2>3, <3>1, <3>2 DEF WorkerItem
  <2>4. CASE WorkerLast(w)
    <3>1. last' \in [Slots -> Nat]
      BY <2>4 DEF WorkerLast
    <3> QED BY <2>4, <3>1 DEF WorkerLast
  <2>5. CASE WorkerDone(w)
    <3>1. done' \in Nat
      BY <2>5 DEF WorkerDone
    <3> QED BY <2>5, <3>1 DEF WorkerDone
  <2> QED BY <1>13, <2>1, <2>2, <2>3, <2>4, <2>5 DEF WorkerStep
<1>14. CASE UNCHANGED vars
  BY <1>14 DEF vars
<1> QED BY <1>1, <1>3, <1>4, <1>5, <1>6, <1>7, <1>8, <1>9, <1>10, <1>11, <1>12, <1>13, <1>14
        DEF Next, CallerStep

-----------------------------------------------------------------------------
\* A caller that may leave its join knows that every worker has run its part.
LEMMA AllCounted ==
  ASSUME TypeOK, StageInv, CountInv, InRegion, Joined
  PROVE  \A w \in Members : Ends(w) /\ wpc[w] # "finish"
<1>1. IsFiniteSet(Members) /\ Cardinality(Members) = nworkers /\ nworkers \in Nat
  BY MemberFacts
<1>2. Counted \subseteq Members
  BY DEF Counted
<1>3. /\ IsFiniteSet(Counted) /\ Cardinality(Counted) \in Nat
      /\ Cardinality(Counted) <= nworkers
      /\ Cardinality(Counted) = nworkers => Counted = Members
  BY <1>1, <1>2, FS_Subset, FS_CardinalityType
<1>4. Cardinality(Counted) >= nworkers
  BY DEF CountInv, Joined
<1>5. Counted = Members
  BY <1>1, <1>3, <1>4
<1> SUFFICES ASSUME NEW w \in Members PROVE Ends(w) /\ wpc[w] # "finish"
  OBVIOUS
<1>6. last[w] = gen /\ wpc[w] # "finish" /\ gen \in Nat
  BY <1>5 DEF Counted, TypeOK
<1> QED BY <1>6 DEF StageInv, Begins, Runs, Ends

\* A worker that takes a step is a worker of the pool.
LEMMA StepsOfMembers ==
  ASSUME TypeOK, StageInv, CallerInv, NEW w \in Slots, wpc[w] \notin {"none", "exited"}
  PROVE  w \in Members /\ cpc # "noPool" /\ (InRegion \/ cpc = "idle" \/ Stopping)
<1>1. w \in Members
  BY DEF StageInv
<1>2. nworkers # 0
  BY <1>1 DEF Members
<1> QED BY <1>1, <1>2 DEF CallerInv, InRegion, Stopping, TypeOK, CallerAt

\* A step of one worker keeps the stages when it keeps its own.
LEMMA OneWorker ==
  ASSUME TypeOK, StageInv, CallerInv, NEW w \in Members,
         UNCHANGED <<nworkers, gen, cpc>>, cpc = "stopJoin" => ct' = ct,
         \A v \in Slots \ {w} : /\ wpc'[v] = wpc[v] /\ last'[v] = last[v]
                                /\ lastGen'[v] = lastGen[v] /\ mine'[v] = mine[v],
         cpc = "idle" => Ends(w)' /\ wpc'[w] # "finish",
         InRegion => Begins(w)' \/ Runs(w)' \/ Ends(w)',
         Stopping => last'[w] # gen /\ wpc'[w] \in Resting \cup {"fetch", "exited"},
         wpc[w] = "exited" => wpc'[w] = "exited"
  PROVE  StageInv'
<1>1. Members' = Members /\ Members \subseteq Slots
  BY MemberFacts DEF Members
<1>2. InRegion' = InRegion /\ Stopping' = Stopping /\ gen' = gen /\ cpc' = cpc
  BY DEF InRegion, Stopping
<1>3. \A v \in Members \ {w} :
        (Begins(v)' = Begins(v)) /\ (Runs(v)' = Runs(v)) /\ (Ends(v)' = Ends(v))
        /\ wpc'[v] = wpc[v] /\ last'[v] = last[v]
  BY <1>1 DEF Begins, Runs, Ends
<1>4. \A v \in Slots \ Members : wpc'[v] = wpc[v]
  OBVIOUS
<1> QED BY <1>1, <1>2, <1>3, <1>4 DEF StageInv

\* The steps of the caller keep the stages of the workers.
LEMMA CallerStages ==
  ASSUME IInv, \/ \E n \in 1 .. MaxWorkers : Create(n)
               \/ \E j \in JobType : Publish(j)
               \/ CallerStep \/ JoinRewake \/ Shutdown
  PROVE  StageInv' /\ CallerInv'
<1> USE MemberFacts
    DEF IInv, StageInv, CallerInv, InRegion, Stopping, Waking, Resting, Begins, Runs, Ends,
        Members, poolVars, workerVars, callerVars, StartWaking
<1>1. ASSUME NEW n \in 1 .. MaxWorkers, Create(n) PROVE StageInv' /\ CallerInv'
  BY <1>1, MaxWorkersAssumption DEF Create, Slots
<1>2. ASSUME NEW j \in JobType, Publish(j) PROVE StageInv' /\ CallerInv'
  BY <1>2 DEF Publish, TypeOK
<1>3. CASE WakeOne
  <2>8. PICK w \in Members : w = ct
    BY <1>3 DEF WakeOne
  <2>1. w \in Members /\ UNCHANGED <<nworkers, gen, running, cpc, last, lastGen, mine>>
        /\ ct' = ct + 1 /\ ct \in Nat
    BY <1>3, <2>8 DEF WakeOne
  <2>2. wpc' = wpc \/ (wpc[w] = "sleeping" /\ wpc' = [wpc EXCEPT ![w] = "wait"])
    BY <1>3, <2>8 DEF WakeOne
  <2>3. ct' <= nworkers'
    BY <2>1, <2>8
  <2>4. cpc \in Waking /\ CallerInv'
    BY <1>3, <2>1, <2>3 DEF WakeOne
  <2>5. wpc'[w] = wpc[w] \/ (wpc[w] = "sleeping" /\ wpc'[w] = "wait")
    BY <2>1, <2>2 DEF TypeOK
  <2>6. \A v \in Slots \ {w} : wpc'[v] = wpc[v]
    BY <2>2 DEF TypeOK
  <2>7. /\ InRegion => Begins(w)' \/ Runs(w)' \/ Ends(w)'
        /\ Stopping => last'[w] # gen /\ wpc'[w] \in Resting \cup {"fetch", "exited"}
    BY <2>1, <2>5
  <2> QED BY <2>1, <2>4, <2>5, <2>6, <2>7, OneWorker
<1>4. CASE WakeEnd
  BY <1>4 DEF WakeEnd, AfterWaking, TypeOK
<1>5. CASE CallerItem \/ CallerDone
  BY <1>5 DEF CallerItem, CallerDone
<1>6. CASE Join
  BY <1>6, AllCounted DEF Join
<1>7. CASE JoinRewake
  BY <1>7 DEF JoinRewake
<1>8. CASE Shutdown
  BY <1>8 DEF Shutdown, TypeOK
<1>9. CASE JoinThread
  BY <1>9 DEF JoinThread, TypeOK
<1>10. CASE FreePool
  BY <1>10 DEF FreePool, TypeOK
<1> QED BY <1>1, <1>2, <1>3, <1>4, <1>5, <1>6, <1>7, <1>8, <1>9, <1>10 DEF CallerStep

\* So do the steps of the workers.
LEMMA WorkerStages ==
  ASSUME IInv, NEW w \in Slots, WorkerStep(w) \/ SpinOut(w) \/ WaitTimeout(w)
  PROVE  StageInv' /\ CallerInv'
<1>1. wpc[w] \notin {"none", "exited"}
  BY DEF WorkerStep, SpinSees, SpinOut, ParkSees, Park, Sleep, Unpark, WaitTimeout, Exit, Fetch,
         Adopt, WorkerItem, WorkerLast, WorkerDone
<1>2. w \in Members /\ (InRegion \/ cpc = "idle" \/ Stopping)
  BY <1>1, StepsOfMembers DEF IInv
<1>3. /\ cpc = "idle" => Ends(w) /\ wpc[w] # "finish"
      /\ InRegion => gen > 0 /\ (Begins(w) \/ Runs(w) \/ Ends(w))
      /\ Stopping => last[w] # gen /\ wpc[w] \in Resting \cup {"fetch", "exited"}
  BY <1>2 DEF IInv, StageInv
<1>4. (cpc = "idle" \/ InRegion => ~running) /\ (Stopping => running)
  BY DEF IInv, CallerInv
<1>5. /\ UNCHANGED <<nworkers, gen, running, cpc, ct>>
      /\ \A v \in Slots \ {w} : /\ wpc'[v] = wpc[v] /\ last'[v] = last[v]
                                /\ lastGen'[v] = lastGen[v] /\ mine'[v] = mine[v]
  BY DEF IInv, TypeOK, poolVars, workerVars, callerVars, Goto, WorkerStep, SpinSees, SpinOut,
         ParkSees, Park, Sleep, Unpark, WaitTimeout, Exit, Fetch, Adopt, WorkerItem, WorkerLast,
         WorkerDone
<1> DEFINE Fine == /\ cpc = "idle" => Ends(w)' /\ wpc'[w] # "finish"
                   /\ InRegion => Begins(w)' \/ Runs(w)' \/ Ends(w)'
                   /\ Stopping => last'[w] # gen /\ wpc'[w] \in Resting \cup {"fetch", "exited"}
<1>6. TypeOK /\ gen \in Nat /\ gen' = gen
  BY <1>5 DEF IInv, TypeOK
<1> USE <1>2, <1>3, <1>4, <1>6 DEF TypeOK, Resting, Begins, Runs, Ends, Goto
<1> SUFFICES Fine
  <2>1. CallerInv'
    BY <1>5 DEF IInv, CallerInv, InRegion, Stopping
  <2>2. ASSUME Fine PROVE StageInv'
    BY <1>1, <1>2, <1>5, <2>2, OneWorker DEF IInv
  <2> QED BY <2>1, <2>2
<1>7. CASE SpinSees(w) \/ SpinOut(w) \/ ParkSees(w)
  BY <1>7 DEF SpinSees, SpinOut, ParkSees
<1>8. CASE Park(w) \/ Sleep(w) \/ Unpark(w) \/ WaitTimeout(w)
  BY <1>8 DEF Park, Sleep, Unpark, WaitTimeout, NothingNew
<1>9. CASE Exit(w) \/ Fetch(w)
  BY <1>9 DEF Exit, Fetch
<1>10. CASE Adopt(w)
  BY <1>10 DEF Adopt, Repeated
<1>11. CASE WorkerItem(w)
  BY <1>11 DEF WorkerItem
<1>12. CASE WorkerLast(w)
  BY <1>12 DEF WorkerLast
<1>13. CASE WorkerDone(w)
  BY <1>13 DEF WorkerDone
<1> QED BY <1>7, <1>8, <1>9, <1>10, <1>11, <1>12, <1>13 DEF WorkerStep

-----------------------------------------------------------------------------
\* The invariant excludes a worker with a job outside the region of that job.
LEMMA NoStrays == IInv => NoStrayWorker
<1> SUFFICES ASSUME IInv, NEW w \in Slots, wpc[w] \in {"adopt", "run", "finish"}
    PROVE  InRegion /\ mine[w] = gen /\ (wpc[w] = "adopt" => ~Repeated(w))
  BY DEF NoStrayWorker
<1>1. w \in Members /\ (InRegion \/ cpc = "idle" \/ Stopping)
  BY StepsOfMembers DEF IInv
<1>2. InRegion /\ (Begins(w) \/ Runs(w) \/ Ends(w))
  BY <1>1 DEF IInv, StageInv, Resting, Ends
<1> QED BY <1>2 DEF Begins, Runs, Ends, Resting, Repeated, IInv, TypeOK

\* Every step keeps the count.
LEMMA CountStep == IInv /\ [Next]_vars => CountInv'
<1> SUFFICES ASSUME IInv, [Next]_vars PROVE CountInv'
  OBVIOUS
<1>a. TypeOK /\ StageInv /\ CallerInv /\ CountInv /\ gen \in Nat /\ done \in Nat
  BY DEF IInv, TypeOK
<1>b. Members \subseteq Slots
  BY <1>a, MemberFacts
<1>c. ASSUME InRegion' = InRegion, done' = done, Members' = Members, gen' = gen,
             \A w \in Members : /\ (last'[w] = gen) <=> (last[w] = gen)
                                /\ (wpc'[w] = "finish") <=> (wpc[w] = "finish")
      PROVE  CountInv'
  <2>2. Counted' = {w \in Members : last'[w] = gen /\ wpc'[w] # "finish"}
    BY <1>c DEF Counted
  <2>3. \A w \in Members : (last'[w] = gen /\ wpc'[w] # "finish")
                          <=> (last[w] = gen /\ wpc[w] # "finish")
    BY <1>c
  <2>1. Counted' = Counted
    BY <2>2, <2>3 DEF Counted
  <2> QED BY <1>a, <1>c, <2>1 DEF CountInv
<1> USE <1>a DEF poolVars, workerVars, callerVars, StartWaking, Goto, Members
<1>1. ASSUME NEW n \in 1 .. MaxWorkers, Create(n) PROVE CountInv'
  BY <1>1 DEF Create, CountInv, InRegion
<1>2. ASSUME NEW j \in JobType, Publish(j) PROVE CountInv'
  <2>1. Counted' = {}
    BY <1>2 DEF Publish, Counted, StageInv, Ends
  <2>2. done' = 0
    BY <1>2 DEF Publish, CountInv, InRegion
  <2> QED BY <2>1, <2>2, FS_EmptySet DEF CountInv
<1>3. CASE WakeOne
  BY <1>3, <1>b, <1>c DEF WakeOne, InRegion, TypeOK
<1>4. CASE WakeEnd \/ CallerItem \/ CallerDone \/ JoinRewake
  <2>1. InRegion' = InRegion /\ UNCHANGED <<nworkers, gen, done, last, wpc>>
    BY <1>4 DEF WakeEnd, CallerItem, CallerDone, JoinRewake, InRegion, Waking, AfterWaking
  <2> QED BY <2>1, <1>c
<1>5. CASE Join \/ Shutdown \/ JoinThread \/ FreePool
  BY <1>5 DEF Join, Shutdown, JoinThread, FreePool, CountInv, InRegion
<1>6. ASSUME NEW w \in Slots, WorkerStep(w) \/ SpinOut(w) \/ WaitTimeout(w) PROVE CountInv'
  <2>1. CASE SpinSees(w) \/ SpinOut(w) \/ ParkSees(w) \/ Park(w) \/ Sleep(w) \/ Unpark(w)
             \/ WaitTimeout(w) \/ Exit(w) \/ Fetch(w)
    BY <2>1, <1>b, <1>c DEF SpinSees, SpinOut, ParkSees, Park, Sleep, Unpark, WaitTimeout, Exit,
       Fetch, InRegion, TypeOK
  <2>2. CASE Adopt(w)
    <3>1. ~Repeated(w)
      BY <2>2, NoStrays DEF NoStrayWorker, Adopt
    <3> QED BY <2>2, <3>1, <1>b, <1>c DEF Adopt, InRegion, TypeOK
  <2>3. CASE WorkerItem(w)
    BY <2>3, <1>b, <1>c DEF WorkerItem, InRegion
  <2>4. CASE WorkerLast(w)
    <3>1. w \in Members /\ InRegion
      BY <2>4, NoStrays, StepsOfMembers DEF NoStrayWorker, WorkerLast
    <3>2. w \notin Counted
      BY <2>4, <3>1 DEF WorkerLast, StageInv, Begins, Runs, Ends, Resting, Counted
    <3>3. Counted' = Counted
      BY <2>4, <3>2, <1>b DEF WorkerLast, Counted, TypeOK
    <3> QED BY <2>4, <3>3 DEF WorkerLast, CountInv, InRegion
  <2>5. CASE WorkerDone(w)
    <3>1. w \in Members /\ InRegion
      BY <2>5, NoStrays, StepsOfMembers DEF NoStrayWorker, WorkerDone
    <3>2. last[w] = gen
      BY <2>5, <3>1 DEF WorkerDone, StageInv, Begins, Runs, Ends, Resting
    <3>3. Counted' = Counted \cup {w} /\ w \notin Counted
      BY <2>5, <3>1, <3>2, <1>b DEF WorkerDone, Counted, TypeOK
    <3>4. IsFiniteSet(Counted)
      BY MemberFacts, FS_Subset DEF Counted
    <3>5. Cardinality(Counted') = Cardinality(Counted) + 1
      BY <3>3, <3>4, FS_AddElement
    <3> QED BY <2>5, <3>1, <3>5 DEF WorkerDone, CountInv, InRegion
  <2> QED BY <1>6, <2>1, <2>2, <2>3, <2>4, <2>5 DEF WorkerStep
<1>7. CASE UNCHANGED vars
  BY <1>7, <1>c DEF vars, InRegion
<1>8. ASSUME NEW n \in 1 .. MaxItems, Parfor(n) PROVE CountInv'
  BY <1>2, <1>8, ParforParts DEF Parfor
<1>9. CASE Parcall
  <2>1. [job EXCEPT !.kind = "parcall"] \in JobType
    BY DEF TypeOK, JobType
  <2> QED BY <1>2, <1>9, <2>1 DEF Parcall
<1> QED BY <1>1, <1>3, <1>4, <1>5, <1>6, <1>7, <1>8, <1>9 DEF Next, CallerStep

\* Every step keeps the parts of a region apart.
LEMMA PartsStep == IInv /\ [Next]_vars => PartsInv'
<1> SUFFICES ASSUME IInv, [Next]_vars, InRegion' PROVE PartsInv'
  BY DEF PartsInv
<1>a. TypeOK /\ PartsInv
  BY DEF IInv
<1>1. ASSUME NEW n \in 1 .. MaxItems, Parfor(n) PROVE PartsInv'
  <2>1. job' = ParforJob(n) /\ nworkers' = nworkers
    BY <1>1 DEF Parfor, Publish
  <2> QED BY <1>a, <2>1, ParforParts DEF PartsInv, Lo, Hi
<1>2. CASE Parcall
  <2>1. job'.kind = "parcall" /\ nworkers' = nworkers
    BY <1>a, <1>2 DEF Parcall, Publish, TypeOK, JobType
  <2>2. nworkers \in Nat
    BY <1>a, MemberFacts
  <2> QED BY <2>1, <2>2 DEF PartsInv, Lo, Hi
<1>3. ASSUME InRegion, UNCHANGED <<job, nworkers>> PROVE PartsInv'
  BY <1>a, <1>3 DEF PartsInv, Lo, Hi
<1>4. CASE (\E n \in 1 .. MaxWorkers : Create(n)) \/ Shutdown \/ Join \/ FreePool \/ JoinThread
  BY <1>4 DEF Create, Shutdown, Join, FreePool, JoinThread, StartWaking, InRegion, callerVars
<1>5. CASE WakeOne \/ WakeEnd \/ CallerItem \/ CallerDone \/ JoinRewake
  BY <1>3, <1>5 DEF WakeOne, WakeEnd, CallerItem, CallerDone, JoinRewake, StartWaking, InRegion,
     Waking, AfterWaking, poolVars
<1>6. ASSUME NEW w \in Slots, WorkerStep(w) \/ SpinOut(w) \/ WaitTimeout(w) PROVE PartsInv'
  BY <1>3, <1>6 DEF WorkerStep, SpinSees, SpinOut, ParkSees, Park, Sleep, Unpark, WaitTimeout, Exit,
     Fetch, Adopt, WorkerItem, WorkerLast, WorkerDone, InRegion, poolVars, callerVars
<1>7. CASE UNCHANGED vars
  BY <1>3, <1>7 DEF vars, InRegion, poolVars, callerVars
<1> QED BY <1>1, <1>2, <1>4, <1>5, <1>6, <1>7 DEF Next, CallerStep

-----------------------------------------------------------------------------
\* The items of a part are items, and are what Work names.
LEMMA PartItems ==
  ASSUME TypeOK, PartsInv, InRegion, NEW p \in 0 .. nworkers
  PROVE  /\ Lo(p) \in Nat /\ Hi(p) \in Nat /\ Lo(p) <= Hi(p) /\ p \in Parts
         /\ Lo(p) .. Hi(p) - 1 \subseteq Items
         /\ Work(job, p) = Lo(p) .. Hi(p) - 1
<1> USE MaxWorkersAssumption, MaxItemsAssumption
<1>1. p \in Parts /\ p \in Nat /\ p <= MaxWorkers /\ Lo(p) <= Hi(p)
  BY MemberFacts DEF Parts, PartsInv
<1>2. CASE job.kind = "parfor"
  <2>1. /\ Lo(p) = job.lo[p] /\ Hi(p) = job.hi[p] /\ Work(job, p) = job.lo[p] .. job.hi[p] - 1
        /\ job.lo[p] \in 0 .. MaxItems /\ job.hi[p] \in 0 .. MaxItems
    BY <1>1, <1>2 DEF Lo, Hi, Work, TypeOK, JobType
  <2> QED BY <1>1, <2>1 DEF Items
<1>3. CASE job.kind = "parcall"
  <2>1. Lo(p) = p /\ Hi(p) = p + 1 /\ Work(job, p) = {p}
    BY <1>3 DEF Lo, Hi, Work
  <2> QED BY <1>1, <2>1 DEF Items
<1> QED BY <1>2, <1>3 DEF PartsInv, TypeOK, JobType

\* One part of RanInv.
PartRan(p) ==
  /\ Reached(p) \in Lo(p) .. Hi(p)
  /\ \A i \in Lo(p) .. Hi(p) - 1 : ran[i] = IF i < Reached(p) THEN 1 ELSE 0

\* A step that runs nothing and moves no part keeps every part.
LEMMA PartsStay ==
  ASSUME RanInv, InRegion, UNCHANGED <<job, nworkers, ran>>,
         \A p \in 0 .. nworkers : Reached(p)' = Reached(p),
         \A w \in Members : wpc'[w] = "run" => cur'[w].end = Hi(w)
  PROVE  RanInv'
<1>1. \A p : Lo(p)' = Lo(p) /\ Hi(p)' = Hi(p)
  BY DEF Lo, Hi
<1> QED BY <1>1 DEF RanInv, Members

\* A step that runs the next item of one part keeps every part.
LEMMA PartAdvances ==
  ASSUME TypeOK, PartsInv, RanInv, InRegion, UNCHANGED <<job, nworkers>>,
         NEW p \in 0 .. nworkers, NEW r, r = Reached(p), r < Hi(p),
         ran' = [ran EXCEPT ![r] = @ + 1],
         Reached(p)' = r + 1,
         \A q \in 0 .. nworkers : q # p => Reached(q)' = Reached(q),
         \A w \in Members : wpc'[w] = "run" => cur'[w].end = Hi(w)
  PROVE  RanInv' /\ r \in Items /\ ran[r] = 0
<1>1. \A q : Lo(q)' = Lo(q) /\ Hi(q)' = Hi(q)
  BY DEF Lo, Hi
<1>2. \A q \in 0 .. nworkers :
        /\ Lo(q) \in Nat /\ Hi(q) \in Nat /\ Lo(q) .. Hi(q) - 1 \subseteq Items
        /\ Reached(q) \in Lo(q) .. Hi(q)
        /\ \A i \in Lo(q) .. Hi(q) - 1 : ran[i] = IF i < Reached(q) THEN 1 ELSE 0
  BY PartItems DEF RanInv
<1>3. r \in Lo(p) .. Hi(p) - 1 /\ r \in Items /\ ran[r] = 0
  BY <1>2
<1>4. ran'[r] = 1 /\ \A i \in Items : i # r => ran'[i] = ran[i]
  BY <1>3 DEF TypeOK
<1>5. PartRan(p)'
  BY <1>1, <1>2, <1>3, <1>4 DEF PartRan
<1>6. ASSUME NEW q \in 0 .. nworkers, q # p PROVE PartRan(q)'
  <2>1. p < q \/ q < p
    BY <1>6, MemberFacts
  <2>2. Hi(p) <= Lo(q) \/ Hi(q) <= Lo(p)
    BY <2>1 DEF PartsInv
  <2>3. r \notin Lo(q) .. Hi(q) - 1
    BY <1>2, <1>3, <2>2
  <2> QED BY <1>1, <1>2, <1>4, <1>6, <2>3 DEF PartRan
<1>7. \A q \in 0 .. nworkers : PartRan(q)'
  BY <1>5, <1>6
<1> QED BY <1>1, <1>3, <1>7 DEF RanInv, PartRan, Members

\* A new region begins with every part at its first item.
LEMMA PublishRan ==
  ASSUME IInv, PartsInv', NEW j \in JobType, j.kind # "idle", Publish(j)
  PROVE  RanInv'
<1>1. /\ TypeOK /\ nworkers' = nworkers /\ job' = j /\ gen' = gen + 1 /\ cpc' = "wake"
      /\ UNCHANGED <<wpc, last, cur>> /\ gen \in Nat /\ ran' = [i \in Items |-> 0]
      /\ ci' = IF j.kind = "parfor" THEN j.lo[nworkers] ELSE nworkers
  BY DEF Publish, StartWaking, workerVars, IInv, TypeOK
<1>2. \A w \in Members : last'[w] # gen' /\ wpc'[w] # "run"
  BY <1>1 DEF Publish, IInv, StageInv, Ends, Resting
<1>3. InRegion' /\ Members' = Members
  BY <1>1 DEF InRegion, Members
<1>4. /\ 0 .. nworkers = Members \cup {nworkers} /\ nworkers \in Nat /\ nworkers \notin Members
      /\ 0 .. nworkers \subseteq Parts
  BY <1>1, MemberFacts
<1>5. ASSUME NEW p \in 0 .. nworkers PROVE PartRan(p)'
  <2>1. /\ Lo(p)' = (IF j.kind = "parfor" THEN j.lo[p] ELSE p)
        /\ Hi(p)' = (IF j.kind = "parfor" THEN j.hi[p] ELSE p + 1)
    BY <1>1 DEF Lo, Hi
  <2>2. Lo(p)' \in Nat /\ Hi(p)' \in Nat /\ Lo(p)' <= Hi(p)'
    BY <1>1, <1>3, <1>4, <2>1 DEF PartsInv, JobType
  <2>5. Hi(p)' <= MaxItems + MaxWorkers + 1
    <3>1. p \in Parts /\ j.hi[p] \in 0 .. MaxItems
      BY <1>4 DEF JobType
    <3> QED BY <2>1, <3>1, MaxItemsAssumption, MaxWorkersAssumption DEF Parts
  <2>3. (Lo(p) .. Hi(p) - 1)' \subseteq Items
    <3>1. \A a, b \in Nat : b <= MaxItems + MaxWorkers + 1 => a .. b - 1 \subseteq Items
      BY MaxItemsAssumption, MaxWorkersAssumption DEF Items
    <3> QED BY <2>2, <2>5, <3>1
  <2>4. Reached(p)' = Lo(p)'
    BY <1>1, <1>2, <1>4, <2>1 DEF Reached
  <2> QED BY <1>1, <2>2, <2>3, <2>4 DEF PartRan
<1> QED BY <1>1, <1>2, <1>3, <1>5 DEF RanInv, PartRan

\* The caller's steps run its own part in order.
LEMMA CallerRan ==
  ASSUME IInv, CallerStep \/ JoinRewake
  PROVE  /\ RanInv'
         /\ CallerItem => ci \in Items /\ ran[ci] = 0
<1>1. /\ TypeOK /\ PartsInv /\ RanInv /\ StageInv
      /\ nworkers \in 0 .. nworkers /\ nworkers \notin Members /\ Members \subseteq 0 .. nworkers
      /\ nworkers \in Nat /\ 0 .. nworkers = Members \cup {nworkers}
  BY MemberFacts DEF IInv
<1>2. CASE CallerItem
  <2>1. /\ InRegion /\ UNCHANGED <<job, nworkers, wpc, last, cur, gen, cpc>> /\ cpc = "chunk"
        /\ ran' = [ran EXCEPT ![ci] = @ + 1] /\ ci' = ci + 1 /\ ci \in Work(job, nworkers)
    BY <1>2 DEF CallerItem, InRegion, poolVars, workerVars
  <2>2. Reached(nworkers) = ci /\ Reached(nworkers)' = ci + 1
    BY <2>1 DEF Reached
  <2>3. ci < Hi(nworkers)
    <3>1. ci \in Lo(nworkers) .. Hi(nworkers) - 1 /\ Hi(nworkers) \in Nat
      BY <1>1, <2>1, PartItems
    <3> QED BY <3>1
  <2>4. \A q \in 0 .. nworkers : q # nworkers => Reached(q)' = Reached(q)
    BY <2>1 DEF Reached, Lo, Hi
  <2>5. \A w \in Members : wpc'[w] = "run" => cur'[w].end = Hi(w)
    BY <1>1, <2>1 DEF RanInv
  <2> QED BY <1>1, <2>1, <2>2, <2>3, <2>4, <2>5, PartAdvances
<1>3. CASE ~CallerItem /\ InRegion /\ InRegion'
  <2>1. /\ UNCHANGED <<job, nworkers, ran, last, cur, gen>>
        /\ \A w \in Slots : (wpc'[w] = "run") <=> (wpc[w] = "run")
    BY <1>1, <1>3 DEF CallerStep, WakeOne, WakeEnd, CallerDone, JoinRewake, Join, JoinThread,
       FreePool, InRegion, poolVars, workerVars, StartWaking, TypeOK
  <2>2. \A w \in Members : wpc'[w] = "run" => cur'[w].end = Hi(w)
    BY <1>1, <1>3, <2>1, MemberFacts DEF RanInv
  <2>3. \A w \in Members : Reached(w)' = Reached(w)
    BY <1>1, <2>1, MemberFacts DEF Reached, Lo, Hi
  <2>4. Reached(nworkers)' = Reached(nworkers)
    <3>1. CASE CallerDone
      <4>1. ci \in Lo(nworkers) .. Hi(nworkers) /\ cpc = "chunk" /\ cpc' = "join"
        BY <1>1, <1>3, <3>1 DEF RanInv, Reached, CallerDone
      <4>2. ci \notin Lo(nworkers) .. Hi(nworkers) - 1 /\ Lo(nworkers) \in Nat
            /\ Hi(nworkers) \in Nat
        BY <1>1, <1>3, <3>1, PartItems DEF CallerDone
      <4>3. ci = Hi(nworkers)
        BY <4>1, <4>2
      <4> QED BY <2>1, <4>1, <4>3 DEF Reached, Lo, Hi
    <3>2. CASE ~CallerDone
      <4>1. ci' = ci /\ (cpc' \in {"wake", "chunk"} <=> cpc \in {"wake", "chunk"})
        BY <1>3, <3>2 DEF CallerStep, WakeOne, WakeEnd, JoinRewake, Join, JoinThread,
           FreePool, InRegion, StartWaking, Waking, AfterWaking
      <4> QED BY <2>1, <4>1 DEF Reached, Lo, Hi
    <3> QED BY <3>1, <3>2
  <2>5. \A p \in 0 .. nworkers : Reached(p)' = Reached(p)
    <3>1. \A p : p = nworkers => Reached(p)' = Reached(p)
      BY <2>1, <2>4
    <3> QED BY <1>1, <2>3, <3>1
  <2> QED BY <1>1, <1>3, <2>1, <2>2, <2>5, PartsStay
<1>4. CASE ~InRegion /\ ~CallerItem
  <2>1. ~InRegion'
    BY <1>4 DEF CallerStep, WakeOne, WakeEnd, CallerDone, JoinRewake, Join, JoinThread,
       FreePool, InRegion, Waking, AfterWaking
  <2> QED BY <1>4, <2>1 DEF RanInv
<1>5. CASE ~InRegion' /\ ~CallerItem
  BY <1>5 DEF RanInv
<1> QED BY <1>2, <1>3, <1>4, <1>5

\* A worker's steps run its part in order.
LEMMA WorkerRan ==
  ASSUME IInv, NEW w \in Slots, WorkerStep(w) \/ SpinOut(w) \/ WaitTimeout(w)
  PROVE  /\ RanInv'
         /\ WorkerItem(w) => /\ InRegion /\ w \in Members /\ cur[w].next \in Lo(w) .. Hi(w) - 1
                            /\ cur[w].next \in Items /\ ran[cur[w].next] = 0
<1>1. /\ TypeOK /\ PartsInv /\ RanInv /\ StageInv /\ NoStrayWorker /\ nworkers \in Nat
      /\ Members \subseteq Slots /\ nworkers \notin Members /\ gen \in Nat
      /\ 0 .. nworkers = Members \cup {nworkers}
  BY MemberFacts, NoStrays DEF IInv, TypeOK
<1>2. wpc[w] \notin {"none", "exited"}
  BY DEF WorkerStep, SpinSees, SpinOut, ParkSees, Park, Sleep, Unpark, WaitTimeout, Exit, Fetch,
         Adopt, WorkerItem, WorkerLast, WorkerDone
<1>3. w \in Members /\ w # nworkers /\ w \in 0 .. nworkers
  BY <1>1, <1>2, StepsOfMembers DEF IInv
<1>4. UNCHANGED <<job, nworkers, gen, cpc, ci>> /\ InRegion' = InRegion /\ Members' = Members
  BY DEF WorkerStep, SpinSees, SpinOut, ParkSees, Park, Sleep, Unpark, WaitTimeout, Exit, Fetch,
         Adopt, WorkerItem, WorkerLast, WorkerDone, poolVars, callerVars, InRegion, Members
<1>5. \A v \in Slots \ {w} : wpc'[v] = wpc[v] /\ last'[v] = last[v] /\ cur'[v] = cur[v]
  BY <1>1 DEF TypeOK, poolVars, workerVars, callerVars, Goto, WorkerStep, SpinSees, SpinOut,
         ParkSees, Park, Sleep, Unpark, WaitTimeout, Exit, Fetch, Adopt, WorkerItem, WorkerLast,
         WorkerDone
<1>6. \A q \in 0 .. nworkers : q # w => Reached(q)' = Reached(q)
  BY <1>1, <1>4, <1>5 DEF Reached, Lo, Hi
<1>7. \A v \in Members : v # w => (wpc'[v] = "run" /\ InRegion => cur'[v].end = Hi(v))
  BY <1>1, <1>5 DEF RanInv
<1>8. /\ Reached(w) = IF last[w] = gen THEN Hi(w)
                     ELSE IF wpc[w] = "run" THEN cur[w].next ELSE Lo(w)
      /\ Reached(w)' = IF last'[w] = gen THEN Hi(w)
                      ELSE IF wpc'[w] = "run" THEN cur'[w].next ELSE Lo(w)
  BY <1>3, <1>4 DEF Reached, Lo, Hi
<1>9. InRegion =>
        /\ Lo(w) \in Nat /\ Hi(w) \in Nat /\ Lo(w) <= Hi(w) /\ Reached(w) \in Lo(w) .. Hi(w)
        /\ wpc[w] = "run" => cur[w].end = Hi(w) /\ last[w] # gen /\ Reached(w) = cur[w].next
  <2> SUFFICES ASSUME InRegion
      PROVE  /\ Lo(w) \in Nat /\ Hi(w) \in Nat /\ Lo(w) <= Hi(w) /\ Reached(w) \in Lo(w) .. Hi(w)
             /\ wpc[w] = "run" => cur[w].end = Hi(w) /\ last[w] # gen /\ Reached(w) = cur[w].next
    OBVIOUS
  <2>1. wpc[w] = "run" => last[w] # gen
    BY <1>1, <1>3 DEF StageInv, Begins, Runs, Ends, Resting
  <2> QED BY <1>1, <1>3, <1>8, <2>1, PartItems DEF RanInv
<1>10. CASE WorkerItem(w)
  <2>1. InRegion /\ wpc[w] = "run"
    BY <1>1, <1>10 DEF NoStrayWorker, WorkerItem
  <2> DEFINE r == cur[w].next
  <2>2. /\ ran' = [ran EXCEPT ![r] = @ + 1] /\ r < cur[w].end
        /\ last'[w] = last[w] /\ wpc'[w] = wpc[w]
        /\ cur'[w].next = cur[w].next + 1 /\ cur'[w].end = cur[w].end
    BY <1>1, <1>10 DEF WorkerItem, TypeOK
  <2>3. r = Reached(w) /\ r < Hi(w) /\ Reached(w)' = r + 1 /\ r \in Lo(w) .. Hi(w) - 1
    BY <1>8, <1>9, <2>1, <2>2
  <2>4. \A v \in Members : wpc'[v] = "run" => cur'[v].end = Hi(v)
    BY <1>7, <1>9, <2>1, <2>2
  <2> HIDE DEF r
  <2>5. RanInv' /\ r \in Items /\ ran[r] = 0
    BY <1>1, <1>3, <1>4, <1>6, <2>1, <2>2, <2>3, <2>4, PartAdvances
  <2> QED BY <1>3, <2>1, <2>3, <2>5 DEF r
<1>11. CASE ~WorkerItem(w) /\ InRegion
  <2>1. ran' = ran
    BY <1>11 DEF WorkerStep, SpinSees, SpinOut, ParkSees, Park, Sleep, Unpark, WaitTimeout, Exit,
       Fetch, Adopt, WorkerItem, WorkerLast, WorkerDone
  <2>2. Reached(w)' = Reached(w) /\ (wpc'[w] = "run" => cur'[w].end = Hi(w))
    <3>1. CASE Adopt(w)
      <4>1. ~Repeated(w) /\ mine[w] = gen
        BY <1>1, <3>1 DEF NoStrayWorker, Adopt
      <4>2. /\ wpc[w] = "adopt" /\ wpc'[w] = "run" /\ last'[w] = last[w]
            /\ cur'[w] = CASE job.kind = "parfor"  -> [next |-> job.lo[w], end |-> job.hi[w]]
                           [] job.kind = "parcall" -> [next |-> w, end |-> w + 1]
                           [] OTHER                -> [next |-> 0, end |-> 0]
        BY <1>1, <1>3, <3>1, <4>1 DEF Adopt, Goto, TypeOK
      <4>3. job.kind \in {"parfor", "parcall"}
        BY <1>1, <1>11 DEF PartsInv, TypeOK, JobType
      <4>4. cur'[w].next = Lo(w) /\ cur'[w].end = Hi(w)
        BY <4>2, <4>3 DEF Lo, Hi
      <4> QED BY <1>8, <4>2, <4>4
    <3>2. CASE WorkerLast(w)
      <4>1. /\ wpc[w] = "run" /\ wpc'[w] = "finish" /\ last'[w] = gen
            /\ cur[w].next >= cur[w].end
        BY <1>1, <1>3, <3>2 DEF WorkerLast, Goto, TypeOK, NoStrayWorker
      <4>2. Reached(w) = Hi(w)
        BY <1>9, <1>11, <4>1
      <4> QED BY <1>8, <4>1, <4>2
    <3>3. CASE ~Adopt(w) /\ ~WorkerLast(w)
      <4>1. last'[w] = last[w] /\ wpc[w] # "run" /\ wpc'[w] # "run"
        BY <1>1, <1>3, <1>11, <3>3 DEF WorkerStep, SpinSees, SpinOut, ParkSees, Park, Sleep,
           Unpark, WaitTimeout, Exit, Fetch, WorkerDone, Goto, TypeOK
      <4> QED BY <1>8, <4>1
    <3> QED BY <3>1, <3>2, <3>3
  <2>3. \A p \in 0 .. nworkers : Reached(p)' = Reached(p)
    BY <1>6, <2>2
  <2>4. \A v \in Members : wpc'[v] = "run" => cur'[v].end = Hi(v)
    BY <1>7, <1>11, <2>2
  <2> QED BY <1>1, <1>4, <1>11, <2>1, <2>3, <2>4, PartsStay
<1>12. CASE ~WorkerItem(w) /\ ~InRegion
  BY <1>4, <1>12 DEF RanInv
<1> QED BY <1>10, <1>11, <1>12

-----------------------------------------------------------------------------
\* The invariant holds in every state.
LEMMA Invariance == Spec => []IInv
<1>1. IInv /\ [Next]_vars => IInv'
  <2> SUFFICES ASSUME IInv, [Next]_vars PROVE IInv'
    OBVIOUS
  <2>1. TypeOK' /\ CountInv' /\ PartsInv'
    BY TypeStep, CountStep, PartsStep DEF IInv
  <2> SUFFICES StageInv' /\ CallerInv' /\ RanInv'
    BY <2>1 DEF IInv
  <2>2. ASSUME NEW n \in 1 .. MaxWorkers, Create(n) PROVE StageInv' /\ CallerInv' /\ RanInv'
    BY <2>2, CallerStages DEF Create, RanInv, InRegion
  <2>3. ASSUME NEW j \in JobType, j.kind # "idle", Publish(j)
        PROVE  StageInv' /\ CallerInv' /\ RanInv'
    BY <2>1, <2>3, CallerStages, PublishRan
  <2>4. ASSUME NEW n \in 1 .. MaxItems, Parfor(n) PROVE StageInv' /\ CallerInv' /\ RanInv'
    BY <2>3, <2>4, ParforParts DEF Parfor, IInv
  <2>5. CASE Parcall
    <3>1. /\ [job EXCEPT !.kind = "parcall"] \in JobType
          /\ [job EXCEPT !.kind = "parcall"].kind # "idle"
      BY DEF IInv, TypeOK, JobType
    <3> QED BY <2>3, <2>5, <3>1 DEF Parcall
  <2>6. CASE CallerStep \/ JoinRewake
    BY <2>6, CallerStages, CallerRan
  <2>7. CASE Shutdown
    BY <2>7, CallerStages DEF Shutdown, StartWaking, RanInv, InRegion
  <2>8. ASSUME NEW w \in Slots, WorkerStep(w) \/ SpinOut(w) \/ WaitTimeout(w)
        PROVE  StageInv' /\ CallerInv' /\ RanInv'
    BY <2>8, WorkerStages, WorkerRan
  <2>9. CASE UNCHANGED vars
    <3>1. UNCHANGED <<nworkers, gen, running, done, job, wpc, last, lastGen, mine, cur, cpc, ci, ct,
                      ran>>
      BY <2>9 DEF vars, poolVars, workerVars, callerVars
    <3>2. StageInv' /\ CallerInv'
      BY <3>1 DEF IInv, StageInv, CallerInv, InRegion, Stopping, Waking, Resting, Begins, Runs,
         Ends, Members
    <3>3. RanInv'
      BY <3>1 DEF IInv, RanInv, Reached, Lo, Hi, InRegion, Members
    <3> QED BY <3>2, <3>3
  <2> QED BY <2>2, <2>4, <2>5, <2>6, <2>7, <2>8, <2>9 DEF Next
<1> QED BY <1>1, InitInv, PTL DEF Spec

\* Every variable of the pool keeps its type.
THEOREM TypeCorrect == Spec => []TypeOK
<1>1. IInv => TypeOK
  BY DEF IInv
<1> QED BY <1>1, Invariance, PTL

\* The descriptor, and the context on the caller's stack it points to, is never
\* overwritten while a worker reads it (vllm_tp.c: job_gen alone guards it).
THEOREM NoWorkerIsStray == Spec => []NoStrayWorker
<1> QED BY Invariance, NoStrays, PTL

\* What a caller finds when its join returns: every item of its region has run once.
LEMMA JoinedRan ==
  ASSUME IInv, Join
  PROVE  \A i \in RegionItems : ran[i] = 1
<1>1. /\ TypeOK /\ StageInv /\ CountInv /\ PartsInv /\ RanInv /\ InRegion /\ Joined
      /\ cpc = "join" /\ 0 .. nworkers = Members \cup {nworkers} /\ nworkers \notin Members
  BY MemberFacts DEF IInv, Join, InRegion
<1>2. \A w \in Members : last[w] = gen
  BY <1>1, AllCounted DEF Ends
<1>3. \A p \in 0 .. nworkers : Reached(p) = Hi(p)
  BY <1>1, <1>2 DEF Reached
<1> SUFFICES ASSUME NEW p \in 0 .. nworkers, NEW i \in Work(job, p) PROVE ran[i] = 1
  BY DEF RegionItems
<1>4. i \in Lo(p) .. Hi(p) - 1 /\ Lo(p) \in Nat /\ Hi(p) \in Nat
  BY <1>1, PartItems
<1> QED BY <1>1, <1>3, <1>4 DEF RanInv

\* A parallel region runs every one of its items exactly once, and the caller
\* leaves it only when they have run (vllm_tp_parfor, vllm_tp_parcall).
THEOREM PoolIsForkJoin == Spec => ImplementsForkJoin
<1> DEFINE region == IF InRegion THEN RegionItems ELSE {}
           Quiet == UNCHANGED <<InRegion, region, ran>>
<1>1. Init => Promise!Init
  BY DEF Init, Promise!Init, InRegion
<1> DEFINE Fits == InRegion => RegionItems \subseteq Items
<1>2. IInv => Fits
  BY PartItems DEF RegionItems, IInv
<1> HIDE DEF Fits
<1>3. IInv' => Fits'
  BY <1>2, PTL
<1>4. IInv' => (InRegion' => RegionItems' \subseteq Items)
  BY <1>3 DEF Fits
<1>5. IInv /\ IInv' /\ [Next]_vars => [Promise!Next]_<<InRegion, region, ran>>
  <2> SUFFICES ASSUME IInv, IInv', [Next]_vars PROVE Promise!Next \/ Quiet
    OBVIOUS
  <2>1. UNCHANGED <<job, nworkers>> => RegionItems' = RegionItems
    BY DEF RegionItems, Work
  <2>2. ASSUME NEW j \in JobType, Publish(j), InRegion' => RegionItems' \subseteq Items
        PROVE  Promise!Enter
    BY <2>2 DEF Publish, StartWaking, InRegion, Promise!Enter
  <2>3. ASSUME NEW n \in 1 .. MaxItems, Parfor(n) PROVE Promise!Enter
    BY <1>4, <2>2, <2>3, ParforParts DEF Parfor, IInv
  <2>4. CASE Parcall
    <3>1. [job EXCEPT !.kind = "parcall"] \in JobType
      BY DEF IInv, TypeOK, JobType
    <3>2. Promise!Enter
      BY <1>4, <2>2, <2>4, <3>1 DEF Parcall
    <3> QED BY <3>2 DEF Promise!Next
  <2>5. CASE CallerItem
    <3>1. ran[ci] = 0 /\ ci \in Items
      BY <2>5, CallerRan DEF CallerStep
    <3>2. InRegion /\ InRegion' /\ UNCHANGED <<job, nworkers>> /\ ran' = [ran EXCEPT ![ci] = @ + 1]
          /\ ci \in Work(job, nworkers)
      BY <2>5 DEF CallerItem, InRegion, poolVars
    <3>3. ci \in RegionItems
      BY <3>2, MemberFacts DEF RegionItems, IInv
    <3>4. ran' = [ran EXCEPT ![ci] = 1]
      BY <3>1, <3>2 DEF IInv, TypeOK
    <3> DEFINE i == ci
    <3>5. Promise!Run(i)
      BY <2>1, <3>1, <3>2, <3>4 DEF Promise!Run
    <3> QED BY <3>2, <3>3, <3>5 DEF Promise!Next
  <2>6. CASE Join
    <3>1. \A i \in RegionItems : ran[i] = 1
      BY <2>6, JoinedRan
    <3>2. Promise!Leave
      BY <2>6, <3>1 DEF Join, InRegion, Promise!Leave
    <3> QED BY <3>2 DEF Promise!Next
  <2>7. CASE \/ \E n \in 1 .. MaxWorkers : Create(n)
             \/ Shutdown \/ JoinThread \/ FreePool
    BY <2>7 DEF Create, Shutdown, JoinThread, FreePool, StartWaking, InRegion, callerVars
  <2>8. CASE WakeOne \/ WakeEnd \/ CallerDone \/ JoinRewake
    <3>1. InRegion' = InRegion /\ UNCHANGED <<job, nworkers, ran>>
      BY <2>8 DEF WakeOne, WakeEnd, CallerDone, JoinRewake, StartWaking, InRegion, Waking,
         AfterWaking, poolVars
    <3> QED BY <2>1, <3>1
  <2>9. ASSUME NEW w \in Slots, WorkerStep(w) \/ SpinOut(w) \/ WaitTimeout(w)
        PROVE  Promise!Next \/ Quiet
    <3>1. InRegion' = InRegion /\ UNCHANGED <<job, nworkers>>
      BY <2>9 DEF WorkerStep, SpinSees, SpinOut, ParkSees, Park, Sleep, Unpark, WaitTimeout, Exit,
         Fetch, Adopt, WorkerItem, WorkerLast, WorkerDone, poolVars, callerVars, InRegion
    <3>2. CASE WorkerItem(w)
      <4> DEFINE i == cur[w].next
      <4>1. /\ InRegion /\ w \in Members /\ i \in Lo(w) .. Hi(w) - 1 /\ i \in Items /\ ran[i] = 0
        BY <2>9, <3>2, WorkerRan
      <4>2. i \in RegionItems
        BY <4>1, MemberFacts, PartItems DEF RegionItems, IInv
      <4>3. ran' = [ran EXCEPT ![i] = 1]
        <5>1. ran' = [ran EXCEPT ![i] = @ + 1]
          BY <3>2 DEF WorkerItem
        <5> HIDE DEF i
        <5> QED BY <4>1, <5>1 DEF IInv, TypeOK
      <4>4. Promise!Run(i)
        BY <2>1, <3>1, <4>1, <4>3 DEF Promise!Run
      <4> QED BY <4>1, <4>2, <4>4 DEF Promise!Next
    <3>3. CASE ~WorkerItem(w)
      <4>1. ran' = ran
        BY <2>9, <3>3 DEF WorkerStep, SpinSees, SpinOut, ParkSees, Park, Sleep, Unpark,
           WaitTimeout, Exit, Fetch, Adopt, WorkerLast, WorkerDone
      <4> QED BY <2>1, <3>1, <4>1
    <3> QED BY <3>2, <3>3
  <2>10. CASE UNCHANGED vars
    BY <2>1, <2>10 DEF vars, poolVars, callerVars, InRegion
  <2>11. Promise!Enter => Promise!Next
    BY DEF Promise!Next
  <2> QED BY <2>3, <2>4, <2>5, <2>6, <2>7, <2>8, <2>9, <2>10, <2>11 DEF Next, CallerStep
<1> QED BY <1>1, <1>5, Invariance, PTL DEF ImplementsForkJoin, Promise!Spec, Spec
=============================================================================
