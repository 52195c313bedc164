-------------------------- MODULE LifecycleProofs --------------------------
(***************************************************************************)
(* Proofs about Lifecycle: for every number of handlers, requests and      *)
(* loads.                                                                  *)
(***************************************************************************)
EXTENDS LifecycleProps, FiniteSetTheorems, TLAPS

-----------------------------------------------------------------------------
(***************************************************************************)
(* Counting handlers by where they are.                                    *)
(***************************************************************************)
Cnt(f, S) == Cardinality({h \in Handlers : f[h] \in S})

\* A number of handlers is a natural number.
LEMMA CntType ==
  ASSUME NEW f, NEW S
  PROVE  Cnt(f, S) \in Nat /\ IsFiniteSet({h \in Handlers : f[h] \in S})
<1>1. {h \in Handlers : f[h] \in S} \in SUBSET Handlers
  OBVIOUS
<1>2. IsFiniteSet({h \in Handlers : f[h] \in S})
  BY <1>1, FS_Subset, HandlersAssumption
<1> QED BY <1>2, FS_CardinalityType DEF Cnt

\* There is a handler where at least one is counted, and only there.
LEMMA CntPositive ==
  ASSUME NEW f, NEW S
  PROVE  Cnt(f, S) > 0 <=> \E h \in Handlers : f[h] \in S
<1> DEFINE T == {h \in Handlers : f[h] \in S}
<1>1. IsFiniteSet(T) /\ Cnt(f, S) = Cardinality(T) /\ Cnt(f, S) \in Nat
  BY CntType DEF Cnt
<1>2. Cardinality(T) = 0 <=> T = {}
  BY <1>1, FS_EmptySet
<1>3. T = {} <=> ~ \E h \in Handlers : f[h] \in S
  OBVIOUS
<1> QED BY <1>1, <1>2, <1>3

\* A handler that goes from f[h] to v leaves the one count and enters the other.
LEMMA CntMove ==
  ASSUME NEW f, DOMAIN f = Handlers, f = [x \in Handlers |-> f[x]],
         NEW h \in Handlers, NEW v, NEW S
  PROVE  Cnt([f EXCEPT ![h] = v], S)
           = Cnt(f, S) + (IF v \in S THEN 1 ELSE 0) - (IF f[h] \in S THEN 1 ELSE 0)
<1> DEFINE g == [f EXCEPT ![h] = v]
           T == {x \in Handlers : f[x] \in S}
           R == T \ {h}
           U == {x \in Handlers : g[x] \in S}
<1>1. Cnt(f, S) = Cardinality(T) /\ Cnt(g, S) = Cardinality(U)
  BY DEF Cnt
<1>2. IsFiniteSet(T) /\ Cardinality(T) \in Nat
  BY <1>1, CntType DEF Cnt
<1>3. /\ IsFiniteSet(R)
      /\ Cardinality(R) = IF h \in T THEN Cardinality(T) - 1 ELSE Cardinality(T)
  BY <1>2, FS_RemoveElement
<1>4. Cardinality(R) \in Nat
  BY <1>3, FS_CardinalityType
<1>5. h \in T <=> f[h] \in S
  OBVIOUS
<1>6. ASSUME NEW A, NEW x, IsFiniteSet(A), x \notin A
      PROVE  Cardinality(A \cup {x}) = Cardinality(A) + 1
  BY <1>6, FS_AddElement
<1>7. CASE v \in S
  <2>1. U = R \cup {h} /\ h \notin R
    BY <1>7
  <2>2. Cardinality(U) = Cardinality(R) + 1
    <3> HIDE DEF R, U
    <3> QED BY <2>1, <1>3, <1>6
  <2> QED BY <2>2, <1>1, <1>2, <1>3, <1>4, <1>5, <1>7
<1>8. CASE v \notin S
  <2>1. U = R
    BY <1>8
  <2>2. Cardinality(U) = Cardinality(R)
    BY <2>1
  <2> QED BY <2>2, <1>1, <1>2, <1>3, <1>4, <1>5, <1>8
<1> QED BY <1>7, <1>8

\* Where the handlers are counted.
Within  == HandlerAt \ {"idle"}
Past    == {"queued", "granted", "running"}
Waiting == {"queued", "granted"}

-----------------------------------------------------------------------------
(***************************************************************************)
(* The invariant of the gate.                                              *)
(***************************************************************************)
CallerInv ==
  /\ \A h \in Handlers : upc[h] # "none" <=> hpc[h] = "unloading"
  /\ \A u \in deducted : upc[u] \notin {"none", "deduct"}

LockInv ==
  /\ \A h \in Handlers : hpc[h] \in {"granted", "unlock"} => infLock = h
  /\ \A h \in Handlers : hpc[h] = "running" => batchMode \/ infLock = h
  /\ \A u \in Callers : upc[u] \in {"free", "clear", "open", "wipe"} => infLock = u
  /\ batchMode => \A h \in Handlers : hpc[h] \notin {"queued", "granted", "unlock"}

CountInv ==
  /\ IsFiniteSet(deducted)
  /\ inflight = Cnt(hpc, Within) - Cardinality(deducted)
  /\ active = Cnt(hpc, Past)
  /\ queued = IF batchMode THEN active ELSE Cnt(hpc, Waiting)
  /\ MaxQueued > 0 => queued <= MaxQueued

BusyInv == busy <=> \E h \in Handlers : hpc[h] = "running"

GateInv == TypeOK /\ CallerInv /\ LockInv /\ CountInv /\ BusyInv

\* The counts of a handler that moves, for the three counters of the gate.
LEMMA Moved ==
  ASSUME TypeOK, NEW h \in Handlers, NEW v \in HandlerAt, Goto(h, v)
  PROVE  /\ Cnt(hpc', Within) = Cnt(hpc, Within) + (IF v # "idle" THEN 1 ELSE 0)
                                                 - (IF hpc[h] # "idle" THEN 1 ELSE 0)
         /\ Cnt(hpc', Past) = Cnt(hpc, Past) + (IF v \in Past THEN 1 ELSE 0)
                                             - (IF hpc[h] \in Past THEN 1 ELSE 0)
         /\ Cnt(hpc', Waiting) = Cnt(hpc, Waiting) + (IF v \in Waiting THEN 1 ELSE 0)
                                                   - (IF hpc[h] \in Waiting THEN 1 ELSE 0)
         /\ Cnt(hpc, Within) \in Nat /\ Cnt(hpc, Past) \in Nat /\ Cnt(hpc, Waiting) \in Nat
         /\ \A x \in Handlers : hpc'[x] = IF x = h THEN v ELSE hpc[x]
<1>1. hpc \in [Handlers -> HandlerAt] /\ hpc' = [hpc EXCEPT ![h] = v]
  BY DEF TypeOK, Goto
<1>2. hpc = [x \in Handlers |-> hpc[x]] /\ DOMAIN hpc = Handlers /\ hpc[h] \in HandlerAt
  BY <1>1
<1>3. \A S : Cnt(hpc', S) = Cnt(hpc, S) + (IF v \in S THEN 1 ELSE 0)
                                        - (IF hpc[h] \in S THEN 1 ELSE 0)
  BY <1>1, <1>2, CntMove
<1>4. v \in Within <=> v # "idle"
  BY DEF Within
<1>5. hpc[h] \in Within <=> hpc[h] # "idle"
  BY <1>2 DEF Within
<1>6. Cnt(hpc, Within) \in Nat /\ Cnt(hpc, Past) \in Nat /\ Cnt(hpc, Waiting) \in Nat
  BY CntType
<1> QED BY <1>1, <1>3, <1>4, <1>5, <1>6

\* Places of a handler that none of the gate's counters tells apart.
Quiet == HandlerAt \ {"idle", "queued", "granted", "running", "unlock", "unloading"}

\* A handler that goes from one quiet place to another.
LEMMA QuietStep ==
  ASSUME GateInv, NEW h \in Handlers, NEW v \in Quiet, hpc[h] \in Quiet, Goto(h, v),
         UNCHANGED <<batchMode, gateVars, upc, deducted>>
  PROVE  CallerInv' /\ LockInv' /\ CountInv' /\ BusyInv'
<1> USE DEF GateInv, gateVars
<1>1. v \in HandlerAt /\ v \notin Past /\ v \notin Waiting /\ v # "idle"
      /\ hpc[h] \notin Past /\ hpc[h] \notin Waiting /\ hpc[h] # "idle"
      /\ v \notin {"running", "unlock", "unloading", "granted", "queued"}
      /\ hpc[h] \notin {"running", "unlock", "unloading", "granted", "queued"}
  BY DEF Quiet, Past, Waiting
<1>2. \A x \in Handlers : hpc'[x] = IF x = h THEN v ELSE hpc[x]
  BY <1>1, Moved
<1>3. /\ Cnt(hpc', Within) = Cnt(hpc, Within)
      /\ Cnt(hpc', Past) = Cnt(hpc, Past)
      /\ Cnt(hpc', Waiting) = Cnt(hpc, Waiting)
  BY <1>1, Moved
<1>4. CallerInv'
  BY <1>1, <1>2 DEF CallerInv
<1>5. LockInv'
  BY <1>1, <1>2 DEF LockInv
<1>6. CountInv'
  BY <1>3 DEF CountInv
<1>7. BusyInv'
  BY <1>1, <1>2 DEF BusyInv
<1> QED BY <1>4, <1>5, <1>6, <1>7

\* A request that arrives is counted.
LEMMA EnterStep ==
  ASSUME GateInv, NEW h \in Handlers, Enter(h)
  PROVE  GateInv'
<1> USE DEF GateInv
<1>1. PICK k \in Kinds :
        /\ kind' = [kind EXCEPT ![h] = k]
        /\ Goto(h, IF k = "infer" /\ pending THEN "leave" ELSE FirstStep(k))
        /\ IF k = "unload" THEN MayUnload /\ UGoto(h, "deduct") ELSE UNCHANGED upc
  BY DEF Enter
<1> DEFINE v == IF k = "infer" /\ pending THEN "leave" ELSE FirstStep(k)
<1>2. /\ v \in {"ensure", "probe", "claim", "unloading", "leave"}
      /\ v = "unloading" <=> k = "unload"
  BY DEF FirstStep, Kinds
<1>3. v \in HandlerAt /\ v # "idle" /\ v \notin Past /\ v \notin Waiting
  BY <1>2 DEF HandlerAt, Past, Waiting
<1>4. Goto(h, v)
  BY <1>1
<1> HIDE DEF v
<1>5. hpc[h] = "idle" /\ inflight' = inflight + 1
      /\ UNCHANGED <<batchMode, active, queued, busy, infLock, deducted>>
  BY DEF Enter
<1>6. /\ Cnt(hpc', Within) = Cnt(hpc, Within) + 1
      /\ Cnt(hpc', Past) = Cnt(hpc, Past)
      /\ Cnt(hpc', Waiting) = Cnt(hpc, Waiting)
      /\ Cnt(hpc, Within) \in Nat
  BY <1>3, <1>4, <1>5, Moved DEF Past, Waiting
<1>7. \A x \in Handlers : hpc'[x] = IF x = h THEN v ELSE hpc[x]
  BY <1>3, <1>4, Moved
<1>8. upc \in [Callers -> UnloaderAt] /\ Handlers \subseteq Callers
  BY DEF TypeOK, Callers
<1>9. \A u \in Callers : upc'[u] = IF k = "unload" /\ u = h THEN "deduct" ELSE upc[u]
  BY <1>1, <1>8 DEF UGoto
<1>10. TypeOK'
  <2>1. hpc' \in [Handlers -> HandlerAt]
    BY <1>3, <1>4 DEF TypeOK, Goto
  <2>2. upc' \in [Callers -> UnloaderAt]
    BY <1>1, <1>8 DEF UGoto, UnloaderAt
  <2>3. requests' \in [Handlers -> 0 .. MaxRequests]
    BY BoundsAssumption DEF Enter, TypeOK
  <2> QED BY <1>1, <2>1, <2>2, <2>3 DEF Enter, TypeOK, modelVars
<1>11. CallerInv'
  <2>1. deducted \subseteq Callers /\ hpc[h] # "unloading"
    BY <1>5 DEF TypeOK
  <2>2. upc[h] = "none"
    BY <2>1 DEF CallerInv
  <2> QED BY <1>2, <1>5, <1>7, <1>8, <1>9, <2>1, <2>2 DEF CallerInv
<1>12. LockInv'
  BY <1>2, <1>5, <1>7, <1>9 DEF LockInv
<1>13. CountInv'
  <2>1. Cardinality(deducted) \in Nat
    BY FS_CardinalityType DEF CountInv
  <2> QED BY <1>5, <1>6, <2>1 DEF CountInv, TypeOK
<1>14. BusyInv'
  BY <1>2, <1>5, <1>7 DEF BusyInv
<1> QED BY <1>10, <1>11, <1>12, <1>13, <1>14

\* The type of a handler's step.
LEMMA HandlerTypes ==
  ASSUME GateInv, NEW h \in Handlers, Handler(h)
  PROVE  TypeOK'
<1> USE DEF GateInv, TypeOK, gateVars, modelVars, Goto, HandlerAt
<1>1. CASE Leave(h)
  BY <1>1 DEF Leave
<1>2. CASE EnsureModel(h)
  BY <1>2 DEF EnsureModel
<1>3. CASE LoadOnUse(h)
  BY <1>3 DEF LoadOnUse
<1>4. CASE ClaimLoad(h)
  BY <1>4 DEF ClaimLoad, AfterClaim
<1>5. CASE SpawnLoader(h)
  BY <1>5 DEF SpawnLoader, AfterClaim, LGoto, LoaderAt
<1>6. CASE AwaitLoad(h)
  BY <1>6 DEF AwaitLoad
<1>7. CASE RecheckModel(h)
  BY <1>7 DEF RecheckModel
<1>8. CASE Prepare(h)
  BY <1>8 DEF Prepare
<1>9. CASE Gate(h)
  BY <1>9 DEF Gate
<1>10. CASE TakeInfLock(h)
  BY <1>10 DEF TakeInfLock, Callers
<1>11. CASE StartInference(h)
  <2>1. ~ batchMode
    BY <1>11 DEF StartInference, LockInv
  <2>2. Cnt(hpc, Waiting) > 0 /\ queued = Cnt(hpc, Waiting)
    BY <1>11, <2>1, CntPositive DEF StartInference, CountInv, Waiting
  <2> QED BY <1>11, <2>2, CntType DEF StartInference
<1>12. CASE FinishInference(h)
  <2>1. Cnt(hpc, Past) > 0 /\ active = Cnt(hpc, Past)
    BY <1>12, CntPositive DEF FinishInference, CountInv, Past
  <2>2. active - 1 \in Nat /\ queued - 1 \in Int
    BY <2>1, CntType
  <2>3. active' \in Nat /\ queued' \in Nat
    BY <1>12, <2>2 DEF FinishInference
  <2>4. busy' \in BOOLEAN
    <3>1. busy' = FALSE \/ busy' = (active' > 0)
      BY <1>12 DEF FinishInference
    <3>2. (active' > 0) = TRUE \/ (active' > 0) = FALSE
      OBVIOUS
    <3> QED BY <3>1, <3>2, Zenon
  <2>5. hpc' \in [Handlers -> HandlerAt]
    BY <1>12 DEF FinishInference
  <2> QED BY <1>12, <2>3, <2>4, <2>5 DEF FinishInference
<1>13. CASE DropInfLock(h)
  BY <1>13 DEF DropInfLock
<1>14. CASE AfterInference(h)
  BY <1>14 DEF AfterInference
<1>15. CASE ProbeConfig(h)
  BY <1>15 DEF ProbeConfig
<1>16. CASE ReadConfig(h)
  BY <1>16 DEF ReadConfig
<1> QED BY <1>1, <1>2, <1>3, <1>4, <1>5, <1>6, <1>7, <1>8, <1>9, <1>10, <1>11, <1>12,
           <1>13, <1>14, <1>15, <1>16 DEF Handler

\* A handler's step keeps the gate's books.
LEMMA HandlerStep ==
  ASSUME GateInv, NEW h \in Handlers, Handler(h)
  PROVE  CallerInv' /\ LockInv' /\ CountInv' /\ BusyInv'
<1> USE DEF GateInv
<1> DEFINE Goal == CallerInv' /\ LockInv' /\ CountInv' /\ BusyInv'
<1>a. TypeOK
  OBVIOUS
<1>b. ASSUME NEW v \in Quiet, hpc[h] \in Quiet, Goto(h, v),
             UNCHANGED <<batchMode, gateVars, upc, deducted>>
      PROVE  Goal
  BY <1>b, QuietStep
<1>c. /\ \A x \in Handlers : upc[x] # "none" <=> hpc[x] = "unloading"
      /\ \A u \in deducted : upc[u] \notin {"none", "deduct"}
      /\ Handlers \subseteq Callers /\ Cardinality(deducted) \in Nat /\ inflight \in Int
      /\ busy \in BOOLEAN /\ batchMode \in BOOLEAN /\ Free \notin Handlers
  BY FS_CardinalityType, FreeAssumption DEF CallerInv, CountInv, TypeOK, Callers
<1> HIDE DEF Goal
<1> SUFFICES Goal
  BY DEF Goal
<1>1. CASE Leave(h)
  <2>1. hpc[h] = "leave" /\ Goto(h, "idle") /\ inflight' = inflight - 1
        /\ UNCHANGED <<batchMode, active, queued, busy, infLock, upc, deducted>>
    BY <1>1 DEF Leave
  <2>2. /\ Cnt(hpc', Within) = Cnt(hpc, Within) - 1
        /\ Cnt(hpc', Past) = Cnt(hpc, Past)
        /\ Cnt(hpc', Waiting) = Cnt(hpc, Waiting)
        /\ Cnt(hpc, Within) \in Nat
        /\ \A x \in Handlers : hpc'[x] = IF x = h THEN "idle" ELSE hpc[x]
    BY <2>1, <1>a, Moved DEF Past, Waiting, HandlerAt
  <2>3. CountInv'
    BY <2>1, <2>2, <1>c DEF CountInv
  <2>4. CallerInv' /\ LockInv' /\ BusyInv'
    BY <2>1, <2>2, <1>c DEF CallerInv, LockInv, BusyInv
  <2> QED BY <2>3, <2>4 DEF Goal
<1>2. CASE EnsureModel(h)
  BY <1>2, <1>b DEF EnsureModel, Quiet, HandlerAt
<1>3. CASE LoadOnUse(h)
  BY <1>3, <1>b DEF LoadOnUse, Quiet, HandlerAt
<1>4. CASE ClaimLoad(h)
  BY <1>4, <1>b DEF ClaimLoad, AfterClaim, Quiet, HandlerAt
<1>5. CASE SpawnLoader(h)
  BY <1>5, <1>b DEF SpawnLoader, AfterClaim, Quiet, HandlerAt
<1>6. CASE AwaitLoad(h)
  BY <1>6, <1>b DEF AwaitLoad, Quiet, HandlerAt
<1>7. CASE RecheckModel(h)
  BY <1>7, <1>b DEF RecheckModel, Quiet, HandlerAt
<1>8. CASE Prepare(h)
  BY <1>8, <1>b DEF Prepare, Quiet, HandlerAt
<1>9. CASE Gate(h)
  <2>1. CASE Goto(h, "leave") /\ UNCHANGED <<active, queued, busy>>
    BY <2>1, <1>9, <1>b DEF Gate, Quiet, HandlerAt, gateVars
  <2>2. CASE /\ Admissible
             /\ active' = active + 1
             /\ queued' = queued + 1
             /\ busy' = (busy \/ batchMode)
             /\ Goto(h, IF batchMode THEN "running" ELSE "queued")
    <3> DEFINE v == IF batchMode THEN "running" ELSE "queued"
    <3>1. v \in {"running", "queued"} /\ v \in Past /\ v \in HandlerAt
          /\ (v = "running" <=> batchMode)
      BY DEF Past, HandlerAt
    <3>2. hpc[h] = "gate" /\ UNCHANGED <<batchMode, inflight, infLock, upc, deducted>>
      BY <1>9 DEF Gate
    <3>3. Goto(h, v)
      BY <2>2
    <3>4. v \in Waiting <=> ~batchMode
      BY DEF Waiting
    <3> HIDE DEF v
    <3>5. /\ Cnt(hpc', Within) = Cnt(hpc, Within)
          /\ Cnt(hpc', Past) = Cnt(hpc, Past) + 1
          /\ Cnt(hpc', Waiting) = Cnt(hpc, Waiting) + (IF batchMode THEN 0 ELSE 1)
          /\ Cnt(hpc, Within) \in Nat /\ Cnt(hpc, Past) \in Nat /\ Cnt(hpc, Waiting) \in Nat
          /\ \A x \in Handlers : hpc'[x] = IF x = h THEN v ELSE hpc[x]
      BY <3>1, <3>2, <3>3, <3>4, <1>a, Moved DEF Past, Waiting
    <3>6. MaxQueued > 0 => queued < MaxQueued /\ queued \in Nat /\ MaxQueued \in Nat
      BY <2>2, BoundsAssumption DEF Admissible, QueueFull, TypeOK
    <3>7. CountInv'
      BY <2>2, <3>2, <3>5, <3>6 DEF CountInv
    <3>8. BusyInv'
      BY <2>2, <3>1, <3>2, <3>5, <1>c DEF BusyInv
    <3>9. CallerInv' /\ LockInv'
      BY <3>1, <3>2, <3>5, <1>c DEF CallerInv, LockInv
    <3> QED BY <3>7, <3>8, <3>9 DEF Goal
  <2> QED BY <2>1, <2>2, <1>9 DEF Gate
<1>10. CASE TakeInfLock(h)
  <2>1. hpc[h] = "queued" /\ Goto(h, "granted") /\ infLock = Free /\ infLock' = h
        /\ UNCHANGED <<batchMode, inflight, active, queued, busy, upc, deducted>>
    BY <1>10 DEF TakeInfLock
  <2>2. /\ Cnt(hpc', Within) = Cnt(hpc, Within)
        /\ Cnt(hpc', Past) = Cnt(hpc, Past)
        /\ Cnt(hpc', Waiting) = Cnt(hpc, Waiting)
        /\ \A x \in Handlers : hpc'[x] = IF x = h THEN "granted" ELSE hpc[x]
    BY <2>1, <1>a, Moved DEF Past, Waiting, HandlerAt
  <2>3. CountInv' /\ CallerInv' /\ BusyInv'
    BY <2>1, <2>2, <1>c DEF CountInv, CallerInv, BusyInv
  <2>4. LockInv'
    BY <2>1, <2>2, <1>c, FreeAssumption DEF LockInv, Callers
  <2> QED BY <2>3, <2>4 DEF Goal
<1>11. CASE StartInference(h)
  <2>1. hpc[h] = "granted" /\ Goto(h, "running") /\ queued' = queued - 1 /\ busy' = TRUE
        /\ UNCHANGED <<batchMode, inflight, active, infLock, upc, deducted>>
    BY <1>11 DEF StartInference
  <2>2. /\ Cnt(hpc', Within) = Cnt(hpc, Within)
        /\ Cnt(hpc', Past) = Cnt(hpc, Past)
        /\ Cnt(hpc', Waiting) = Cnt(hpc, Waiting) - 1
        /\ Cnt(hpc, Waiting) \in Nat
        /\ \A x \in Handlers : hpc'[x] = IF x = h THEN "running" ELSE hpc[x]
    BY <2>1, <1>a, Moved DEF Past, Waiting, HandlerAt
  <2>3. ~batchMode
    BY <2>1 DEF LockInv
  <2>4. CountInv'
    BY <2>1, <2>2, <2>3, BoundsAssumption DEF CountInv, TypeOK
  <2>5. CallerInv' /\ LockInv' /\ BusyInv'
    BY <2>1, <2>2, <1>c DEF CallerInv, LockInv, BusyInv
  <2> QED BY <2>4, <2>5 DEF Goal
<1>12. CASE FinishInference(h)
  <2> DEFINE v == IF batchMode THEN "after" ELSE "unlock"
  <2>1. hpc[h] = "running" /\ active' = active - 1 /\ Goto(h, v)
        /\ UNCHANGED <<batchMode, inflight, infLock, upc, deducted>>
    BY <1>12 DEF FinishInference
  <2>2. v \in {"after", "unlock"} /\ v \in HandlerAt /\ (v = "unlock" <=> ~batchMode)
    BY DEF HandlerAt
  <2> HIDE DEF v
  <2>3. /\ Cnt(hpc', Within) = Cnt(hpc, Within)
        /\ Cnt(hpc', Past) = Cnt(hpc, Past) - 1
        /\ Cnt(hpc', Waiting) = Cnt(hpc, Waiting)
        /\ Cnt(hpc, Past) \in Nat
        /\ \A x \in Handlers : hpc'[x] = IF x = h THEN v ELSE hpc[x]
    BY <2>1, <2>2, <1>a, Moved DEF Past, Waiting
  <2>4. Cnt(hpc, Past) > 0 /\ Cnt(hpc', Past) \in Nat /\ active' = Cnt(hpc', Past)
    BY <2>1, <2>3, CntPositive, CntType DEF Past, CountInv
  <2>5. CountInv'
    <3>1. CASE batchMode
      <4>1. queued' = queued - 1
        BY <1>12, <3>1, <2>4, <2>3 DEF FinishInference, CountInv
      <4> QED BY <4>1, <2>1, <2>3, <2>4, <3>1, BoundsAssumption DEF CountInv
    <3>2. CASE ~batchMode
      <4>1. queued' = queued
        BY <1>12, <3>2 DEF FinishInference
      <4> QED BY <4>1, <2>1, <2>3, <2>4, <3>2 DEF CountInv
    <3> QED BY <3>1, <3>2
  <2>6. CallerInv' /\ LockInv'
    BY <2>1, <2>2, <2>3, <1>c DEF CallerInv, LockInv
  <2>7. BusyInv'
    <3>1. CASE batchMode
      <4>1. busy' = (active' > 0)
        BY <1>12, <3>1 DEF FinishInference
      <4>2. active' > 0 <=> \E x \in Handlers : hpc'[x] \in Past
        BY <2>4, CntPositive
      <4>3. \A x \in Handlers : hpc'[x] \in Past <=> hpc'[x] = "running"
        BY <3>1, <2>1, <2>6 DEF LockInv, Past
      <4> QED BY <4>1, <4>2, <4>3 DEF BusyInv
    <3>2. CASE ~batchMode
      <4>1. busy' = FALSE
        BY <1>12, <3>2 DEF FinishInference
      <4>2. \A x \in Handlers : hpc'[x] # "running"
        BY <2>1, <2>2, <2>3, <3>2 DEF LockInv
      <4> QED BY <4>1, <4>2 DEF BusyInv
    <3> QED BY <3>1, <3>2
  <2> QED BY <2>5, <2>6, <2>7 DEF Goal
<1>13. CASE DropInfLock(h)
  <2>1. hpc[h] = "unlock" /\ Goto(h, "after") /\ infLock' = Free
        /\ UNCHANGED <<batchMode, inflight, active, queued, busy, upc, deducted>>
    BY <1>13 DEF DropInfLock
  <2>2. /\ Cnt(hpc', Within) = Cnt(hpc, Within)
        /\ Cnt(hpc', Past) = Cnt(hpc, Past)
        /\ Cnt(hpc', Waiting) = Cnt(hpc, Waiting)
        /\ \A x \in Handlers : hpc'[x] = IF x = h THEN "after" ELSE hpc[x]
    BY <2>1, <1>a, Moved DEF Past, Waiting, HandlerAt
  <2>3. CountInv' /\ CallerInv' /\ BusyInv'
    BY <2>1, <2>2, <1>c DEF CountInv, CallerInv, BusyInv
  <2>4. infLock = h /\ upc[h] = "none"
    BY <2>1, <1>c DEF LockInv
  <2>5. LockInv'
    BY <2>1, <2>2, <2>4, <1>c DEF LockInv, Callers
  <2> QED BY <2>3, <2>5 DEF Goal
<1>14. CASE AfterInference(h)
  BY <1>14, <1>b DEF AfterInference, Quiet, HandlerAt
<1>15. CASE ProbeConfig(h)
  BY <1>15, <1>b DEF ProbeConfig, Quiet, HandlerAt
<1>16. CASE ReadConfig(h)
  BY <1>16, <1>b DEF ReadConfig, Quiet, HandlerAt
<1> QED
  BY <1>1, <1>2, <1>3, <1>4, <1>5, <1>6, <1>7, <1>8, <1>9, <1>10, <1>11, <1>12,
     <1>13, <1>14, <1>15, <1>16 DEF Handler

\* A step of the load thread touches nothing of the gate.
LEMMA LoaderStep ==
  ASSUME GateInv, NEW l \in Loads, Loader(l)
  PROVE  GateInv'
<1>1. TypeOK'
  <2> USE DEF GateInv, TypeOK, LGoto, LoaderAt
  <2>1. CASE LoadBegin(l)
    BY <2>1 DEF LoadBegin, gateVars
  <2>2. CASE LoadModel(l)
    BY <2>2 DEF LoadModel, gateVars
  <2>3. CASE LoadPublish(l)
    BY <2>3 DEF LoadPublish, gateVars
  <2>4. CASE LoadIndex(l) \/ LoadEnd(l)
    BY <2>4 DEF LoadIndex, LoadEnd, gateVars, modelVars
  <2> QED BY <2>1, <2>2, <2>3, <2>4 DEF Loader
<1>2. UNCHANGED <<batchMode, gateVars, hpc, upc, deducted>>
  BY DEF Loader, LoadBegin, LoadModel, LoadPublish, LoadIndex, LoadEnd
<1> QED BY <1>1, <1>2 DEF GateInv, CallerInv, LockInv, CountInv, BusyInv, gateVars

\* The type of a step of an unload.
LEMMA UnloaderTypes ==
  ASSUME GateInv, NEW u \in Callers, Unloader(u)
  PROVE  TypeOK'
<1> USE DEF GateInv, TypeOK, gateVars, modelVars, UGoto, UnloaderAt
<1>1. CASE DeductSelf(u)
  BY <1>1 DEF DeductSelf
<1>2. CASE CheckLoaded(u)
  BY <1>2 DEF CheckLoaded
<1>3. CASE RefuseBusy(u)
  BY <1>3 DEF RefuseBusy
<1>4. CASE Drain(u)
  BY <1>4 DEF Drain
<1>5. CASE AbortUnload(u)
  BY <1>5 DEF AbortUnload
<1>6. CASE LockForFree(u)
  BY <1>6 DEF LockForFree
<1>7. CASE FreeModel(u)
  BY <1>7 DEF FreeModel
<1>8. CASE ClearState(u)
  BY <1>8 DEF ClearState
<1>9. CASE ReopenGate(u)
  BY <1>9 DEF ReopenGate
<1>10. CASE WipeStaged(u)
  BY <1>10 DEF WipeStaged
<1>11. CASE RestoreSelf(u)
  BY <1>11 DEF RestoreSelf, HandlerAt
<1> QED BY <1>1, <1>2, <1>3, <1>4, <1>5, <1>6, <1>7, <1>8, <1>9, <1>10, <1>11 DEF Unloader

\* A step of an unload keeps the gate's books.
LEMMA UnloaderStep ==
  ASSUME GateInv, NEW u \in Callers, Unloader(u)
  PROVE  CallerInv' /\ LockInv' /\ CountInv' /\ BusyInv'
<1> DEFINE Goal == CallerInv' /\ LockInv' /\ CountInv' /\ BusyInv'
<1> USE DEF GateInv
<1>a. /\ upc \in [Callers -> UnloaderAt] /\ deducted \subseteq Callers
      /\ Handlers \subseteq Callers /\ inflight \in Int /\ Free \notin Callers
      /\ hpc \in [Handlers -> HandlerAt]
  BY FreeAssumption DEF TypeOK, Callers
<1>b. IsFiniteSet(deducted) /\ Cardinality(deducted) \in Nat /\ Cnt(hpc, Within) \in Nat
  BY CntType, FS_CardinalityType DEF CountInv
\* a step between two places of an unload in which the caller holds no lock
<1>c. ASSUME upc[u] \notin {"none", "free", "clear", "open", "wipe"},
             NEW v \in {"check", "refuse", "restore", "drain", "abort", "lock"},
             UGoto(u, v),
             UNCHANGED <<batchMode, inflight, active, queued, busy, infLock, hpc, deducted>>
      PROVE  Goal
  <2>1. \A x \in Callers : upc'[x] = IF x = u THEN v ELSE upc[x]
    BY <1>a, <1>c DEF UGoto
  <2>2. CallerInv'
    BY <1>a, <1>c, <2>1 DEF CallerInv
  <2>3. LockInv' /\ CountInv' /\ BusyInv'
    BY <1>a, <1>c, <2>1 DEF LockInv, CountInv, BusyInv
  <2> QED BY <2>2, <2>3
\* a step between two places of an unload in which the caller holds inf_lock
<1>d. ASSUME upc[u] \in {"lock", "free", "clear", "open"}, infLock' = u,
             infLock \in {u, Free},
             NEW v \in {"free", "clear", "open", "wipe"},
             UGoto(u, v),
             UNCHANGED <<batchMode, inflight, active, queued, busy, hpc, deducted>>
      PROVE  Goal
  <2>1. \A x \in Callers : upc'[x] = IF x = u THEN v ELSE upc[x]
    BY <1>a, <1>d DEF UGoto
  <2>2. CallerInv'
    BY <1>a, <1>d, <2>1 DEF CallerInv
  <2>3. u \in Handlers => hpc[u] = "unloading"
    BY <1>d DEF CallerInv
  <2>4. LockInv'
    BY <1>a, <1>d, <2>1, <2>3 DEF LockInv
  <2>5. CountInv' /\ BusyInv'
    BY <1>a, <1>d DEF CountInv, BusyInv
  <2> QED BY <2>2, <2>4, <2>5
<1> HIDE DEF Goal
<1> SUFFICES Goal
  BY DEF Goal
<1>1. CASE DeductSelf(u)
  <2>1. upc[u] = "deduct" /\ UGoto(u, "check")
        /\ UNCHANGED <<batchMode, active, queued, busy, infLock, hpc>>
    BY <1>1 DEF DeductSelf
  <2>2. CASE inflight > 0
    <3>1. inflight' = inflight - 1 /\ deducted' = deducted \cup {u} /\ u \notin deducted
      BY <1>1, <2>1, <2>2 DEF DeductSelf, CallerInv
    <3>2. IsFiniteSet(deducted') /\ Cardinality(deducted') = Cardinality(deducted) + 1
      BY <1>b, <3>1, FS_AddElement
    <3>3. \A x \in Callers : upc'[x] = IF x = u THEN "check" ELSE upc[x]
      BY <1>a, <2>1 DEF UGoto
    <3>4. CountInv' /\ BusyInv'
      BY <1>a, <1>b, <2>1, <3>1, <3>2 DEF CountInv, BusyInv
    <3>5. CallerInv' /\ LockInv'
      BY <1>a, <2>1, <3>1, <3>3 DEF CallerInv, LockInv
    <3> QED BY <3>4, <3>5 DEF Goal
  <2>3. CASE ~(inflight > 0)
    BY <1>1, <1>c, <2>1, <2>3 DEF DeductSelf
  <2> QED BY <2>2, <2>3
<1>2. CASE CheckLoaded(u)
  BY <1>2, <1>c DEF CheckLoaded, gateVars
<1>3. CASE RefuseBusy(u)
  BY <1>3, <1>c DEF RefuseBusy
<1>4. CASE Drain(u)
  BY <1>4, <1>c DEF Drain, gateVars
<1>5. CASE AbortUnload(u)
  BY <1>5, <1>c DEF AbortUnload
<1>6. CASE LockForFree(u)
  BY <1>6, <1>d DEF LockForFree
<1>7. CASE FreeModel(u)
  BY <1>7, <1>d DEF FreeModel, gateVars, LockInv
<1>8. CASE ClearState(u)
  BY <1>8, <1>d DEF ClearState, gateVars, LockInv
<1>9. CASE ReopenGate(u)
  BY <1>9, <1>d DEF ReopenGate, LockInv
<1>10. CASE WipeStaged(u)
  <2>1. upc[u] = "wipe" /\ UGoto(u, "restore") /\ infLock' = Free /\ infLock = u
        /\ UNCHANGED <<batchMode, inflight, active, queued, busy, hpc, deducted>>
    BY <1>10 DEF WipeStaged, LockInv
  <2>2. \A x \in Callers : upc'[x] = IF x = u THEN "restore" ELSE upc[x]
    BY <1>a, <2>1 DEF UGoto
  <2>3. u \in Handlers => hpc[u] = "unloading"
    BY <2>1 DEF CallerInv
  <2>4. CallerInv' /\ LockInv'
    BY <1>a, <2>1, <2>2, <2>3 DEF CallerInv, LockInv
  <2>5. CountInv' /\ BusyInv'
    BY <2>1 DEF CountInv, BusyInv
  <2> QED BY <2>4, <2>5 DEF Goal
<1>11. CASE RestoreSelf(u)
  <2>1. upc[u] = "restore" /\ UGoto(u, "none") /\ deducted' = deducted \ {u}
        /\ hpc' = [h \in Handlers |-> IF h = u THEN "leave" ELSE hpc[h]]
        /\ inflight' = (IF u \in deducted THEN inflight + 1 ELSE inflight)
        /\ UNCHANGED <<batchMode, active, queued, busy, infLock>>
    BY <1>11 DEF RestoreSelf
  <2>2. \A x \in Callers : upc'[x] = IF x = u THEN "none" ELSE upc[x]
    BY <1>a, <2>1 DEF UGoto
  <2>3. u \in Handlers => hpc[u] = "unloading"
    BY <2>1 DEF CallerInv
  <2>4. \A S : (("leave" \in S) <=> ("unloading" \in S)) => Cnt(hpc', S) = Cnt(hpc, S)
    <3> SUFFICES ASSUME NEW S, ("leave" \in S) <=> ("unloading" \in S)
                 PROVE  Cnt(hpc', S) = Cnt(hpc, S)
      OBVIOUS
    <3>1. \A h \in Handlers : hpc'[h] \in S <=> hpc[h] \in S
      BY <2>1, <2>3
    <3>2. {h \in Handlers : hpc'[h] \in S} = {h \in Handlers : hpc[h] \in S}
      BY <3>1
    <3> QED BY <3>2 DEF Cnt
  <2>5. /\ Cnt(hpc', Within) = Cnt(hpc, Within)
        /\ Cnt(hpc', Past) = Cnt(hpc, Past)
        /\ Cnt(hpc', Waiting) = Cnt(hpc, Waiting)
    BY <2>4 DEF Within, Past, Waiting, HandlerAt
  <2>6. /\ IsFiniteSet(deducted')
        /\ Cardinality(deducted') = IF u \in deducted THEN Cardinality(deducted) - 1
                                                      ELSE Cardinality(deducted)
    BY <1>b, <2>1, FS_RemoveElement
  <2>7. CountInv'
    BY <1>a, <1>b, <2>1, <2>5, <2>6 DEF CountInv
  <2>8. CallerInv' /\ LockInv' /\ BusyInv'
    BY <1>a, <2>1, <2>2, <2>3 DEF CallerInv, LockInv, BusyInv
  <2> QED BY <2>7, <2>8 DEF Goal
<1> QED BY <1>1, <1>2, <1>3, <1>4, <1>5, <1>6, <1>7, <1>8, <1>9, <1>10, <1>11 DEF Unloader

\* A tick of the monitor.
LEMMA MonitorStep ==
  ASSUME GateInv, MonitorTick
  PROVE  GateInv'
<1> USE DEF GateInv
<1>1. upc[Monitor] = "none" /\ upc' = [upc EXCEPT ![Monitor] = IF PolicyTick THEN "deduct" ELSE "check"]
      /\ UNCHANGED <<batchMode, gateVars, modelVars, hpc, kind, requests, deducted, lpc>>
  BY DEF MonitorTick, UGoto
<1>2. upc \in [Callers -> UnloaderAt] /\ Handlers \subseteq Callers /\ Monitor \in Callers
      /\ Monitor \notin Handlers /\ deducted \subseteq Callers
  BY HandlersAssumption DEF TypeOK, Callers
<1>3. \A x \in Callers :
         upc'[x] = IF x = Monitor THEN (IF PolicyTick THEN "deduct" ELSE "check") ELSE upc[x]
  BY <1>1, <1>2
<1>4. TypeOK'
  BY <1>1, <1>2 DEF TypeOK, UnloaderAt, gateVars, modelVars
<1>5. CallerInv' /\ LockInv'
  BY <1>1, <1>2, <1>3 DEF CallerInv, LockInv, gateVars
<1>6. CountInv' /\ BusyInv'
  BY <1>1 DEF CountInv, BusyInv, gateVars
<1> QED BY <1>4, <1>5, <1>6

\* The invariant of the gate holds at first ...
LEMMA GateInit == Init => GateInv
<1> SUFFICES ASSUME Init PROVE GateInv
  OBVIOUS
<1>1. TypeOK
  <2>1. hpc \in [Handlers -> HandlerAt] /\ kind \in [Handlers -> Kinds]
    BY DEF Init, HandlerAt, Kinds
  <2>2. requests \in [Handlers -> 0 .. MaxRequests]
    BY BoundsAssumption DEF Init
  <2>3. upc \in [Callers -> UnloaderAt] /\ lpc \in [Loads -> LoaderAt]
    BY DEF Init, UnloaderAt, LoaderAt
  <2>4. batchMode \in BOOLEAN /\ pending \in BOOLEAN /\ busy \in BOOLEAN
    BY DEF Init
  <2>5. inflight \in Int /\ active \in Nat /\ queued \in Nat
    BY DEF Init
  <2>6. infLock \in Callers \cup {Free} /\ live \in SUBSET Loads /\ deducted \in SUBSET Callers
    BY DEF Init
  <2>7. /\ loadState \in {Unloaded, Loading, Ready, Failed}
        /\ model \in Loads \cup {NoModel} /\ cfg \in Loads \cup {NoModel}
        /\ sched \in Loads \cup {NoModel} /\ staged \in Loads \cup {NoModel}
    BY DEF Init
  <2> QED BY <2>1, <2>2, <2>3, <2>4, <2>5, <2>6, <2>7 DEF TypeOK
<1>2. CallerInv /\ LockInv /\ BusyInv
  BY DEF Init, CallerInv, LockInv, BusyInv, Callers
<1>3. ASSUME NEW S, "idle" \notin S
      PROVE  Cnt(hpc, S) = 0
  <2>1. ~ \E h \in Handlers : hpc[h] \in S
    BY <1>3 DEF Init
  <2>2. Cnt(hpc, S) > 0 <=> \E h \in Handlers : hpc[h] \in S
    BY CntPositive
  <2>3. Cnt(hpc, S) \in Nat
    BY CntType
  <2> QED BY <2>1, <2>2, <2>3
<1>4. Cnt(hpc, Within) = 0 /\ Cnt(hpc, Past) = 0 /\ Cnt(hpc, Waiting) = 0
  BY <1>3 DEF Within, Past, Waiting
<1>5. IsFiniteSet(deducted) /\ Cardinality(deducted) = 0
  BY FS_EmptySet DEF Init
<1>6. CountInv
  BY <1>4, <1>5, BoundsAssumption DEF Init, CountInv
<1> QED BY <1>1, <1>2, <1>6 DEF GateInv

\* ... and is kept by every step.
LEMMA GateNext == GateInv /\ [Next]_vars => GateInv'
<1> SUFFICES ASSUME GateInv, [Next]_vars PROVE GateInv'
  OBVIOUS
<1>1. ASSUME NEW h \in Handlers, Enter(h) PROVE GateInv'
  BY <1>1, EnterStep
<1>2. ASSUME NEW h \in Handlers, Handler(h) PROVE GateInv'
  BY <1>2, HandlerTypes, HandlerStep DEF GateInv
<1>3. ASSUME NEW l \in Loads, Loader(l) PROVE GateInv'
  BY <1>3, LoaderStep
<1>4. ASSUME NEW u \in Callers, Unloader(u) PROVE GateInv'
  BY <1>4, UnloaderTypes, UnloaderStep DEF GateInv
<1>5. CASE MonitorTick
  BY <1>5, MonitorStep
<1>6. CASE UNCHANGED vars
  BY <1>6 DEF vars, gateVars, modelVars, threadVars, GateInv, TypeOK, CallerInv, LockInv,
              CountInv, BusyInv
<1> QED BY <1>1, <1>2, <1>3, <1>4, <1>5, <1>6 DEF Next

\* What the gate's books say at any time, whatever the settings and the bounds.
THEOREM GateIsKept == Spec => []GateInv
  BY GateInit, GateNext, PTL DEF Spec

\* Every variable keeps its type: no counter of the gate is ever taken below zero.
THEOREM TypeCorrect == Spec => []TypeOK
<1>1. GateInv => TypeOK
  BY DEF GateInv
<1> QED BY <1>1, GateIsKept, PTL

\* The counters of the gate are exact (infer_gate, infer_done, their batch
\* versions, server_handler's inflight_handlers and the wrapper of the unload).
THEOREM GateCountsExactly == Spec => []CountersExact
<1>1. GateInv => CountersExact
  <2> SUFFICES ASSUME GateInv PROVE CountersExact
    OBVIOUS
  <2> USE DEF GateInv
  <2>1. {h \in Handlers : hpc[h] \in Within} = Inside
    BY DEF Within, Inside, TypeOK
  <2>2. Cnt(hpc, Within) = Cardinality(Inside)
    BY <2>1 DEF Cnt
  <2> QED BY <2>2 DEF CountersExact, CountInv, BusyInv, Cnt, Past, Waiting
<1> QED BY <1>1, GateIsKept, PTL

-----------------------------------------------------------------------------
(***************************************************************************)
(* The invariant of the model's lifetime, where the code keeps it: the     *)
(* monitor unloads through --auto-unload, one unload runs at a time, and   *)
(* building a model takes longer than the last stores of an unload.        *)
(***************************************************************************)
Careful == ~PolicyTick /\ MaxUnloaders <= 1 /\ SlowLoads

\* At most one unload, and its wrapper is called by handlers only.
UnloadInv ==
  /\ \A u, v \in Callers : upc[u] # "none" /\ upc[v] # "none" => u = v
  /\ upc[Monitor] # "deduct" /\ Monitor \notin deducted

\* The gate is closed while an unload drains or frees; nobody is then between
\* ensure_model_ready and its last use of ctx.
ClosedInv ==
  /\ pending <=> \E u \in Callers :
                   upc[u] \in {"drain", "abort", "lock", "free", "clear", "open"}
  /\ pending => \A h \in Handlers :
                  /\ h \notin Using
                  /\ hpc[h] \notin {"ensure", "loadOnUse", "await", "recheck"}
                  /\ hpc[h] \in {"claim", "spawn"} => kind[h] = "load"

Spawning == {h \in Handlers : hpc[h] = "spawn"}
Building == {l \in Loads : lpc[l] \in {"begin", "load", "publish"}}

\* load_state = 1 is the claim of one load: of the handler that starts its
\* thread, then of the thread.
LoadInv ==
  /\ loadState = Loading <=> Spawning # {} \/ Building # {}
  /\ \A h, g \in Spawning : h = g
  /\ \A l, k \in Building : l = k
  /\ Spawning = {} \/ Building = {}

\* What is loaded, what is allocated and what load_state says of it.
ModelInv ==
  /\ \A u \in Callers :
       upc[u] \in {"refuse", "drain", "abort", "lock", "free", "clear"} => loadState = Ready
  /\ \A u \in Callers : upc[u] = "clear" => model = NoModel
  /\ loadState = Ready /\ (\A u \in Callers : upc[u] # "clear") =>
       model \in live /\ cfg = model
  /\ loadState # Ready => model = NoModel /\ cfg = NoModel
  /\ sched # NoModel => sched = model
  /\ live = {l \in Loads : l = model \/ lpc[l] = "publish"}

StagedInv ==
  /\ \A l \in Loads : lpc[l] = "publish" => staged = l
  /\ \A u \in Callers : upc[u] \in {"open", "wipe"} =>
       \A l \in Loads : lpc[l] # "publish"

UseInv ==
  /\ Using # {} => loadState = Ready
  /\ batchMode => \A h \in Handlers : hpc[h] \in {"gate", "running"} => sched # NoModel

KeepInv == UnloadInv /\ ClosedInv /\ LoadInv /\ ModelInv /\ StagedInv /\ UseInv

\* A handler goes on, and neither the model nor an unload nor a load is touched.
LEMMA Walk ==
  ASSUME TypeOK, KeepInv, NEW h \in Handlers, NEW v \in HandlerAt, Goto(h, v),
         hpc[h] # "spawn", v # "spawn",
         UNCHANGED <<batchMode, pending, modelVars, kind, upc, deducted, lpc>>,
         pending => v \in {"idle", "leave", "claim", "probe", "probing", "unloading"},
         pending /\ v = "claim" => kind[h] = "load",
         v \in {"prepare", "gate", "queued", "granted", "running", "unlock", "after"} =>
           loadState = Ready,
         batchMode /\ v \in {"gate", "running"} => sched # NoModel
  PROVE  KeepInv'
<1> USE DEF KeepInv, modelVars
<1>1. \A x \in Handlers : hpc'[x] = IF x = h THEN v ELSE hpc[x]
  BY DEF TypeOK, Goto
<1>2. UnloadInv' /\ StagedInv' /\ ModelInv'
  BY DEF UnloadInv, StagedInv, ModelInv
<1>3. ClosedInv'
  BY <1>1 DEF ClosedInv, Using
<1>4. Spawning' = Spawning /\ Building' = Building
  BY <1>1 DEF Spawning, Building
<1>5. LoadInv'
  BY <1>4 DEF LoadInv
<1>6. UseInv'
  BY <1>1 DEF UseInv, Using
<1> QED BY <1>2, <1>3, <1>5, <1>6

\* A handler's step, when the gate's books are right.
LEMMA HandlerKeeps ==
  ASSUME GateInv, KeepInv, NEW h \in Handlers, Handler(h)
  PROVE  KeepInv'
<1> DEFINE Reads == {"prepare", "gate", "queued", "granted", "running", "unlock", "after"}
<1>a. TypeOK /\ hpc[h] \in HandlerAt
  BY DEF GateInv, TypeOK
<1>b. /\ pending => hpc[h] \notin Reads \cup {"ensure", "loadOnUse", "await", "recheck"}
      /\ pending /\ hpc[h] \in {"claim", "spawn"} => kind[h] = "load"
      /\ hpc[h] \in Reads => loadState = Ready
      /\ batchMode /\ hpc[h] \in {"gate", "running"} => sched # NoModel
  BY DEF KeepInv, ClosedInv, UseInv, Using
<1>c. ASSUME NEW v \in HandlerAt, Goto(h, v), hpc[h] # "spawn", v # "spawn",
             UNCHANGED <<batchMode, pending, modelVars, kind, upc, deducted, lpc>>,
             pending => v \in {"idle", "leave", "claim", "probe", "probing", "unloading"},
             pending /\ v = "claim" => kind[h] = "load",
             v \in Reads => loadState = Ready,
             batchMode /\ v \in {"gate", "running"} => sched # NoModel
      PROVE  KeepInv'
  BY <1>a, <1>c, Walk
<1>1. CASE Leave(h)
  BY <1>1, <1>c DEF Leave, HandlerAt
<1>2. CASE EnsureModel(h)
  BY <1>2, <1>b, <1>c DEF EnsureModel, HandlerAt, gateVars
<1>3. CASE LoadOnUse(h)
  BY <1>3, <1>b, <1>c DEF LoadOnUse, HandlerAt, gateVars
<1>6. CASE AwaitLoad(h)
  BY <1>6, <1>b, <1>c DEF AwaitLoad, HandlerAt, gateVars
<1>7. CASE RecheckModel(h)
  BY <1>7, <1>b, <1>c DEF RecheckModel, HandlerAt, gateVars
<1>9. CASE Gate(h)
  BY <1>9, <1>b, <1>c DEF Gate, HandlerAt
<1>10. CASE TakeInfLock(h)
  BY <1>10, <1>b, <1>c DEF TakeInfLock, HandlerAt
<1>11. CASE StartInference(h)
  <2>1. ~batchMode
    BY <1>11 DEF StartInference, GateInv, LockInv
  <2> QED BY <1>11, <2>1, <1>b, <1>c DEF StartInference, HandlerAt
<1>12. CASE FinishInference(h)
  BY <1>12, <1>b, <1>c DEF FinishInference, HandlerAt
<1>13. CASE DropInfLock(h)
  BY <1>13, <1>b, <1>c DEF DropInfLock, HandlerAt
<1>14. CASE AfterInference(h)
  BY <1>14, <1>b, <1>c DEF AfterInference, HandlerAt, gateVars
<1>15. CASE ProbeConfig(h)
  BY <1>15, <1>b, <1>c DEF ProbeConfig, HandlerAt, gateVars
<1>16. CASE ReadConfig(h)
  BY <1>16, <1>b, <1>c DEF ReadConfig, HandlerAt, gateVars
<1>4. CASE ClaimLoad(h)
  <2>1. CASE loadState \in {Loading, Ready}
    BY <1>4, <2>1, <1>b, <1>c DEF ClaimLoad, AfterClaim, HandlerAt, gateVars, modelVars
  <2>2. CASE loadState \notin {Loading, Ready}
    <3> USE DEF KeepInv
    <3>1. hpc[h] = "claim" /\ Goto(h, "spawn") /\ loadState' = Loading
          /\ UNCHANGED <<batchMode, pending, model, cfg, sched, staged, live, kind, upc,
                         deducted, lpc>>
      BY <1>4, <2>2 DEF ClaimLoad, gateVars
    <3>2. \A x \in Handlers : hpc'[x] = IF x = h THEN "spawn" ELSE hpc[x]
      BY <1>a, <3>1 DEF TypeOK, Goto
    <3>3. Using' = Using /\ Using = {}
      BY <2>2, <3>1, <3>2 DEF Using, UseInv
    <3>4. Spawning = {} /\ Building = {} /\ Spawning' = {h} /\ Building' = Building
      BY <2>2, <3>1, <3>2 DEF LoadInv, Spawning, Building
    <3>5. LoadInv'
      BY <3>1, <3>4 DEF LoadInv
    <3>6. Loading # Ready
      BY DEF Loading, Ready
    <3>7. UnloadInv' /\ StagedInv'
      BY <3>1 DEF UnloadInv, StagedInv
    <3>8. ModelInv'
      BY <3>1, <3>6, <2>2 DEF ModelInv
    <3>9. ClosedInv'
      BY <3>1, <3>2, <3>3, <1>b DEF ClosedInv
    <3>10. UseInv'
      BY <3>1, <3>2, <3>3 DEF UseInv
    <3> QED BY <3>5, <3>7, <3>8, <3>9, <3>10
  <2> QED BY <2>1, <2>2
<1>5. CASE SpawnLoader(h)
  <2> USE DEF KeepInv
  <2> DEFINE v == hpc'[h]
  <2>1. hpc[h] = "spawn" /\ h \in Spawning /\ loadState = Loading
        /\ Spawning = {h} /\ Building = {}
    BY <1>5 DEF SpawnLoader, Spawning, LoadInv
  <2>2. UNCHANGED <<batchMode, pending, model, cfg, sched, staged, live, kind, upc, deducted>>
    BY <1>5 DEF SpawnLoader, gateVars
  <2>3. v \in {"leave", "await"} /\ (v = "await" => kind[h] # "load")
        /\ \A x \in Handlers : hpc'[x] = IF x = h THEN v ELSE hpc[x]
    BY <1>5, <1>a DEF SpawnLoader, AfterClaim, Goto, TypeOK
  <2>4. Spawning' = {}
    BY <2>1, <2>3 DEF Spawning
  <2>5. \/ loadState' = Loading /\ \E l \in Loads : lpc[l] = "none" /\ LGoto(l, "begin")
        \/ loadState' = Failed /\ lpc' = lpc
    BY <1>5, <2>1 DEF SpawnLoader, Loads
  <2>6. LoadInv' /\ \A l \in Loads : lpc'[l] = "publish" <=> lpc[l] = "publish"
    <3>1. CASE loadState' = Failed /\ lpc' = lpc
      BY <3>1, <2>1, <2>4 DEF LoadInv, Building, Failed, Loading
    <3>2. ASSUME loadState' = Loading, NEW l \in Loads, lpc[l] = "none", LGoto(l, "begin")
          PROVE  LoadInv' /\ \A k \in Loads : lpc'[k] = "publish" <=> lpc[k] = "publish"
      <4>1. \A k \in Loads : lpc'[k] = IF k = l THEN "begin" ELSE lpc[k]
        BY <3>2, <1>a DEF LGoto, TypeOK
      <4>2. Building' = {l}
        BY <2>1, <4>1 DEF Building
      <4> QED BY <3>2, <2>4, <4>1, <4>2 DEF LoadInv
    <3> QED BY <3>1, <3>2, <2>5
  <2>7. loadState # Ready /\ loadState' # Ready
    BY <2>1, <2>5 DEF Loading, Ready, Failed
  <2>8. Using' = Using /\ Using = {}
    BY <2>1, <2>3, <2>7 DEF Using, UseInv
  <2>9. UnloadInv' /\ StagedInv'
    BY <2>2, <2>6 DEF UnloadInv, StagedInv
  <2>10. ModelInv'
    BY <2>2, <2>6, <2>7 DEF ModelInv
  <2>11. ClosedInv'
    BY <2>1, <2>2, <2>3, <2>8, <1>b DEF ClosedInv
  <2>12. UseInv'
    BY <2>2, <2>3, <2>8 DEF UseInv
  <2> QED BY <2>6, <2>9, <2>10, <2>11, <2>12
<1>8. CASE Prepare(h)
  <2> USE DEF KeepInv
  <2>1. hpc[h] = "prepare" /\ Goto(h, "gate") /\ loadState = Ready /\ ~pending
        /\ UNCHANGED <<batchMode, pending, loadState, model, cfg, staged, live, kind, upc,
                       deducted, lpc>>
    BY <1>8, <1>b DEF Prepare, gateVars
  <2>2. \A x \in Handlers : hpc'[x] = IF x = h THEN "gate" ELSE hpc[x]
    BY <1>a, <2>1 DEF TypeOK, Goto
  <2>3. \A u \in Callers : upc[u] # "clear"
    BY <2>1 DEF ClosedInv
  <2>4. model \in live /\ model # NoModel
    BY <1>a, <2>1, <2>3 DEF ModelInv, TypeOK, Loads, NoModel
  <2>5. sched' \in {sched, model} /\ (sched # NoModel => sched' = sched)
        /\ (batchMode => sched' # NoModel)
    BY <1>8, <2>1, <2>4 DEF Prepare
  <2>6. UnloadInv' /\ StagedInv' /\ ModelInv'
    BY <2>1, <2>5 DEF UnloadInv, StagedInv, ModelInv
  <2>7. Spawning' = Spawning /\ Building' = Building
    BY <2>1, <2>2 DEF Spawning, Building
  <2>8. LoadInv'
    BY <2>1, <2>7 DEF LoadInv
  <2>9. ClosedInv'
    BY <2>1, <2>2 DEF ClosedInv
  <2>10. UseInv'
    BY <2>1, <2>2, <2>5 DEF UseInv
  <2> QED BY <2>6, <2>8, <2>9, <2>10
<1> QED BY <1>1, <1>2, <1>3, <1>4, <1>5, <1>6, <1>7, <1>8, <1>9, <1>10, <1>11, <1>12,
           <1>13, <1>14, <1>15, <1>16 DEF Handler

\* When another unload may begin, none is in progress.
LEMMA NoOtherUnload ==
  ASSUME Careful, MayUnload
  PROVE  \A u \in Callers : upc[u] = "none"
<1>1. IsFiniteSet(Callers)
  BY HandlersAssumption, FS_AddElement DEF Callers
<1>2. IsFiniteSet(Unloading)
  BY <1>1, FS_Subset DEF Unloading
<1>3. Cardinality(Unloading) \in Nat /\ MaxUnloaders \in Nat
  BY <1>2, FS_CardinalityType, BoundsAssumption
<1>4. Cardinality(Unloading) = 0
  BY <1>3 DEF MayUnload, Careful
<1>5. Unloading = {}
  BY <1>2, <1>4, FS_EmptySet
<1> QED BY <1>5 DEF Unloading

\* A request arrives.
LEMMA EnterKeeps ==
  ASSUME Careful, GateInv, KeepInv, NEW h \in Handlers, Enter(h)
  PROVE  KeepInv'
<1> USE DEF KeepInv
<1>1. PICK k \in Kinds :
        /\ kind' = [kind EXCEPT ![h] = k]
        /\ Goto(h, IF k = "infer" /\ pending THEN "leave" ELSE FirstStep(k))
        /\ IF k = "unload" THEN MayUnload /\ UGoto(h, "deduct") ELSE UNCHANGED upc
  BY DEF Enter
<1> DEFINE v == IF k = "infer" /\ pending THEN "leave" ELSE FirstStep(k)
<1>2. /\ v \in {"ensure", "probe", "claim", "unloading", "leave"}
      /\ pending => v # "ensure"
      /\ v = "claim" => k = "load"
  BY DEF FirstStep, Kinds
<1>3. Goto(h, v)
  BY <1>1
<1> HIDE DEF v
<1>4. hpc[h] = "idle" /\ UNCHANGED <<batchMode, pending, modelVars, deducted, lpc>>
  BY DEF Enter
<1>5. /\ hpc \in [Handlers -> HandlerAt] /\ kind \in [Handlers -> Kinds]
      /\ upc \in [Callers -> UnloaderAt] /\ Handlers \subseteq Callers /\ Monitor \notin Handlers
      /\ Monitor \in Callers
  BY HandlersAssumption DEF GateInv, TypeOK, Callers
<1>6. /\ \A x \in Handlers : hpc'[x] = IF x = h THEN v ELSE hpc[x]
      /\ \A x \in Handlers : kind'[x] = IF x = h THEN k ELSE kind[x]
  BY <1>1, <1>3, <1>5 DEF Goto
<1>7. /\ \A u \in Callers : upc'[u] = IF k = "unload" /\ u = h THEN "deduct" ELSE upc[u]
      /\ k = "unload" => \A u \in Callers : upc[u] = "none"
  BY <1>1, <1>5, NoOtherUnload DEF UGoto
<1>8. UnloadInv'
  BY <1>4, <1>5, <1>7 DEF UnloadInv
<1>9. Using' = Using /\ Spawning' = Spawning /\ Building' = Building
  BY <1>2, <1>4, <1>6 DEF Using, Spawning, Building
<1>10. upc[h] = "none"
  BY <1>4, <1>5 DEF GateInv, CallerInv
<1>11. \A u \in Callers : upc'[u] = upc[u] \/ (upc'[u] = "deduct" /\ upc[u] = "none")
  BY <1>7, <1>10
<1>12. ClosedInv'
  <2>1. pending' <=> \E u \in Callers :
           upc'[u] \in {"drain", "abort", "lock", "free", "clear", "open"}
    BY <1>4, <1>11 DEF ClosedInv
  <2>2. pending' => \A x \in Handlers :
                  /\ x \notin Using'
                  /\ hpc'[x] \notin {"ensure", "loadOnUse", "await", "recheck"}
                  /\ hpc'[x] \in {"claim", "spawn"} => kind'[x] = "load"
    BY <1>2, <1>4, <1>6, <1>9 DEF ClosedInv
  <2> QED BY <2>1, <2>2 DEF ClosedInv
<1>13. LoadInv'
  BY <1>4, <1>9 DEF LoadInv, modelVars
<1>14. ModelInv'
  BY <1>4, <1>11 DEF ModelInv, modelVars
<1>15. StagedInv'
  BY <1>4, <1>11 DEF StagedInv, modelVars
<1>16. UseInv'
  BY <1>2, <1>4, <1>6, <1>9 DEF UseInv, modelVars
<1> QED BY <1>8, <1>12, <1>13, <1>14, <1>15, <1>16

\* The load thread, when it has published the model: it moves, and changes nothing.
LEMMA IndexKeeps ==
  ASSUME TypeOK, KeepInv, NEW l \in Loads, LoadIndex(l) \/ LoadEnd(l)
  PROVE  KeepInv'
<1> USE DEF KeepInv
<1>1. UNCHANGED <<batchMode, pending, hpc, kind, upc, deducted, modelVars>>
  BY DEF LoadIndex, LoadEnd, gateVars
<1>2. PICK at \in {"indexing", "done"} : \A k \in Loads : lpc'[k] = IF k = l THEN at ELSE lpc[k]
  BY DEF LoadIndex, LoadEnd, LGoto, TypeOK
<1>3. lpc[l] \in {"index", "indexing"}
  BY DEF LoadIndex, LoadEnd
<1>4. /\ Using' = Using /\ Spawning' = Spawning /\ Building' = Building
      /\ \A k \in Loads : lpc'[k] = "publish" <=> lpc[k] = "publish"
  BY <1>1, <1>2, <1>3 DEF Using, Spawning, Building
<1>5. UnloadInv' /\ ClosedInv'
  BY <1>1, <1>4 DEF UnloadInv, ClosedInv, modelVars
<1>6. LoadInv'
  BY <1>1, <1>4 DEF LoadInv, modelVars
<1>7. ModelInv'
  BY <1>1, <1>4 DEF ModelInv, modelVars
<1>8. StagedInv'
  BY <1>1, <1>4 DEF StagedInv, modelVars
<1>9. UseInv'
  BY <1>1, <1>4 DEF UseInv, modelVars
<1> QED BY <1>5, <1>6, <1>7, <1>8, <1>9

\* The load thread, until it has published the model.
LEMMA LoaderKeeps ==
  ASSUME Careful, TypeOK, KeepInv, NEW l \in Loads,
         LoadBegin(l) \/ LoadModel(l) \/ LoadPublish(l)
  PROVE  KeepInv'
<1> USE DEF KeepInv
<1>1. /\ l \in Building /\ Building = {l} /\ Spawning = {} /\ loadState = Loading
      /\ UNCHANGED <<batchMode, pending, hpc, kind, upc, deducted, sched>>
  BY DEF LoadBegin, LoadModel, LoadPublish, Building, LoadInv, gateVars
<1>2. /\ Using = {} /\ model = NoModel /\ cfg = NoModel /\ sched = NoModel
      /\ \A u \in Callers :
           upc[u] \notin {"refuse", "drain", "abort", "lock", "free", "clear"}
  BY <1>1 DEF UseInv, ModelInv, Loading, Ready
<1>3. Using' = {} /\ Spawning' = {}
  BY <1>1, <1>2 DEF Using, Spawning
<1>4. UnloadInv' /\ ClosedInv'
  BY <1>1, <1>2, <1>3 DEF UnloadInv, ClosedInv
<1>5. NoModel \notin Loads /\ lpc \in [Loads -> LoaderAt]
      /\ Loading # Ready /\ Failed # Ready /\ Failed # Loading
  BY DEF Loads, NoModel, TypeOK, Loading, Ready, Failed
<1>6. CASE LoadBegin(l)
  <2>1. \A k \in Loads : lpc'[k] = IF k = l THEN "load" ELSE lpc[k]
    BY <1>5, <1>6 DEF LoadBegin, LGoto
  <2>2. lpc[l] = "begin" /\ loadState' = Loading /\ UNCHANGED <<model, cfg, staged, live>>
    BY <1>6 DEF LoadBegin
  <2>3. Building' = Building
    BY <2>1, <2>2 DEF Building
  <2>4. LoadInv' /\ StagedInv' /\ UseInv'
    BY <1>1, <1>3, <2>1, <2>2, <2>3 DEF LoadInv, StagedInv, UseInv
  <2>5. ModelInv'
    BY <1>1, <1>2, <1>5, <2>1, <2>2 DEF ModelInv
  <2> QED BY <1>4, <2>4, <2>5
<1>7. CASE LoadModel(l)
  <2>1. lpc[l] = "load" /\ UNCHANGED <<model, cfg>>
        /\ \A u \in Callers : upc[u] \notin {"open", "wipe"}
    BY <1>7 DEF LoadModel, Careful
  <2>2. live = {}
    BY <1>1, <1>2, <1>5, <2>1 DEF ModelInv, Building
  <2>3. CASE staged' = l /\ live' = live \cup {l} /\ LGoto(l, "publish") /\ UNCHANGED loadState
    <3>1. \A k \in Loads : lpc'[k] = IF k = l THEN "publish" ELSE lpc[k]
      BY <1>5, <2>3 DEF LGoto
    <3>2. Building' = Building /\ \A k \in Loads : lpc'[k] = "publish" <=> k = l
      BY <1>1, <2>1, <3>1 DEF Building
    <3>3. LoadInv' /\ StagedInv' /\ UseInv'
      BY <1>1, <1>3, <2>1, <2>3, <3>2 DEF LoadInv, StagedInv, UseInv
    <3>4. ModelInv'
      BY <1>1, <1>2, <1>5, <2>1, <2>2, <2>3, <3>2 DEF ModelInv
    <3> QED BY <1>4, <3>3, <3>4
  <2>4. CASE loadState' = Failed /\ LGoto(l, "done") /\ UNCHANGED <<staged, live>>
    <3>1. \A k \in Loads : lpc'[k] = IF k = l THEN "done" ELSE lpc[k]
      BY <1>5, <2>4 DEF LGoto
    <3>2. Building' = {} /\ \A k \in Loads : lpc'[k] # "publish"
      BY <1>1, <2>1, <3>1 DEF Building
    <3>3. LoadInv' /\ StagedInv' /\ UseInv'
      BY <1>1, <1>2, <1>3, <1>5, <2>1, <2>4, <3>2 DEF LoadInv, StagedInv, UseInv
    <3>4. ModelInv'
      BY <1>1, <1>2, <1>5, <2>1, <2>2, <2>4, <3>2 DEF ModelInv
    <3> QED BY <1>4, <3>3, <3>4
  <2> QED BY <1>7, <2>3, <2>4 DEF LoadModel
<1>8. CASE LoadPublish(l)
  <2>1. lpc[l] = "publish" /\ staged = l /\ model' = l /\ cfg' = l /\ loadState' = Ready
        /\ UNCHANGED <<staged, live>>
    BY <1>8 DEF LoadPublish, StagedInv
  <2>2. \A k \in Loads : lpc'[k] = IF k = l THEN "index" ELSE lpc[k]
    BY <1>5, <1>8 DEF LoadPublish, LGoto
  <2>3. Building' = {} /\ \A k \in Loads : lpc'[k] # "publish"
    BY <1>1, <2>1, <2>2 DEF Building
  <2>4. live = {l}
    BY <1>1, <1>2, <1>5, <2>1 DEF ModelInv, Building
  <2>5. LoadInv' /\ StagedInv'
    BY <1>1, <1>3, <1>5, <2>1, <2>3 DEF LoadInv, StagedInv
  <2>6. UseInv'
    BY <1>1, <1>2, <1>3, <2>1 DEF UseInv, Using
  <2>7. ModelInv'
    BY <1>1, <1>2, <1>5, <2>1, <2>3, <2>4 DEF ModelInv
  <2> QED BY <1>4, <2>5, <2>6, <2>7
<1> QED BY <1>6, <1>7, <1>8

\* An unload that finds nothing in use finds every handler outside, or calling it.
LEMMA IdleMeansEmpty ==
  ASSUME GateInv, KeepInv, ~InUse
  PROVE  \A h \in Handlers : hpc[h] \in {"idle", "unloading"}
<1> USE DEF GateInv, KeepInv
<1>1. inflight <= 0 /\ inflight \in Int
  BY DEF InUse, TypeOK
<1>2. {h \in Handlers : hpc[h] \in Within} = Inside
  BY DEF Within, Inside, TypeOK
<1>3. IsFiniteSet(Inside) /\ Cardinality(Inside) \in Nat
  BY <1>2, CntType DEF Cnt
<1>4. \A u \in deducted : u \in Handlers /\ hpc[u] = "unloading"
  BY DEF UnloadInv, CallerInv, TypeOK, Callers
<1>5. deducted \in SUBSET Inside
  BY <1>4 DEF Inside
<1>6. Cardinality(deducted) \in Nat /\ Cardinality(deducted) <= Cardinality(Inside)
  BY <1>3, <1>5, FS_Subset, FS_CardinalityType DEF CountInv
<1>7. Cardinality(Inside) = Cardinality(deducted)
  <2>1. Cnt(hpc, Within) = Cardinality(Inside)
    BY <1>2 DEF Cnt
  <2> QED BY <2>1, <1>1, <1>3, <1>6 DEF CountInv
<1>8. Inside = deducted
  BY <1>3, <1>5, <1>7, FS_Subset
<1> QED BY <1>4, <1>8 DEF Inside

\* A step of an unload.
LEMMA UnloaderKeeps ==
  ASSUME Careful, GateInv, KeepInv, NEW u \in Callers, Unloader(u)
  PROVE  KeepInv'
<1> DEFINE Closing == {"drain", "abort", "lock", "free", "clear", "open"}
           Certain == {"refuse", "drain", "abort", "lock", "free", "clear"}
<1> USE DEF KeepInv
<1>a. /\ TypeOK /\ upc \in [Callers -> UnloaderAt] /\ Monitor \in Callers
      /\ Monitor \notin Handlers /\ NoModel \notin Loads
      /\ Loading # Ready /\ Unloaded # Ready /\ Unloaded # Loading
  BY HandlersAssumption
     DEF GateInv, TypeOK, Callers, NoModel, Loads, Loading, Ready, Unloaded
<1>b. upc[u] # "none" /\ \A x \in Callers : x # u => upc[x] = "none"
  BY DEF Unloader, DeductSelf, CheckLoaded, RefuseBusy, Drain, AbortUnload, LockForFree,
         FreeModel, ClearState, ReopenGate, WipeStaged, RestoreSelf, UnloadInv
<1>c. /\ pending <=> upc[u] \in Closing
      /\ upc[u] \in Certain => loadState = Ready
  BY <1>b DEF ClosedInv, ModelInv
\* a step that leaves the model, the handlers and the loads alone
<1>d. ASSUME NEW v \in UnloaderAt, UGoto(u, v), v \notin {"none", "deduct", "clear"},
             upc[u] # "clear",
             v \in {"open", "wipe"} => upc[u] \in {"open", "wipe"},
             UNCHANGED <<batchMode, modelVars, hpc, kind, lpc>>,
             deducted' \subseteq deducted \cup {u},
             u = Monitor => upc[u] # "deduct",
             deducted' # deducted => upc[u] = "deduct",
             v \in Certain => loadState = Ready,
             pending' <=> v \in Closing,
             pending' => pending \/ \A h \in Handlers : hpc[h] \in {"idle", "unloading"}
      PROVE  KeepInv'
  <2>1. \A x \in Callers : upc'[x] = IF x = u THEN v ELSE upc[x]
    BY <1>a, <1>d DEF UGoto
  <2>2. UnloadInv'
    BY <1>a, <1>b, <1>d, <2>1 DEF UnloadInv
  <2>3. Using' = Using /\ Spawning' = Spawning /\ Building' = Building
    BY <1>d DEF Using, Spawning, Building
  <2>4. LoadInv' /\ UseInv'
    BY <1>d, <2>3 DEF LoadInv, UseInv, modelVars
  <2>5. ClosedInv'
    <3>1. pending' <=> \E x \in Callers : upc'[x] \in Closing
      BY <1>b, <1>d, <2>1
    <3>2. CASE pending
      BY <3>1, <3>2, <1>d, <2>3 DEF ClosedInv
    <3>3. CASE \A h \in Handlers : hpc[h] \in {"idle", "unloading"}
      BY <3>1, <3>3, <1>d DEF ClosedInv, Using
    <3>4. CASE ~pending'
      BY <3>1, <3>4 DEF ClosedInv
    <3> QED BY <3>2, <3>3, <3>4, <1>d
  <2>6. ModelInv'
    BY <1>b, <1>d, <2>1 DEF ModelInv, modelVars
  <2>7. StagedInv'
    BY <1>b, <1>d, <2>1 DEF StagedInv, modelVars
  <2> QED BY <2>2, <2>4, <2>5, <2>6, <2>7
<1>1. CASE DeductSelf(u)
  <2>1. u # Monitor
    BY <1>1 DEF DeductSelf, UnloadInv
  <2> QED BY <1>1, <2>1, <1>c, <1>d DEF DeductSelf, UnloaderAt, gateVars
<1>2. CASE CheckLoaded(u)
  BY <1>2, <1>c, <1>d, <1>a DEF CheckLoaded, UnloaderAt, gateVars
<1>3. CASE RefuseBusy(u)
  <2>1. CASE InUse
    BY <1>3, <2>1, <1>c, <1>d DEF RefuseBusy, UnloaderAt
  <2>2. CASE ~InUse
    BY <1>3, <2>2, <1>c, <1>d, IdleMeansEmpty DEF RefuseBusy, UnloaderAt
  <2> QED BY <2>1, <2>2
<1>4. CASE Drain(u)
  BY <1>4, <1>c, <1>d DEF Drain, UnloaderAt, gateVars
<1>5. CASE AbortUnload(u)
  BY <1>5, <1>c, <1>d DEF AbortUnload, UnloaderAt
<1>6. CASE LockForFree(u)
  BY <1>6, <1>c, <1>d DEF LockForFree, UnloaderAt
<1>9. CASE ReopenGate(u)
  BY <1>9, <1>c, <1>d DEF ReopenGate, UnloaderAt
<1>7. CASE FreeModel(u)
  <2>1. upc[u] = "free" /\ loadState = Ready /\ pending
        /\ live' = live \ {model} /\ model' = NoModel /\ sched' = NoModel
        /\ UNCHANGED <<batchMode, pending, loadState, cfg, staged, hpc, kind, lpc, deducted>>
    BY <1>7, <1>c DEF FreeModel, gateVars
  <2>2. \A x \in Callers : upc'[x] = IF x = u THEN "clear" ELSE upc[x]
    BY <1>7, <1>a DEF FreeModel, UGoto
  <2>3. Using = {} /\ Using' = {} /\ Spawning' = Spawning /\ Building' = Building /\ Building = {}
    BY <1>a, <2>1 DEF ClosedInv, LoadInv, Using, Spawning, Building
  <2>4. UnloadInv' /\ ClosedInv'
    BY <1>a, <1>b, <2>1, <2>2, <2>3 DEF UnloadInv, ClosedInv
  <2>5. LoadInv' /\ StagedInv'
    BY <1>b, <2>1, <2>2, <2>3 DEF LoadInv, StagedInv
  <2>6. \A h \in Handlers : hpc'[h] \notin {"gate", "running"}
    BY <2>3 DEF Using
  <2>7. UseInv'
    BY <2>3, <2>6 DEF UseInv
  <2>8. \A l \in Loads : lpc[l] # "publish"
    BY <2>3 DEF Building
  <2>9. ModelInv'
    BY <1>a, <1>b, <2>1, <2>2, <2>8 DEF ModelInv
  <2> QED BY <2>4, <2>5, <2>7, <2>9
<1>8. CASE ClearState(u)
  <2>1. upc[u] = "clear" /\ loadState = Ready /\ pending /\ model = NoModel
        /\ cfg' = NoModel /\ loadState' = Unloaded
        /\ UNCHANGED <<batchMode, pending, model, sched, staged, live, hpc, kind, lpc, deducted>>
    BY <1>8, <1>c DEF ClearState, gateVars, ModelInv
  <2>2. \A x \in Callers : upc'[x] = IF x = u THEN "open" ELSE upc[x]
    BY <1>8, <1>a DEF ClearState, UGoto
  <2>3. /\ Using = {} /\ Using' = {} /\ Spawning' = {} /\ Building' = {}
        /\ Building = {} /\ Spawning = {}
    BY <1>a, <2>1 DEF ClosedInv, LoadInv, Using, Spawning, Building
  <2>4. UnloadInv' /\ ClosedInv'
    BY <1>a, <1>b, <2>1, <2>2, <2>3 DEF UnloadInv, ClosedInv
  <2>5. \A l \in Loads : lpc[l] # "publish"
    BY <2>3 DEF Building
  <2>6. LoadInv' /\ StagedInv'
    BY <1>a, <1>b, <2>1, <2>2, <2>3, <2>5 DEF LoadInv, StagedInv
  <2>7. \A h \in Handlers : hpc'[h] \notin {"gate", "running"}
    BY <2>3 DEF Using
  <2>8. UseInv'
    BY <2>3, <2>7 DEF UseInv
  <2>9. ModelInv'
    BY <1>a, <1>b, <2>1, <2>2, <2>5 DEF ModelInv
  <2> QED BY <2>4, <2>6, <2>8, <2>9
<1>10. CASE WipeStaged(u)
  <2>1. upc[u] = "wipe" /\ (\A l \in Loads : lpc[l] # "publish")
        /\ UNCHANGED <<batchMode, pending, loadState, model, cfg, sched, live, hpc, kind, lpc,
                       deducted>>
    BY <1>10 DEF WipeStaged, StagedInv
  <2>2. \A x \in Callers : upc'[x] = IF x = u THEN "restore" ELSE upc[x]
    BY <1>10, <1>a DEF WipeStaged, UGoto
  <2>3. Using' = Using /\ Spawning' = Spawning /\ Building' = Building
    BY <2>1 DEF Using, Spawning, Building
  <2>4. UnloadInv' /\ ClosedInv'
    BY <1>a, <1>b, <2>1, <2>2, <2>3 DEF UnloadInv, ClosedInv
  <2>5. LoadInv' /\ StagedInv' /\ UseInv'
    BY <1>b, <2>1, <2>2, <2>3 DEF LoadInv, StagedInv, UseInv
  <2>6. ModelInv'
    BY <1>b, <2>1, <2>2 DEF ModelInv
  <2> QED BY <2>4, <2>5, <2>6
<1>11. CASE RestoreSelf(u)
  <2>1. upc[u] = "restore" /\ deducted' = deducted \ {u}
        /\ hpc' = [h \in Handlers |-> IF h = u THEN "leave" ELSE hpc[h]]
        /\ UNCHANGED <<batchMode, pending, modelVars, kind, lpc>>
    BY <1>11 DEF RestoreSelf
  <2>2. \A x \in Callers : upc'[x] = IF x = u THEN "none" ELSE upc[x]
    BY <1>11, <1>a DEF RestoreSelf, UGoto
  <2>3. u \in Handlers => hpc[u] = "unloading"
    BY <2>1 DEF GateInv, CallerInv
  <2>4. Using' = Using /\ Spawning' = Spawning /\ Building' = Building
    BY <2>1, <2>3 DEF Using, Spawning, Building
  <2>5. UnloadInv'
    BY <1>a, <1>b, <2>1, <2>2 DEF UnloadInv
  <2>6. ClosedInv'
    BY <1>c, <1>b, <2>1, <2>2, <2>4 DEF ClosedInv
  <2>7. LoadInv' /\ StagedInv'
    BY <1>b, <2>1, <2>2, <2>4 DEF LoadInv, StagedInv, modelVars
  <2>8. UseInv'
    BY <2>1, <2>4 DEF UseInv, modelVars
  <2>9. ModelInv'
    BY <1>b, <2>1, <2>2 DEF ModelInv, modelVars
  <2> QED BY <2>5, <2>6, <2>7, <2>8, <2>9
<1> QED BY <1>1, <1>2, <1>3, <1>4, <1>5, <1>6, <1>7, <1>8, <1>9, <1>10, <1>11 DEF Unloader

\* The monitor finds an idle model and begins an unload.
LEMMA MonitorKeeps ==
  ASSUME Careful, TypeOK, KeepInv, MonitorTick
  PROVE  KeepInv'
<1> USE DEF KeepInv
<1>1. \A u \in Callers : upc[u] = "none"
  BY NoOtherUnload DEF MonitorTick
<1>2. \A u \in Callers : upc'[u] = IF u = Monitor THEN "check" ELSE "none"
  BY <1>1 DEF MonitorTick, UGoto, TypeOK, Careful
<1>3. UNCHANGED <<batchMode, pending, modelVars, hpc, kind, deducted, lpc>>
  BY DEF MonitorTick, gateVars
<1>4. Using' = Using /\ Spawning' = Spawning /\ Building' = Building /\ Monitor \in Callers
  BY <1>3 DEF Using, Spawning, Building, Callers
<1>5. UnloadInv' /\ ClosedInv'
  BY <1>1, <1>2, <1>3, <1>4 DEF UnloadInv, ClosedInv
<1>6. LoadInv' /\ StagedInv' /\ UseInv'
  BY <1>1, <1>2, <1>3, <1>4 DEF LoadInv, StagedInv, UseInv, modelVars
<1>7. ModelInv'
  BY <1>1, <1>2, <1>3 DEF ModelInv, modelVars
<1> QED BY <1>5, <1>6, <1>7

\* The invariant of the model's lifetime holds at first ...
LEMMA KeepInit == Init => KeepInv
<1> SUFFICES ASSUME Init PROVE KeepInv
  OBVIOUS
<1>1. /\ \A u \in Callers : upc[u] = "none"
      /\ \A h \in Handlers : hpc[h] = "idle"
      /\ \A l \in Loads : lpc[l] = "none"
      /\ ~pending /\ deducted = {} /\ live = {} /\ loadState = Unloaded
      /\ model = NoModel /\ cfg = NoModel /\ sched = NoModel /\ Monitor \in Callers
  BY DEF Init, Callers
<1>2. Using = {} /\ Spawning = {} /\ Building = {}
  BY <1>1 DEF Using, Spawning, Building
<1>3. Unloaded # Loading /\ Unloaded # Ready /\ NoModel \notin Loads
  BY DEF Unloaded, Loading, Ready, NoModel, Loads
<1>4. UnloadInv /\ ClosedInv /\ LoadInv
  BY <1>1, <1>2, <1>3 DEF UnloadInv, ClosedInv, LoadInv
<1>5. ModelInv /\ StagedInv /\ UseInv
  BY <1>1, <1>2, <1>3 DEF ModelInv, StagedInv, UseInv
<1> QED BY <1>4, <1>5 DEF KeepInv

\* ... and is kept by every step.
LEMMA KeepNext == Careful /\ GateInv /\ KeepInv /\ [Next]_vars => KeepInv'
<1> SUFFICES ASSUME Careful, GateInv, KeepInv, [Next]_vars PROVE KeepInv'
  OBVIOUS
<1>a. TypeOK
  BY DEF GateInv
<1>1. ASSUME NEW h \in Handlers, Enter(h) PROVE KeepInv'
  BY <1>1, EnterKeeps
<1>2. ASSUME NEW h \in Handlers, Handler(h) PROVE KeepInv'
  BY <1>2, HandlerKeeps
<1>3. ASSUME NEW l \in Loads, Loader(l) PROVE KeepInv'
  BY <1>a, <1>3, LoaderKeeps, IndexKeeps DEF Loader
<1>4. ASSUME NEW u \in Callers, Unloader(u) PROVE KeepInv'
  BY <1>4, UnloaderKeeps
<1>5. CASE MonitorTick
  BY <1>a, <1>5, MonitorKeeps
<1>6. CASE UNCHANGED vars
  <2>1. UNCHANGED <<batchMode, pending, loadState, model, cfg, sched, staged, live,
                    hpc, kind, upc, deducted, lpc>>
    BY <1>6 DEF vars, gateVars, modelVars, threadVars
  <2>2. Using' = Using /\ Spawning' = Spawning /\ Building' = Building
    BY <2>1 DEF Using, Spawning, Building
  <2>3. UnloadInv' /\ ClosedInv' /\ LoadInv'
    BY <2>1, <2>2 DEF UnloadInv, ClosedInv, LoadInv, KeepInv
  <2>4. ModelInv' /\ StagedInv' /\ UseInv'
    BY <2>1, <2>2 DEF ModelInv, StagedInv, UseInv, KeepInv
  <2> QED BY <2>3, <2>4 DEF KeepInv
<1> QED BY <1>1, <1>2, <1>3, <1>4, <1>5, <1>6 DEF Next

\* What holds of the model's lifetime at any time, where the code keeps it.
THEOREM ModelIsKept ==
  ASSUME Careful
  PROVE  Spec => []KeepInv
<1>1. KeepInv /\ GateInv /\ [Next]_vars => KeepInv'
  BY KeepNext
<1> QED BY <1>1, KeepInit, GateIsKept, PTL DEF Spec

\* From ensure_model_ready to its last use of ctx a request finds the model
\* allocated, for any number of handlers.
THEOREM NoUseAfterFree ==
  ASSUME Careful
  PROVE  Spec => []HandlerKeepsModel
<1>1. KeepInv => HandlerKeepsModel
  <2> SUFFICES ASSUME KeepInv PROVE HandlerKeepsModel
    OBVIOUS
  <2> USE DEF KeepInv
  <2>1. ASSUME NEW h \in Using PROVE model \in live /\ cfg = model
    <3>1. loadState = Ready /\ ~pending
      BY <2>1 DEF UseInv, ClosedInv, Using
    <3>2. \A u \in Callers : upc[u] # "clear"
      BY <3>1 DEF ClosedInv
    <3> QED BY <3>1, <3>2 DEF ModelInv
  <2> QED BY <2>1 DEF HandlerKeepsModel, ModelInv, UseInv
<1> QED BY <1>1, ModelIsKept, PTL

\* vllm_serve_start_load starts one load at a time, and every allocated model is
\* the one ctx points to or the one about to be published.
THEOREM NoModelLost ==
  ASSUME Careful
  PROVE  Spec => []ModelsAccounted
<1>1. KeepInv /\ TypeOK => ModelsAccounted
  <2> SUFFICES ASSUME KeepInv, TypeOK PROVE ModelsAccounted
    OBVIOUS
  <2> USE DEF KeepInv
  <2>1. {l \in Loads : lpc[l] \in {"begin", "load", "publish"}} = Building
    BY DEF Building
  <2>2. Cardinality(Building) <= 1
    <3>1. CASE Building = {}
      BY <3>1, FS_EmptySet
    <3>2. ASSUME NEW l \in Building PROVE Cardinality(Building) <= 1
      <4>1. Building = {} \cup {l}
        BY <3>2 DEF LoadInv
      <4>2. Cardinality({} \cup {l}) = 1
        BY FS_EmptySet, FS_AddElement
      <4> QED BY <4>1, <4>2
    <3> QED BY <3>1, <3>2
  <2>3. live = {l \in Loads : l = model \/ (lpc[l] = "publish" /\ staged = l)}
    BY DEF ModelInv, StagedInv
  <2> QED BY <2>1, <2>2, <2>3 DEF ModelsAccounted
<1> QED BY <1>1, ModelIsKept, TypeCorrect, PTL

\* A step that moves one handler and leaves the model alone takes or gives back
\* one lease, or none.
LEMMA OneLease ==
  ASSUME TypeOK, TypeOK', HandlerKeepsModel', model' = model, NEW h \in Handlers,
         \A x \in Handlers : x # h => hpc'[x] = hpc[x]
  PROVE  [Lease!Next]_(Lease!vars)
<1>1. NoModel \notin Loads
  BY DEF NoModel, Loads
<1>2. h \in Using' => model # NoModel
  BY <1>1 DEF HandlerKeepsModel, TypeOK
<1>3. \A x \in Handlers : x # h => (x \in Using' <=> x \in Using)
  BY DEF Using
<1>4. Using \subseteq Handlers /\ Using' \subseteq Handlers
  BY DEF Using
<1>5. CASE h \in Using' /\ h \notin Using
  <2>1. Using' = Using \cup {h}
    BY <1>3, <1>4, <1>5
  <2>2. Lease!Acquire(h)
    BY <1>2, <1>5, <2>1 DEF Lease!Acquire
  <2> QED BY <2>2 DEF Lease!Next
<1>6. CASE h \in Using /\ h \notin Using'
  <2>1. Using' = Using \ {h}
    BY <1>3, <1>4, <1>6
  <2>2. Lease!Release(h)
    BY <1>6, <2>1 DEF Lease!Release
  <2> QED BY <2>2 DEF Lease!Next
<1>7. CASE h \in Using <=> h \in Using'
  <2>1. Using' = Using
    BY <1>3, <1>4, <1>7
  <2> QED BY <2>1 DEF Lease!vars
<1> QED BY <1>5, <1>6, <1>7

\* Every step takes or gives back a lease, loads or unloads, or is none of these.
LEMMA StepLeases ==
  ASSUME GateInv, KeepInv, TypeOK', HandlerKeepsModel', [Next]_vars
  PROVE  [Lease!Next]_(Lease!vars)
<1>a. TypeOK /\ hpc \in [Handlers -> HandlerAt] /\ NoModel \notin Loads
  BY DEF GateInv, TypeOK, NoModel, Loads
<1>b. ASSUME model' = model, hpc' = hpc PROVE [Lease!Next]_(Lease!vars)
  BY <1>b DEF Lease!vars, Using
<1>1. ASSUME NEW h \in Handlers, Enter(h) PROVE [Lease!Next]_(Lease!vars)
  <2>1. model' = model /\ \A x \in Handlers : x # h => hpc'[x] = hpc[x]
    BY <1>a, <1>1 DEF Enter, Goto, modelVars
  <2> QED BY <1>a, <2>1, OneLease
<1>2. ASSUME NEW h \in Handlers, Handler(h) PROVE [Lease!Next]_(Lease!vars)
  <2>1. model' = model /\ \A x \in Handlers : x # h => hpc'[x] = hpc[x]
    BY <1>a, <1>2
       DEF Handler, Leave, EnsureModel, LoadOnUse, ClaimLoad, SpawnLoader, AwaitLoad,
           RecheckModel, Prepare, Gate, TakeInfLock, StartInference, FinishInference,
           DropInfLock, AfterInference, ProbeConfig, ReadConfig, Goto, modelVars
  <2> QED BY <1>a, <2>1, OneLease
<1>3. ASSUME NEW l \in Loads, Loader(l) PROVE [Lease!Next]_(Lease!vars)
  <2>1. CASE LoadBegin(l) \/ LoadModel(l)
    BY <1>b, <2>1 DEF LoadBegin, LoadModel
  <2>2. CASE LoadPublish(l)
    <3>1. staged = l /\ loadState # Ready /\ model' = l /\ hpc' = hpc
      BY <2>2 DEF LoadPublish, KeepInv, StagedInv, LoadInv, Building, Loading, Ready
    <3>2. model = NoModel /\ Using' = Using
      BY <3>1 DEF KeepInv, ModelInv, Using
    <3>3. Lease!Load(l)
      BY <3>1, <3>2 DEF Lease!Load
    <3> QED BY <3>3 DEF Lease!Next
  <2>3. CASE LoadIndex(l) \/ LoadEnd(l)
    BY <1>b, <2>3 DEF LoadIndex, LoadEnd, modelVars
  <2> QED BY <1>3, <2>1, <2>2, <2>3 DEF Loader
<1>4. ASSUME NEW u \in Callers, Unloader(u) PROVE [Lease!Next]_(Lease!vars)
  <2>1. CASE RestoreSelf(u)
    <3>1. u \in Handlers => hpc[u] = "unloading"
      BY <2>1 DEF RestoreSelf, GateInv, CallerInv
    <3>2. Using' = Using /\ model' = model
      BY <2>1, <3>1 DEF RestoreSelf, Using, modelVars
    <3> QED BY <3>2 DEF Lease!vars
  <2>2. CASE FreeModel(u)
    <3>1. upc[u] = "free" /\ model' = NoModel /\ hpc' = hpc
      BY <2>2 DEF FreeModel
    <3>2. pending /\ loadState = Ready /\ \A x \in Callers : upc[x] # "clear"
      BY <3>1 DEF KeepInv, ClosedInv, ModelInv, UnloadInv
    <3>3. model # NoModel /\ Using = {} /\ Using' = {}
      BY <1>a, <3>1, <3>2 DEF KeepInv, ClosedInv, ModelInv, Using, TypeOK
    <3>4. Lease!Unload
      BY <3>1, <3>3 DEF Lease!Unload
    <3> QED BY <3>4 DEF Lease!Next
  <2>3. CASE ~RestoreSelf(u) /\ ~FreeModel(u)
    <3>1. model' = model /\ hpc' = hpc
      BY <1>4, <2>3
         DEF Unloader, DeductSelf, CheckLoaded, RefuseBusy, Drain, AbortUnload, LockForFree,
             ClearState, ReopenGate, WipeStaged, modelVars
    <3> QED BY <3>1, <1>b
  <2> QED BY <2>1, <2>2, <2>3
<1>5. CASE MonitorTick
  BY <1>b, <1>5 DEF MonitorTick, modelVars
<1>6. CASE UNCHANGED vars
  BY <1>b, <1>6 DEF vars, modelVars, threadVars
<1> QED BY <1>1, <1>2, <1>3, <1>4, <1>5, <1>6 DEF Next

\* Loading, admission and unloading implement the lease of ModelLease: a request
\* holds the one loaded model, and none is freed while it is held.
THEOREM LeaseIsKept ==
  ASSUME Careful
  PROVE  Spec => ImplementsLease
<1>1. Init => Lease!Init
  BY DEF Init, Lease!Init, Using
<1>2. GateInv /\ KeepInv /\ TypeOK' /\ HandlerKeepsModel' /\ [Next]_vars
        => [Lease!Next]_(Lease!vars)
  BY StepLeases
<1> QED BY <1>1, <1>2, GateIsKept, ModelIsKept, TypeCorrect, NoUseAfterFree, PTL
        DEF Spec, ImplementsLease, Lease!Spec
=============================================================================
