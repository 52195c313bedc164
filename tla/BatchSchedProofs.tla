-------------------------- MODULE BatchSchedProofs --------------------------
(***************************************************************************)
(* Proofs about BatchSched for every set of workers, every number of slots *)
(* and every bound.                                                        *)
(***************************************************************************)
EXTENDS BatchSchedProps, FiniteSetTheorems, TLAPS

\* No slot is NoNode, and the engine's list of slots is finite.
LEMMA NodeFacts ==
  /\ NoNode \notin Nodes
  /\ IsFiniteSet(Nodes)
<1>1. NoNode \notin Nodes
  BY BatchMaxAssumption DEF NoNode, Nodes
<1>2. IsFiniteSet(Nodes)
  BY FS_Interval, BatchMaxAssumption DEF Nodes
<1> QED BY <1>1, <1>2

LEMMA BatchSize == TypeOK => IsFiniteSet(batch) /\ Cardinality(batch) \in Nat
BY NodeFacts, FS_Subset, FS_CardinalityType DEF TypeOK

\* The epochs the engine hands out in one commit are new, and none is beyond
\* the counter it leaves.
LEMMA EpochOfBounds ==
  ASSUME TypeOK, NEW n \in batch
  PROVE  /\ EpochOf(n) \in Nat
         /\ epoch < EpochOf(n)
         /\ EpochOf(n) <= epoch + Cardinality(batch)
<1> DEFINE upto == {m \in batch : m <= n}
<1>1. batch \subseteq Nodes /\ epoch \in Nat
  BY DEF TypeOK
<1>3. upto \subseteq batch
  OBVIOUS
<1>4. /\ IsFiniteSet(upto)
      /\ Cardinality(upto) \in Nat
      /\ Cardinality(upto) <= Cardinality(batch)
  BY <1>3, BatchSize, FS_Subset, FS_CardinalityType
<1>5. n \in upto
  BY <1>1, BatchMaxAssumption DEF Nodes
<1>6. Cardinality(upto) # 0
  BY <1>4, <1>5, FS_EmptySet
<1> HIDE DEF upto
<1>7. EpochOf(n) = epoch + Cardinality(upto)
  BY DEF EpochOf, upto
<1> QED BY <1>1, <1>4, <1>6, <1>7, BatchSize

\* What the engine, vb_acquire and vb_release make of a VBNode is a VBNode.
LEMMA NodeUpdates ==
  ASSUME NEW r \in NodeRecord, NEW e \in Nat
  PROVE  /\ [r EXCEPT !.want = FALSE, !.doneEpoch = e] \in NodeRecord
         /\ [r EXCEPT !.used = TRUE, !.want = FALSE, !.doneEpoch = 0] \in NodeRecord
         /\ [r EXCEPT !.used = FALSE] \in NodeRecord
BY DEF NodeRecord

\* What a forward makes of an inference state is an inference state.
LEMMA StateUpdate ==
  ASSUME NEW s \in StateRecord, NEW t \in Token \cup {NoToken}
  PROVE  [s EXCEPT !.rows = @ + 1, !.logits = t] \in StateRecord
<1>1. s.rows + 1 \in Nat
  BY DEF StateRecord
<1> QED BY <1>1 DEF StateRecord

-----------------------------------------------------------------------------
LEMMA InitInv == Init => IInv
<1> SUFFICES ASSUME Init PROVE IInv
  OBVIOUS
<1> USE NodeFacts, MaxTokensAssumption, MaxRequestsAssumption DEF Init
<1>1. TypeOK
  <2>1. node \in [Nodes -> NodeRecord]
    BY DEF NodeRecord
  <2>2. st \in [Nodes -> StateRecord]
    BY DEF StateRecord, FreedState
  <2>3. /\ wpc \in [Workers -> WorkerAt]
        /\ gen \in [Workers -> 0 .. MaxTokens - 1]
        /\ requests \in [Workers -> 0 .. MaxRequests]
    BY DEF WorkerAt
  <2> QED BY <2>1, <2>2, <2>3 DEF TypeOK, EngineAt
<1>2. SlotInv /\ EpochInv /\ WantInv /\ StopInv
  BY DEF SlotInv, EpochInv, WantInv, StopInv, Holding
<1>3. BatchInv /\ StateInv
  BY DEF BatchInv, StateInv, StateOf, Stepping
<1> QED BY <1>1, <1>2, <1>3 DEF IInv

\* The forward goes through every state of the batch, or through none.
ForwardedState ==
  [n \in Nodes |-> IF n \in batch /\ ~stop
                  THEN [st[n] EXCEPT !.rows = @ + 1, !.logits = toks[n]]
                  ELSE st[n]]

LEMMA ForwardOf ==
  EngineForward => st' = ForwardedState \/ (ScratchFails /\ st' = st)
BY DEF EngineForward, ForwardedState

\* The type invariant is inductive on its own, except that the epochs a commit
\* writes need the arithmetic of EpochOfBounds.
LEMMA TypeStep == TypeOK /\ SlotInv /\ [Next]_vars => TypeOK'
<1> SUFFICES ASSUME TypeOK, SlotInv, [Next]_vars PROVE TypeOK'
  OBVIOUS
<1> USE NodeFacts, MaxTokensAssumption, MaxRequestsAssumption
    DEF TypeOK, schedVars, engineVars, workerVars, Goto, EngineAt, WorkerAt
<1>1. CASE EngineScan
  BY <1>1 DEF EngineScan, Pending, NodeRecord
<1>2. CASE EngineSleep
  BY <1>2 DEF EngineSleep
<1>3. CASE EngineLock
  BY <1>3 DEF EngineLock
<1>4. CASE EngineForward
  <2>1. \A n \in Nodes : st[n] \in StateRecord /\ toks[n] \in Token \cup {NoToken}
    OBVIOUS
  <2>2. \A n \in Nodes : [st[n] EXCEPT !.rows = @ + 1, !.logits = toks[n]] \in StateRecord
    BY <2>1, StateUpdate
  <2>3. st' \in [Nodes -> StateRecord]
    <3>1. st \in [Nodes -> StateRecord] /\ ForwardedState \in [Nodes -> StateRecord]
      BY <2>1, <2>2 DEF ForwardedState
    <3>2. st' = ForwardedState \/ st' = st
      BY <1>4, ForwardOf
    <3> QED BY <3>1, <3>2
  <2> QED BY <1>4, <2>3 DEF EngineForward
<1>5. CASE EngineCommit
  <2>0. epoch' \in Nat
    <3>1. epoch \in Nat /\ Cardinality(batch) \in Nat
      BY BatchSize
    <3>2. epoch' = epoch + Cardinality(batch)
      BY <1>5, Zenon DEF EngineCommit
    <3> QED BY <3>1, <3>2
  <2>1. \A n \in batch : EpochOf(n) \in Nat
    BY EpochOfBounds
  <2>2. node' \in [Nodes -> NodeRecord]
    <3>1. node' = [n \in Nodes |->
                     IF n \in batch
                     THEN [node[n] EXCEPT !.want = FALSE, !.doneEpoch = EpochOf(n)]
                     ELSE node[n]]
      BY <1>5, Zenon DEF EngineCommit
    <3>2. \A n \in batch : [node[n] EXCEPT !.want = FALSE, !.doneEpoch = EpochOf(n)] \in NodeRecord
      BY <2>1, NodeUpdates
    <3>3. \A n \in Nodes : node[n] \in NodeRecord
      OBVIOUS
    <3> QED BY <3>1, <3>2, <3>3, Zenon
  <2> QED BY <1>5, <2>0, <2>2 DEF EngineCommit
<1>6. CASE EngineNotify
  BY <1>6 DEF EngineNotify, AllAwake, Awake
<1>7. ASSUME NEW w \in Workers, Arrive(w) \/ Worker(w)
      PROVE  TypeOK'
  <2>1. CASE Arrive(w)
    BY <2>1 DEF Arrive
  <2>2. CASE AcquireSlot(w)
    <3>1. PICK n \in free :
            /\ free' = free \ {n}
            /\ node' = [node EXCEPT ![n] =
                           [@ EXCEPT !.used = TRUE, !.want = FALSE, !.doneEpoch = 0]]
            /\ slot' = [slot EXCEPT ![w] = n]
      BY <2>2 DEF AcquireSlot
    <3>2. [node[n] EXCEPT !.used = TRUE, !.want = FALSE, !.doneEpoch = 0] \in NodeRecord
      BY NodeUpdates
    <3>3. node' \in [Nodes -> NodeRecord]
      BY <3>1, <3>2
    <3> QED BY <2>2, <3>1, <3>3 DEF AcquireSlot
  <2>3. CASE AcquireFull(w) \/ AcquireTimeout(w) \/ AcquireAgain(w) \/ AcquireSleep(w)
    BY <2>3 DEF AcquireFull, AcquireTimeout, AcquireAgain, AcquireSleep
  <2>4. CASE InitState(w)
    <3>1. slot[w] \in Nodes
      BY <2>4 DEF InitState, SlotInv, Holding
    <3>2. AllocatedState \in StateRecord
      BY DEF AllocatedState, StateRecord
    <3> QED BY <2>4, <3>1, <3>2 DEF InitState
  <2>5. CASE PrefillLock(w)
    BY <2>5 DEF PrefillLock
  <2>6. CASE Prefill(w)
    <3>1. slot[w] \in Nodes
      BY <2>6 DEF Prefill, SlotInv, Holding
    <3>2. st' \in [Nodes -> StateRecord]
      BY <2>6, <3>1 DEF Prefill, Token, StateRecord
    <3> QED BY <2>6, <3>1, <3>2 DEF Prefill
  <2>7. CASE SubmitToken(w)
    <3>1. slot[w] \in Nodes
      BY <2>7 DEF SubmitToken, SlotInv, Holding
    <3>2. gen' \in [Workers -> 0 .. MaxTokens - 1] /\ gen[w] + 1 \in Nat
      BY <2>7 DEF SubmitToken, TokensLeft
    <3>3. node' \in [Nodes -> NodeRecord]
      <4>1. <<w, gen[w] + 1>> \in Token
        BY <3>2 DEF Token
      <4>2. node[slot[w]] \in NodeRecord
        BY <3>1
      <4>3. [node[slot[w]] EXCEPT !.token = <<w, gen[w] + 1>>, !.want = TRUE,
                                  !.waitEpoch = epoch] \in NodeRecord
        BY <4>1, <4>2 DEF NodeRecord
      <4> QED BY <2>7, <3>1, <4>3 DEF SubmitToken
    <3> QED BY <2>7, <3>2, <3>3 DEF SubmitToken
  <2>8. CASE EndDecode(w)
    BY <2>8 DEF EndDecode
  <2>9. CASE StepSignal(w)
    BY <2>9 DEF StepSignal, Sleepers, Awake
  <2>10. CASE StepCheck(w) \/ StepSleep(w)
    BY <2>10 DEF StepCheck, StepSleep
  <2>11. CASE ReleaseSlot(w)
    <3>1. slot[w] \in Nodes
      BY <2>11 DEF ReleaseSlot, SlotInv, Holding
    <3>2. st' \in [Nodes -> StateRecord]
      BY <2>11, <3>1 DEF ReleaseSlot, FreedState, StateRecord
    <3>3. node' \in [Nodes -> NodeRecord]
      <4>1. [node[slot[w]] EXCEPT !.used = FALSE] \in NodeRecord
        BY <3>1, NodeUpdates
      <4> QED BY <2>11, <3>1, <4>1 DEF ReleaseSlot
    <3> QED BY <2>11, <3>1, <3>2, <3>3 DEF ReleaseSlot
  <2>12. CASE ReleaseNotify(w)
    BY <2>12 DEF ReleaseNotify, AllAwake, Awake, AwakeEngine
  <2> QED
    BY <1>7, <2>1, <2>2, <2>3, <2>4, <2>5, <2>6, <2>7, <2>8, <2>9, <2>10, <2>11, <2>12
    DEF Worker
<1>8. CASE Destroy
  BY <1>8 DEF Destroy, AwakeEngine
<1>9. CASE SpuriousWakeup
  BY <1>9 DEF SpuriousWakeup, Sleepers, Awake
<1>10. CASE UNCHANGED vars
  BY <1>10 DEF vars
<1> QED
  BY <1>1, <1>2, <1>3, <1>4, <1>5, <1>6, <1>7, <1>8, <1>9, <1>10 DEF Next, Engine

-----------------------------------------------------------------------------
\* Waking up keeps a worker's slot and its place inside or outside vb_step.
LEMMA AwakeKeeps ==
  \A at \in WorkerAt :
    /\ Awake(at) \in WorkerAt
    /\ Awake(at) \in Holding <=> at \in Holding
    /\ Awake(at) \in Stepping <=> at \in Stepping
    /\ Awake(at) # at => at \in {"slotAsleep", "stepAsleep"}
                       /\ Awake(at) \in {"acquire", "check"}
BY DEF Awake, WorkerAt, Holding, Stepping

\* What a commit writes, field by field.
LEMMA CommitEffect ==
  ASSUME TypeOK, EngineCommit, NEW n \in Nodes
  PROVE  /\ node'[n].used = node[n].used
         /\ node'[n].token = node[n].token
         /\ node'[n].waitEpoch = node[n].waitEpoch
         /\ n \in batch => ~node'[n].want /\ node'[n].doneEpoch = EpochOf(n)
         /\ n \notin batch => node'[n] = node[n]
<1> DEFINE e == EpochOf(n)
<1>1. node'[n] = IF n \in batch
                 THEN [node[n] EXCEPT !.want = FALSE, !.doneEpoch = e]
                 ELSE node[n]
  BY Zenon DEF EngineCommit
<1>2. node[n] \in NodeRecord
  BY DEF TypeOK
<1> HIDE DEF e
<1>3. CASE n \in batch
  BY <1>1, <1>2, <1>3 DEF NodeRecord, e
<1>4. CASE n \notin batch
  BY <1>1, <1>4
<1> QED BY <1>3, <1>4

\* A step that moves workers without claiming or giving back a slot.
LEMMA SlotFrame ==
  ASSUME TypeOK, SlotInv, UNCHANGED <<free, slot>>,
         \A n \in Nodes : node'[n].used = node[n].used,
         \A w \in Workers : wpc'[w] \in Holding <=> wpc[w] \in Holding
  PROVE  SlotInv'
BY DEF SlotInv

LEMMA SlotStep == TypeOK /\ SlotInv /\ [Next]_vars => SlotInv'
<1> SUFFICES ASSUME TypeOK, SlotInv, [Next]_vars PROVE SlotInv'
  OBVIOUS
<1> USE DEF schedVars, engineVars, workerVars, Goto
<1>1. CASE EngineScan \/ EngineSleep \/ EngineLock \/ EngineForward
  BY <1>1, SlotFrame DEF EngineScan, EngineSleep, EngineLock, EngineForward
<1>2. CASE EngineCommit
  <2>1. \A n \in Nodes : node'[n].used = node[n].used
    BY <1>2, CommitEffect
  <2> QED BY <1>2, <2>1, SlotFrame DEF EngineCommit
<1>3. CASE EngineNotify
  <2>1. \A w \in Workers : wpc'[w] \in Holding <=> wpc[w] \in Holding
    BY <1>3, AwakeKeeps DEF EngineNotify, AllAwake, TypeOK
  <2> QED BY <1>3, <2>1, SlotFrame DEF EngineNotify
<1>4. ASSUME NEW w \in Workers, Arrive(w) \/ Worker(w)
      PROVE  SlotInv'
  <2>1. CASE AcquireSlot(w)
    <3>1. PICK n \in free :
            /\ free' = free \ {n}
            /\ node' = [node EXCEPT ![n] =
                           [@ EXCEPT !.used = TRUE, !.want = FALSE, !.doneEpoch = 0]]
            /\ slot' = [slot EXCEPT ![w] = n]
      BY <2>1 DEF AcquireSlot
    <3>2. n \in Nodes /\ slot[w] \notin Nodes /\ wpc' = [wpc EXCEPT ![w] = "init"]
      BY <2>1 DEF AcquireSlot, TypeOK, SlotInv, Holding
    <3>3. /\ node'[n].used
          /\ \A m \in Nodes \ {n} : node'[m] = node[m]
      BY <3>1, <3>2 DEF TypeOK, NodeRecord
    <3>4. /\ slot'[w] = n /\ wpc'[w] = "init"
          /\ \A v \in Workers \ {w} : slot'[v] = slot[v] /\ wpc'[v] = wpc[v] /\ slot[v] # n
      BY <3>1, <3>2 DEF TypeOK, SlotInv
    <3> HIDE <2>1, <1>4
    <3> QED BY <3>1, <3>2, <3>3, <3>4 DEF SlotInv, Holding, TypeOK
  <2>2. CASE ReleaseSlot(w)
    <3>1. /\ slot[w] \in Nodes
          /\ slot' = [slot EXCEPT ![w] = NoNode]
          /\ wpc' = [wpc EXCEPT ![w] = "wake"]
          /\ free' = free \cup {slot[w]}
      BY <2>2 DEF ReleaseSlot, SlotInv, Holding
    <3>2. /\ ~node'[slot[w]].used
          /\ \A m \in Nodes \ {slot[w]} : node'[m] = node[m]
      BY <2>2, <3>1 DEF ReleaseSlot, TypeOK, NodeRecord
    <3>3. /\ slot'[w] = NoNode /\ wpc'[w] = "wake"
          /\ \A v \in Workers \ {w} :
               slot'[v] = slot[v] /\ wpc'[v] = wpc[v] /\ slot[v] # slot[w]
      BY <3>1 DEF TypeOK, SlotInv
    <3> HIDE <2>2, <1>4
    <3> QED BY <3>1, <3>2, <3>3, NodeFacts DEF SlotInv, Holding, TypeOK
  <2>3. CASE \/ Arrive(w) \/ AcquireFull(w) \/ AcquireTimeout(w) \/ AcquireAgain(w)
            \/ AcquireSleep(w) \/ InitState(w) \/ PrefillLock(w) \/ Prefill(w)
            \/ EndDecode(w) \/ StepCheck(w) \/ StepSleep(w)
    BY <2>3, SlotFrame
    DEF Arrive, AcquireFull, AcquireTimeout, AcquireAgain, AcquireSleep, InitState,
        PrefillLock, Prefill, EndDecode, StepCheck, StepSleep, TypeOK, Holding
  <2>4. CASE SubmitToken(w)
    <3>1. \A n \in Nodes : node'[n].used = node[n].used
      BY <2>4 DEF SubmitToken, TypeOK, NodeRecord
    <3>2. \A v \in Workers : wpc'[v] \in Holding <=> wpc[v] \in Holding
      BY <2>4 DEF SubmitToken, TypeOK, Holding
    <3> QED BY <2>4, <3>1, <3>2, SlotFrame DEF SubmitToken
  <2>5. CASE StepSignal(w)
    <3>1. \A v \in Workers : wpc'[v] \in Holding <=> wpc[v] \in Holding
      BY <2>5, AwakeKeeps DEF StepSignal, Sleepers, TypeOK, Holding
    <3> QED BY <2>5, <3>1, SlotFrame DEF StepSignal
  <2>6. CASE ReleaseNotify(w)
    <3>1. \A v \in Workers : wpc'[v] \in Holding <=> wpc[v] \in Holding
      BY <2>6, AwakeKeeps DEF ReleaseNotify, AllAwake, TypeOK, Holding
    <3> QED BY <2>6, <3>1, SlotFrame DEF ReleaseNotify
  <2> QED BY <1>4, <2>1, <2>2, <2>3, <2>4, <2>5, <2>6 DEF Worker
<1>5. CASE Destroy
  BY <1>5, SlotFrame DEF Destroy
<1>6. CASE SpuriousWakeup
  <2>1. \A v \in Workers : wpc'[v] \in Holding <=> wpc[v] \in Holding
    BY <1>6, AwakeKeeps DEF SpuriousWakeup, Sleepers, TypeOK, Holding
  <2> QED BY <1>6, <2>1, SlotFrame DEF SpuriousWakeup
<1>7. CASE UNCHANGED vars
  BY <1>7, SlotFrame DEF vars
<1> QED BY <1>1, <1>2, <1>3, <1>4, <1>5, <1>6, <1>7 DEF Next, Engine

-----------------------------------------------------------------------------
LEMMA EpochStep == TypeOK /\ SlotInv /\ EpochInv /\ [Next]_vars => EpochInv'
<1> SUFFICES ASSUME TypeOK, SlotInv, EpochInv, [Next]_vars PROVE EpochInv'
  OBVIOUS
<1> USE DEF schedVars, engineVars, workerVars, Goto
<1>1. CASE EngineCommit
  <2> SUFFICES ASSUME NEW n \in Nodes
               PROVE  node'[n].doneEpoch <= epoch' /\ node'[n].waitEpoch <= epoch'
    BY DEF EpochInv
  <2>1. epoch' = epoch + Cardinality(batch)
    BY <1>1, Zenon DEF EngineCommit
  <2>2. /\ epoch \in Nat /\ Cardinality(batch) \in Nat
        /\ node[n].doneEpoch \in Nat /\ node[n].waitEpoch \in Nat
    BY BatchSize DEF TypeOK, NodeRecord
  <2>3. node[n].doneEpoch <= epoch /\ node[n].waitEpoch <= epoch
    BY DEF EpochInv
  <2>4. node'[n].waitEpoch <= epoch'
    BY <1>1, <2>1, <2>2, <2>3, CommitEffect
  <2>5. CASE n \in batch
    BY <1>1, <2>1, <2>4, <2>5, CommitEffect, EpochOfBounds
  <2>6. CASE n \notin batch
    BY <1>1, <2>1, <2>2, <2>3, <2>6, CommitEffect
  <2> QED BY <2>4, <2>5, <2>6, <2>1
<1>2. ASSUME NEW w \in Workers, AcquireSlot(w)
      PROVE  EpochInv'
  BY <1>2 DEF AcquireSlot, TypeOK, NodeRecord, EpochInv
<1>3. ASSUME NEW w \in Workers, SubmitToken(w) \/ ReleaseSlot(w)
      PROVE  EpochInv'
  <2>1. slot[w] \in Nodes
    BY <1>3 DEF SubmitToken, ReleaseSlot, SlotInv, Holding
  <2>2. \A n \in Nodes : /\ node'[n].doneEpoch = node[n].doneEpoch
                        /\ node'[n].waitEpoch \in {node[n].waitEpoch, epoch}
    <3> SUFFICES ASSUME NEW n \in Nodes
                 PROVE  /\ node'[n].doneEpoch = node[n].doneEpoch
                        /\ node'[n].waitEpoch \in {node[n].waitEpoch, epoch}
      OBVIOUS
    <3>1. CASE n # slot[w]
      BY <1>3, <2>1, <3>1 DEF SubmitToken, ReleaseSlot, TypeOK
    <3>2. CASE n = slot[w] /\ SubmitToken(w)
      BY <2>1, <3>2 DEF SubmitToken, TypeOK, NodeRecord
    <3>3. CASE n = slot[w] /\ ReleaseSlot(w)
      BY <2>1, <3>3 DEF ReleaseSlot, TypeOK, NodeRecord
    <3> QED BY <1>3, <3>1, <3>2, <3>3
  <2>3. epoch' = epoch /\ epoch \in Nat
    BY <1>3 DEF SubmitToken, ReleaseSlot, TypeOK
  <2> QED BY <2>2, <2>3 DEF EpochInv
<1>4. CASE UNCHANGED <<node, epoch>>
  BY <1>4 DEF EpochInv
<1>5. ASSUME NEW w \in Workers, Arrive(w) \/ Worker(w),
             ~AcquireSlot(w), ~SubmitToken(w), ~ReleaseSlot(w)
      PROVE  UNCHANGED <<node, epoch>>
  BY <1>5
  DEF Worker, Arrive, AcquireFull, AcquireTimeout, AcquireAgain, AcquireSleep, InitState,
      PrefillLock, Prefill, EndDecode, StepSignal, StepCheck, StepSleep, ReleaseNotify
<1>6. ASSUME Engine \/ Destroy \/ SpuriousWakeup, ~EngineCommit
      PROVE  UNCHANGED <<node, epoch>>
  BY <1>6
  DEF Engine, EngineScan, EngineSleep, EngineLock, EngineForward, EngineNotify, Destroy,
      SpuriousWakeup
<1>7. CASE UNCHANGED vars
  BY <1>7, <1>4 DEF vars
<1> QED BY <1>1, <1>2, <1>3, <1>4, <1>5, <1>6, <1>7 DEF Next

LEMMA StopStep == TypeOK /\ StopInv /\ [Next]_vars => StopInv'
<1> SUFFICES ASSUME TypeOK, StopInv, [Next]_vars PROVE StopInv'
  OBVIOUS
<1> USE DEF schedVars, engineVars, workerVars, Goto, StopInv
<1>1. CASE Engine
  BY <1>1
  DEF Engine, EngineScan, EngineSleep, EngineLock, EngineForward, EngineCommit,
      EngineNotify, AllAwake, Awake, TypeOK
<1>2. ASSUME NEW w \in Workers, Arrive(w) \/ Worker(w)
      PROVE  ~stop /\ stop' = stop
  BY <1>2
  DEF Worker, Arrive, AcquireSlot, AcquireFull, AcquireTimeout, AcquireAgain, AcquireSleep,
      InitState, PrefillLock, Prefill, SubmitToken, EndDecode, StepSignal, StepCheck,
      StepSleep, ReleaseSlot, ReleaseNotify
<1>3. CASE Destroy
  BY <1>3 DEF Destroy
<1>4. CASE SpuriousWakeup
  BY <1>4 DEF SpuriousWakeup, Sleepers, Awake, TypeOK
<1>5. CASE UNCHANGED vars
  BY <1>5 DEF vars
<1> QED BY <1>1, <1>2, <1>3, <1>4, <1>5 DEF Next

-----------------------------------------------------------------------------
\* A step that takes nobody out of vb_step and raises no want_step.
LEMMA WantFrame ==
  ASSUME WantInv, UNCHANGED slot,
         \A n \in Nodes : node'[n].want => node[n].want,
         \A w \in Workers : wpc[w] \in Stepping => wpc'[w] \in Stepping
  PROVE  WantInv'
BY DEF WantInv

LEMMA WantStep ==
  TypeOK /\ SlotInv /\ WantInv /\ StateInv /\ [Next]_vars => WantInv'
<1> SUFFICES ASSUME TypeOK, SlotInv, WantInv, StateInv, [Next]_vars PROVE WantInv'
  OBVIOUS
<1> USE DEF schedVars, engineVars, workerVars, Goto
<1>1. CASE EngineScan \/ EngineSleep \/ EngineLock \/ EngineForward \/ Destroy
  BY <1>1, WantFrame
  DEF EngineScan, EngineSleep, EngineLock, EngineForward, Destroy
<1>2. CASE EngineCommit
  <2>1. \A n \in Nodes : node'[n].want => node[n].want
    BY <1>2, CommitEffect
  <2> QED BY <1>2, <2>1, WantFrame DEF EngineCommit
<1>3. CASE EngineNotify
  <2>1. \A w \in Workers : wpc[w] \in Stepping => wpc'[w] \in Stepping
    BY <1>3, AwakeKeeps DEF EngineNotify, AllAwake, TypeOK
  <2> QED BY <1>3, <2>1, WantFrame DEF EngineNotify
<1>4. ASSUME NEW w \in Workers, Arrive(w) \/ Worker(w)
      PROVE  WantInv'
  <2>1. CASE AcquireSlot(w)
    <3>1. PICK n \in free :
            /\ node' = [node EXCEPT ![n] =
                           [@ EXCEPT !.used = TRUE, !.want = FALSE, !.doneEpoch = 0]]
            /\ slot' = [slot EXCEPT ![w] = n]
      BY <2>1 DEF AcquireSlot
    <3>2. /\ ~node'[n].want
          /\ \A m \in Nodes \ {n} : node'[m] = node[m]
      BY <3>1 DEF TypeOK, NodeRecord
    <3>3. /\ wpc[w] \notin Stepping
          /\ \A v \in Workers \ {w} : slot'[v] = slot[v] /\ wpc'[v] = wpc[v]
      BY <2>1, <3>1 DEF AcquireSlot, Stepping, TypeOK
    <3> QED BY <3>2, <3>3 DEF WantInv
  <2>2. CASE ReleaseSlot(w)
    <3>1. /\ slot[w] \in Nodes /\ wpc[w] \notin Stepping
          /\ \A v \in Workers \ {w} : slot'[v] = slot[v] /\ wpc'[v] = wpc[v]
      BY <2>2 DEF ReleaseSlot, Stepping, Holding, TypeOK, SlotInv
    <3>2. \A n \in Nodes : node'[n].want = node[n].want
      BY <2>2, <3>1 DEF ReleaseSlot, TypeOK, NodeRecord
    <3> QED BY <3>1, <3>2 DEF WantInv
  <2>3. CASE \/ Arrive(w) \/ AcquireFull(w) \/ AcquireTimeout(w) \/ AcquireAgain(w)
            \/ AcquireSleep(w) \/ InitState(w) \/ PrefillLock(w) \/ Prefill(w)
            \/ EndDecode(w) \/ StepSleep(w)
    BY <2>3, WantFrame
    DEF Arrive, AcquireFull, AcquireTimeout, AcquireAgain, AcquireSleep, InitState,
        PrefillLock, Prefill, EndDecode, StepSleep, TypeOK, Stepping
  <2>4. CASE StepCheck(w)
    <3>1. /\ slot[w] \in Nodes
          /\ \A v \in Workers \ {w} : wpc'[v] = wpc[v]
          /\ slot' = slot /\ node' = node
      BY <2>4 DEF StepCheck, TypeOK, SlotInv, Holding
    <3>2. node[slot[w]].want => ~StepDone(slot[w])
      BY <2>4 DEF StepCheck, StateInv, StateOf, Waiting, Stepping
    <3>3. node[slot[w]].want => wpc'[w] \in Stepping
      BY <2>4, <3>2 DEF StepCheck, TypeOK, Stepping
    <3> QED BY <3>1, <3>3 DEF WantInv
  <2>5. CASE SubmitToken(w)
    <3>1. /\ slot[w] \in Nodes /\ wpc'[w] \in Stepping
          /\ \A v \in Workers \ {w} : wpc'[v] = wpc[v]
          /\ slot' = slot
      BY <2>5 DEF SubmitToken, TypeOK, SlotInv, Holding, Stepping
    <3>2. \A n \in Nodes \ {slot[w]} : node'[n] = node[n]
      BY <2>5, <3>1 DEF SubmitToken, TypeOK
    <3>3. wpc[w] \notin Stepping
      BY <2>5 DEF SubmitToken, Stepping
    <3> QED BY <3>1, <3>2, <3>3 DEF WantInv
  <2>6. CASE StepSignal(w) \/ ReleaseNotify(w)
    <3>1. \A v \in Workers : wpc[v] \in Stepping => wpc'[v] \in Stepping
      <4>1. CASE StepSignal(w)
        BY <4>1, AwakeKeeps DEF StepSignal, Sleepers, TypeOK, Stepping
      <4>2. CASE ReleaseNotify(w)
        BY <4>2, AwakeKeeps DEF ReleaseNotify, AllAwake, TypeOK, Stepping
      <4> QED BY <2>6, <4>1, <4>2
    <3> QED BY <2>6, <3>1, WantFrame DEF StepSignal, ReleaseNotify
  <2> QED BY <1>4, <2>1, <2>2, <2>3, <2>4, <2>5, <2>6 DEF Worker
<1>5. CASE SpuriousWakeup
  <2>1. \A v \in Workers : wpc[v] \in Stepping => wpc'[v] \in Stepping
    BY <1>5, AwakeKeeps DEF SpuriousWakeup, Sleepers, TypeOK, Stepping
  <2> QED BY <1>5, <2>1, WantFrame DEF SpuriousWakeup
<1>6. CASE UNCHANGED vars
  BY <1>6, WantFrame DEF vars
<1> QED BY <1>1, <1>2, <1>3, <1>4, <1>5, <1>6 DEF Next, Engine

\* Who holds a slot with want_step set is inside vb_step.
LEMMA WantedElsewhere ==
  ASSUME TypeOK, SlotInv, WantInv, NEW w \in Workers, wpc[w] \notin Stepping,
         NEW n \in Nodes, node[n].want
  PROVE  slot[w] # n /\ n \notin free
BY DEF SlotInv, WantInv

LEMMA BatchStep ==
  TypeOK /\ SlotInv /\ WantInv /\ BatchInv /\ [Next]_vars => BatchInv'
<1> SUFFICES ASSUME TypeOK, SlotInv, WantInv, BatchInv, [Next]_vars PROVE BatchInv'
  OBVIOUS
<1> USE DEF schedVars, engineVars, workerVars, Goto
<1> batch \subseteq Nodes
  BY DEF TypeOK
<1>1. CASE EngineScan
  BY <1>1 DEF EngineScan, Pending, BatchInv, TypeOK
<1>2. CASE EngineSleep \/ EngineLock \/ EngineForward \/ EngineNotify
  BY <1>2 DEF EngineSleep, EngineLock, EngineForward, EngineNotify, BatchInv
<1>3. CASE EngineCommit
  BY <1>3, Zenon DEF EngineCommit, BatchInv
<1>4. ASSUME NEW w \in Workers, AcquireSlot(w)
      PROVE  BatchInv'
  <2>1. PICK n \in free :
          node' = [node EXCEPT ![n] =
                     [@ EXCEPT !.used = TRUE, !.want = FALSE, !.doneEpoch = 0]]
    BY <1>4 DEF AcquireSlot
  <2>2. wpc[w] \notin Stepping /\ UNCHANGED <<epc, batch, toks>>
    BY <1>4 DEF AcquireSlot, Stepping
  <2>3. \A m \in Nodes : node[m].want => node'[m] = node[m]
    BY <2>1, <2>2, WantedElsewhere DEF TypeOK
  <2> QED BY <2>2, <2>3 DEF BatchInv
<1>5. ASSUME NEW w \in Workers, SubmitToken(w) \/ ReleaseSlot(w)
      PROVE  BatchInv'
  <2>1. wpc[w] \notin Stepping /\ UNCHANGED <<epc, batch, toks>>
    BY <1>5 DEF SubmitToken, ReleaseSlot, Stepping
  <2>2. \A m \in Nodes : node[m].want => node'[m] = node[m]
    BY <1>5, <2>1, WantedElsewhere DEF SubmitToken, ReleaseSlot, TypeOK
  <2> QED BY <2>1, <2>2 DEF BatchInv
<1>6. ASSUME NEW w \in Workers, Arrive(w) \/ Worker(w),
             ~AcquireSlot(w), ~SubmitToken(w), ~ReleaseSlot(w)
      PROVE  BatchInv'
  BY <1>6
  DEF Worker, Arrive, AcquireFull, AcquireTimeout, AcquireAgain, AcquireSleep, InitState,
      PrefillLock, Prefill, EndDecode, StepSignal, StepCheck, StepSleep, ReleaseNotify,
      AwakeEngine, BatchInv
<1>7. CASE Destroy \/ SpuriousWakeup
  BY <1>7 DEF Destroy, SpuriousWakeup, AwakeEngine, BatchInv
<1>8. CASE UNCHANGED vars
  BY <1>8 DEF vars, BatchInv
<1> QED BY <1>1, <1>2, <1>3, <1>4, <1>5, <1>6, <1>7, <1>8 DEF Next, Engine

-----------------------------------------------------------------------------
\* Where a worker stands, as far as StateOf tells places apart.
Place(at) ==
  CASE at \in {"prefill", "prefilling"} -> "loading"
    [] at = "decode" -> "decoding"
    [] at \in Stepping -> "stepping"
    [] OTHER -> "elsewhere"

\* A worker that stays where StateOf left it, with its slot untouched.
LEMMA StateFrame ==
  ASSUME SlotInv, StateInv, NEW w \in Workers,
         Place(wpc'[w]) = Place(wpc[w]) \/ Place(wpc'[w]) = "elsewhere",
         slot'[w] = slot[w], gen'[w] = gen[w],
         slot[w] \in Nodes => /\ node'[slot[w]] = node[slot[w]]
                              /\ st'[slot[w]] = st[slot[w]]
                              /\ Forwarded(slot[w])' <=> Forwarded(slot[w])
  PROVE  StateOf(w)'
<1>1. CASE Place(wpc'[w]) = "elsewhere"
  BY <1>1 DEF StateOf, Place, Stepping
<1>2. CASE Place(wpc'[w]) # "elsewhere"
  <2>1. Place(wpc[w]) = Place(wpc'[w])
    BY <1>2
  <2>2. slot[w] \in Nodes /\ StateOf(w)
    BY <1>2, <2>1 DEF SlotInv, Place, Holding, Stepping, StateInv
  <2>3. CASE wpc'[w] \in {"prefill", "prefilling"}
    BY <2>1, <2>2, <2>3 DEF StateOf, Place, Stepping, Fresh
  <2>4. CASE wpc'[w] = "decode"
    BY <2>1, <2>2, <2>4 DEF StateOf, Place, Stepping, Current
  <2>5. CASE wpc'[w] \in Stepping
    <3>1. wpc[w] \in Stepping
      BY <2>1, <2>5 DEF Place, Stepping
    <3>2. Waiting(w)
      BY <2>2, <3>1 DEF StateOf
    <3>3. Waiting(w)'
      BY <2>2, <3>2 DEF Waiting, Behind, Current, StepDone
    <3> QED BY <2>5, <3>3 DEF StateOf, Stepping
  <2> QED BY <2>3, <2>4, <2>5 DEF StateOf
<1> QED BY <1>1, <1>2

\* A step of a worker leaves alone the workers that hold other slots.
LEMMA StateElsewhere ==
  ASSUME TypeOK, SlotInv, StateInv, NEW w \in Workers, NEW s \in Nodes,
         UNCHANGED <<epc, batch>>,
         \A n \in Nodes \ {s} : node'[n] = node[n] /\ st'[n] = st[n],
         \A v \in Workers \ {w} :
           /\ slot[v] # s
           /\ slot'[v] = slot[v] /\ gen'[v] = gen[v] /\ wpc'[v] = wpc[v],
         StateOf(w)'
  PROVE  StateInv'
<1>1. ASSUME NEW v \in Workers \ {w} PROVE StateOf(v)'
  <2>1. /\ Place(wpc'[v]) = Place(wpc[v])
        /\ slot'[v] = slot[v] /\ gen'[v] = gen[v]
    BY <1>1 DEF Place
  <2>2. slot[v] \in Nodes => /\ node'[slot[v]] = node[slot[v]]
                             /\ st'[slot[v]] = st[slot[v]]
    BY <1>1
  <2>3. Forwarded(slot[v])' <=> Forwarded(slot[v])
    BY <1>1 DEF Forwarded
  <2> QED BY <2>1, <2>2, <2>3, StateFrame
<1> QED BY <1>1 DEF StateInv

\* The steps of a worker that change neither a state nor the slot table.
LEMMA StateMove ==
  ASSUME TypeOK, SlotInv, StateInv, UNCHANGED <<slot, gen, node, st>>,
         \A n \in Nodes : Forwarded(n)' <=> Forwarded(n),
         \A w \in Workers : \/ Place(wpc'[w]) = Place(wpc[w])
                            \/ Place(wpc'[w]) = "elsewhere"
  PROVE  StateInv'
<1>1. ASSUME NEW w \in Workers PROVE StateOf(w)'
  <2>1. slot[w] \in Nodes => (Forwarded(slot[w])' <=> Forwarded(slot[w]))
    BY DEF Forwarded
  <2> QED BY <2>1, StateFrame
<1> QED BY <1>1 DEF StateInv

\* The batch a forward or a commit works on belongs to workers inside vb_step.
LEMMA BatchHolders ==
  ASSUME SlotInv, WantInv, BatchInv, epc \in {"lock", "forward", "commit"},
         NEW w \in Workers, slot[w] \in batch, slot[w] \in Nodes
  PROVE  wpc[w] \in Stepping /\ node[slot[w]].want
BY DEF SlotInv, WantInv, BatchInv

\* The forward gives each collected state its own worker's token.
LEMMA ForwardState == IInv /\ EngineForward => StateInv'
<1> SUFFICES ASSUME IInv, EngineForward, NEW w \in Workers
             PROVE  StateOf(w)'
  BY DEF StateInv
<1> USE DEF schedVars, workerVars, IInv
<1> DEFINE n == slot[w]
<1>1. CASE n \in batch /\ n \in Nodes
  <2>1. wpc[w] \in Stepping /\ node[n].want /\ Waiting(w) /\ ~stop
    BY <1>1, BatchHolders DEF EngineForward, StateInv, StateOf, StopInv, Stepping
  <2>2. /\ st[n].live /\ Behind(w)
        /\ node[n].token = <<w, gen[w]>> /\ toks[n] = node[n].token
        /\ node[n].want /\ ~StepDone(n)
    BY <1>1, <2>1 DEF Waiting, Forwarded, EngineForward, BatchInv
  <2>3. \/ st'[n] = [st[n] EXCEPT !.rows = @ + 1, !.logits = toks[n]]
        \/ ScratchFails /\ st'[n] = st[n]
    BY <1>1, <2>1, ForwardOf DEF ForwardedState
  <2>4. st[n] \in StateRecord
    BY <1>1 DEF TypeOK
  <2>5. st[n].rows + 1 \in Nat
    BY <2>4 DEF StateRecord
  <2>6. /\ st'[n].live
        /\ ScratchFails \/ (st'[n].rows = gen[w] /\ st'[n].logits = <<w, gen[w]>>)
    BY <2>2, <2>3, <2>4, <2>5 DEF StateRecord, Behind
  <2>7. Waiting(w)'
    BY <1>1, <2>1, <2>2, <2>6 DEF Waiting, Current, StepDone, Forwarded, EngineForward
  <2> QED BY <2>1, <2>7 DEF StateOf, EngineForward, Stepping
<1>2. CASE ~(n \in batch /\ n \in Nodes)
  <2>1. n \in Nodes => st'[n] = st[n]
    <3>1. CASE st' = ForwardedState
      BY <1>2, <3>1 DEF ForwardedState
    <3>2. CASE st' = st
      BY <3>2
    <3> QED BY <3>1, <3>2, ForwardOf
  <2>2. n \in Nodes => (Forwarded(n)' <=> Forwarded(n))
    BY <1>2 DEF EngineForward, Forwarded
  <2> QED BY <2>1, <2>2, StateFrame DEF EngineForward
<1> QED BY <1>1, <1>2

\* The commit turns every collected token from wanted to done.
LEMMA CommitState == IInv /\ EngineCommit => StateInv'
<1> SUFFICES ASSUME IInv, EngineCommit, NEW w \in Workers
             PROVE  StateOf(w)'
  BY DEF StateInv
<1> USE DEF workerVars, IInv
<1> DEFINE n == slot[w]
<1>0. /\ epc = "commit" /\ epc' = "notify"
      /\ wpc' = wpc /\ slot' = slot /\ gen' = gen /\ st' = st
  BY Zenon DEF EngineCommit
<1>1. CASE n \in batch /\ n \in Nodes
  <2>1. wpc[w] \in Stepping /\ node[n].want /\ Waiting(w)
    BY <1>0, <1>1, BatchHolders DEF StateInv, StateOf
  <2>2. st[n].live /\ node[n].token = <<w, gen[w]>> /\ Current(w)
    BY <1>0, <1>1, <2>1 DEF Waiting, Forwarded
  <2>3. /\ node'[n].token = node[n].token
        /\ node'[n].waitEpoch = node[n].waitEpoch
        /\ ~node'[n].want /\ node'[n].doneEpoch = EpochOf(n)
    BY <1>1, CommitEffect
  <2>4. node'[n].doneEpoch > node'[n].waitEpoch
    <3>1. EpochOf(n) \in Nat /\ epoch < EpochOf(n)
      BY <1>1, EpochOfBounds
    <3>2. node[n].waitEpoch <= epoch /\ epoch \in Nat /\ node[n].waitEpoch \in Nat
      BY <1>1 DEF EpochInv, TypeOK, NodeRecord
    <3> HIDE DEF n
    <3> QED BY <2>3, <3>1, <3>2
  <2>5. Waiting(w)'
    BY <1>0, <2>2, <2>3, <2>4 DEF Waiting, Current, StepDone
  <2> QED BY <1>0, <2>1, <2>5 DEF StateOf, Stepping
<1>2. CASE n \notin batch /\ n \in Nodes
  <2>1. node'[n] = node[n]
    BY <1>2, CommitEffect
  <2>2. Forwarded(n)' <=> Forwarded(n)
    BY <1>0, <1>2 DEF Forwarded
  <2> QED BY <1>0, <2>1, <2>2, StateFrame
<1>3. CASE n \notin Nodes
  BY <1>0, <1>3, StateFrame
<1> QED BY <1>1, <1>2, <1>3

\* The steps of a worker that touch its own state or slot.
LEMMA WorkerState ==
  ASSUME IInv, NEW w \in Workers,
         \/ AcquireSlot(w) \/ InitState(w) \/ Prefill(w) \/ SubmitToken(w)
         \/ StepCheck(w) \/ ReleaseSlot(w)
  PROVE  StateInv'
<1> USE DEF schedVars, engineVars, workerVars, Goto, IInv
<1>1. CASE AcquireSlot(w)
  <2>1. PICK n \in free :
          /\ node' = [node EXCEPT ![n] =
                        [@ EXCEPT !.used = TRUE, !.want = FALSE, !.doneEpoch = 0]]
          /\ slot' = [slot EXCEPT ![w] = n]
    BY <1>1 DEF AcquireSlot
  <2>2. n \in Nodes /\ \A m \in Nodes \ {n} : node'[m] = node[m] /\ st'[m] = st[m]
    BY <1>1, <2>1 DEF AcquireSlot, TypeOK
  <2>3. \A v \in Workers \ {w} :
          /\ slot[v] # n
          /\ slot'[v] = slot[v] /\ gen'[v] = gen[v] /\ wpc'[v] = wpc[v]
    <3>1. \A v \in Workers : slot[v] # n
      BY <2>2 DEF SlotInv
    <3>2. \A v \in Workers \ {w} : slot'[v] = slot[v]
      BY <2>1 DEF TypeOK
    <3>3. \A v \in Workers \ {w} : gen'[v] = gen[v] /\ wpc'[v] = wpc[v]
      BY <1>1 DEF AcquireSlot, TypeOK
    <3> QED BY <3>1, <3>2, <3>3
  <2>4. StateOf(w)'
    BY <1>1 DEF AcquireSlot, TypeOK, StateOf, Stepping
  <2>5. UNCHANGED <<epc, batch>>
    BY <1>1 DEF AcquireSlot
  <2> QED BY <2>2, <2>3, <2>4, <2>5, StateElsewhere
<1> DEFINE s == slot[w]
<1>2. ASSUME InitState(w) \/ Prefill(w) \/ SubmitToken(w) \/ StepCheck(w) \/ ReleaseSlot(w),
             StateOf(w)'
      PROVE  StateInv'
  <2>1. s \in Nodes
    BY <1>2
    DEF InitState, Prefill, SubmitToken, StepCheck, ReleaseSlot, SlotInv, Holding
  <2>2. UNCHANGED <<epc, batch>>
    BY <1>2 DEF InitState, Prefill, SubmitToken, StepCheck, ReleaseSlot
  <2>3. \A m \in Nodes \ {s} : node'[m] = node[m] /\ st'[m] = st[m]
    BY <1>2, <2>1
    DEF InitState, Prefill, SubmitToken, StepCheck, ReleaseSlot, TypeOK
  <2>4. \A v \in Workers \ {w} :
          slot'[v] = slot[v] /\ gen'[v] = gen[v] /\ wpc'[v] = wpc[v]
    BY <1>2 DEF InitState, Prefill, SubmitToken, StepCheck, ReleaseSlot, TypeOK
  <2>5. \A v \in Workers \ {w} : slot[v] # s
    BY <2>1 DEF SlotInv
  <2> QED BY <1>2, <2>1, <2>2, <2>3, <2>4, <2>5, StateElsewhere
<1>3. CASE InitState(w)
  <2>1. s \in Nodes
    BY <1>3 DEF InitState, SlotInv, Holding
  <2>2. CASE wpc' = [wpc EXCEPT ![w] = "release"]
    BY <1>2, <1>3, <2>2 DEF TypeOK, StateOf, Stepping
  <2>3. CASE /\ st' = [st EXCEPT ![s] = AllocatedState]
             /\ wpc' = [wpc EXCEPT ![w] = "prefill"]
    <3>1. st'[s] = AllocatedState /\ slot'[w] = s /\ gen'[w] = 0 /\ wpc'[w] = "prefill"
      BY <1>3, <2>1, <2>3 DEF InitState, TypeOK
    <3>2. StateOf(w)'
      BY <3>1 DEF StateOf, Fresh, AllocatedState, Stepping
    <3> QED BY <1>2, <1>3, <3>2
  <2> QED BY <1>3, <2>2, <2>3 DEF InitState
<1>4. CASE Prefill(w)
  <2>1. s \in Nodes
    BY <1>4 DEF Prefill, SlotInv, Holding
  <2>2. CASE wpc' = [wpc EXCEPT ![w] = "release"]
    BY <1>2, <1>4, <2>2 DEF TypeOK, StateOf, Stepping
  <2>3. CASE /\ st' = [st EXCEPT ![s] = [@ EXCEPT !.logits = <<w, 0>>]]
             /\ wpc' = [wpc EXCEPT ![w] = "decode"]
    <3>1. /\ st'[s].live = st[s].live /\ st'[s].rows = st[s].rows
          /\ st'[s].logits = <<w, 0>>
      BY <2>1, <2>3 DEF TypeOK, StateRecord
    <3>2. slot'[w] = s /\ gen'[w] = gen[w] /\ wpc'[w] = "decode"
      BY <1>4, <2>3 DEF Prefill, TypeOK
    <3>3. Fresh(w)
      BY <1>4 DEF Prefill, StateInv, StateOf
    <3>4. StateOf(w)'
      BY <3>1, <3>2, <3>3 DEF StateOf, Fresh, Current, Stepping
    <3> QED BY <1>2, <1>4, <3>4
  <2> QED BY <1>4, <2>2, <2>3 DEF Prefill
<1>5. CASE SubmitToken(w)
  <2>1. s \in Nodes /\ wpc[w] = "decode" /\ wpc[w] \notin Stepping
    BY <1>5 DEF SubmitToken, SlotInv, Holding, Stepping
  <2>2. /\ gen'[w] = gen[w] + 1 /\ slot'[w] = s /\ wpc'[w] = "signal"
        /\ st' = st /\ gen[w] \in Nat
    BY <1>5, MaxTokensAssumption DEF SubmitToken, TypeOK
  <2>3. /\ node'[s].want /\ node'[s].token = <<w, gen[w] + 1>>
        /\ node'[s].waitEpoch = epoch /\ node'[s].doneEpoch = node[s].doneEpoch
    BY <1>5, <2>1 DEF SubmitToken, TypeOK, NodeRecord
  <2>4. node[s].doneEpoch <= epoch /\ node[s].doneEpoch \in Nat /\ epoch \in Nat
    BY <2>1 DEF EpochInv, TypeOK, NodeRecord
  <2>5. ~StepDone(s)'
    BY <2>2, <2>3, <2>4 DEF StepDone
  <2>6. ~Forwarded(s)'
    BY <1>5, <2>1, BatchHolders DEF SubmitToken, Forwarded
  <2>7. st[s].live /\ Current(w)
    BY <2>1 DEF StateInv, StateOf
  <2>8. Waiting(w)'
    BY <2>2, <2>3, <2>5, <2>6, <2>7 DEF Waiting, Behind, Current, StepDone, Forwarded
  <2>9. StateOf(w)'
    BY <2>2, <2>8 DEF StateOf, Stepping
  <2> QED BY <1>2, <1>5, <2>9
<1>6. CASE StepCheck(w)
  <2>1. s \in Nodes /\ wpc[w] \in Stepping
    BY <1>6 DEF StepCheck, SlotInv, Holding, Stepping
  <2>2. Waiting(w)
    BY <2>1 DEF StateInv, StateOf
  <2>3. CASE StepDone(s)
    <3>1. st[s].live /\ Current(w)
      BY <2>2, <2>3 DEF Waiting
    <3>2. wpc'[w] = "decode"
      BY <1>6, <2>3 DEF StepCheck, TypeOK
    <3>3. StateOf(w)'
      BY <1>6, <3>1, <3>2 DEF StateOf, Stepping, Current, StepCheck
    <3> QED BY <1>2, <1>6, <3>3
  <2>4. CASE ~StepDone(s)
    <3>1. Place(wpc'[w]) = Place(wpc[w])
      BY <1>6, <2>4 DEF StepCheck, TypeOK, Place, Stepping
    <3>2. StateOf(w)'
      BY <1>6, <3>1, StateFrame DEF StepCheck, Forwarded
    <3> QED BY <1>2, <1>6, <3>2
  <2> QED BY <2>3, <2>4
<1>7. CASE ReleaseSlot(w)
  <2>1. StateOf(w)'
    BY <1>7 DEF ReleaseSlot, TypeOK, StateOf, Stepping
  <2> QED BY <1>2, <1>7, <2>1
<1> QED BY <1>1, <1>3, <1>4, <1>5, <1>6, <1>7

LEMMA StateStep == IInv /\ [Next]_vars => StateInv'
<1> SUFFICES ASSUME IInv, [Next]_vars PROVE StateInv'
  OBVIOUS
<1> USE DEF schedVars, engineVars, workerVars, Goto, IInv
<1>1. CASE EngineScan \/ EngineSleep \/ EngineLock \/ Destroy
  BY <1>1, StateMove
  DEF EngineScan, EngineSleep, EngineLock, Destroy, AwakeEngine, Forwarded
<1>2. CASE EngineForward
  BY <1>2, ForwardState
<1>3. CASE EngineCommit
  BY <1>3, CommitState
<1>4. CASE EngineNotify
  <2>1. \A w \in Workers : \/ Place(wpc'[w]) = Place(wpc[w])
                           \/ Place(wpc'[w]) = "elsewhere"
    BY <1>4 DEF EngineNotify, AllAwake, Awake, Place, Stepping
  <2> QED BY <1>4, <2>1, StateMove DEF EngineNotify, Forwarded
<1>5. ASSUME NEW w \in Workers, Arrive(w) \/ Worker(w)
      PROVE  StateInv'
  <2>1. CASE \/ AcquireSlot(w) \/ InitState(w) \/ Prefill(w) \/ SubmitToken(w)
             \/ StepCheck(w) \/ ReleaseSlot(w)
    BY <2>1, WorkerState
  <2>2. CASE \/ Arrive(w) \/ AcquireFull(w) \/ AcquireTimeout(w) \/ AcquireAgain(w)
             \/ AcquireSleep(w) \/ PrefillLock(w) \/ EndDecode(w) \/ StepSleep(w)
    <3>1. \A v \in Workers : \/ Place(wpc'[v]) = Place(wpc[v])
                             \/ Place(wpc'[v]) = "elsewhere"
      BY <2>2
      DEF Arrive, AcquireFull, AcquireTimeout, AcquireAgain, AcquireSleep, PrefillLock,
          EndDecode, StepSleep, TypeOK, Place, Stepping
    <3>2. UNCHANGED <<slot, gen, node, st, epc, batch>>
      BY <2>2
      DEF Arrive, AcquireFull, AcquireTimeout, AcquireAgain, AcquireSleep, PrefillLock,
          EndDecode, StepSleep
    <3> QED BY <3>1, <3>2, StateMove DEF Forwarded
  <2>3. CASE StepSignal(w)
    <3>1. \A v \in Workers : \/ Place(wpc'[v]) = Place(wpc[v])
                             \/ Place(wpc'[v]) = "elsewhere"
      BY <2>3 DEF StepSignal, Sleepers, Awake, TypeOK, Place, Stepping
    <3> QED BY <2>3, <3>1, StateMove DEF StepSignal, Forwarded
  <2>4. CASE ReleaseNotify(w)
    <3>1. \A v \in Workers : \/ Place(wpc'[v]) = Place(wpc[v])
                             \/ Place(wpc'[v]) = "elsewhere"
      BY <2>4 DEF ReleaseNotify, AllAwake, Awake, TypeOK, Place, Stepping
    <3> QED BY <2>4, <3>1, StateMove DEF ReleaseNotify, AwakeEngine, Forwarded
  <2> QED BY <1>5, <2>1, <2>2, <2>3, <2>4 DEF Worker
<1>6. CASE SpuriousWakeup
  <2>1. \A v \in Workers : \/ Place(wpc'[v]) = Place(wpc[v])
                           \/ Place(wpc'[v]) = "elsewhere"
    BY <1>6 DEF SpuriousWakeup, Sleepers, Awake, TypeOK, Place, Stepping
  <2> QED BY <1>6, <2>1, StateMove DEF SpuriousWakeup, Forwarded
<1>7. CASE UNCHANGED vars
  BY <1>7, StateMove DEF vars, Place, Forwarded
<1> QED BY <1>1, <1>2, <1>3, <1>4, <1>5, <1>6, <1>7 DEF Next, Engine

-----------------------------------------------------------------------------
\* Every reachable state of the scheduler satisfies IInv: each conjunct is
\* preserved by each step of the engine and of the workers, given the others.
THEOREM Invariance == Spec => []IInv
<1>1. Init => IInv
  BY InitInv
<1>2. IInv /\ [Next]_vars => IInv'
  <2> SUFFICES ASSUME IInv, [Next]_vars PROVE IInv'
    OBVIOUS
  <2>1. TypeOK' /\ SlotInv' /\ EpochInv'
    BY TypeStep, SlotStep, EpochStep DEF IInv
  <2>2. WantInv' /\ BatchInv' /\ StopInv'
    BY WantStep, BatchStep, StopStep DEF IInv
  <2>3. StateInv'
    BY StateStep
  <2> QED BY <2>1, <2>2, <2>3 DEF IInv
<1> QED BY <1>1, <1>2, PTL DEF Spec

\* The fields of the scheduler and of its threads keep their types.
THEOREM TypeCorrect == Spec => []TypeOK
<1>1. IInv => TypeOK
  BY DEF IInv
<1> QED BY <1>1, Invariance, PTL

\* vllm_batch_run samples each token from its own request's logits, with every
\* token it handed to vb_step forwarded exactly once, as long as no forward fails.
THEOREM SamplesOwnLogits ==
  ASSUME ~ScratchFails
  PROVE  Spec => []ExactlyOnce
<1>1. IInv => ExactlyOnce
  BY DEF IInv, StateInv, StateOf, Current, ExactlyOnce
<1> QED BY <1>1, Invariance, PTL

\* Between collecting its list and writing it back the engine, which holds no
\* slot lock, works on slots whose owners stay in vb_step.
THEOREM BatchStaysOwned == Spec => []BatchIsStable
<1>1. IInv => BatchIsStable
  <2> SUFFICES ASSUME IInv, epc \in {"lock", "forward", "commit"}, NEW n \in batch
               PROVE  /\ st[n].live
                      /\ \E w \in Workers :
                           slot[w] = n /\ wpc[w] \in Stepping /\ toks[n] = <<w, gen[w]>>
    BY DEF BatchIsStable
  <2>1. n \in Nodes /\ node[n].want /\ toks[n] = node[n].token
    BY DEF IInv, TypeOK, BatchInv
  <2>2. PICK w \in Workers : slot[w] = n /\ wpc[w] \in Stepping
    BY <2>1 DEF IInv, WantInv
  <2>3. Waiting(w)
    BY <2>2 DEF IInv, StateInv, StateOf
  <2>4. st[n].live /\ node[n].token = <<w, gen[w]>>
    BY <2>2, <2>3 DEF Waiting
  <2> QED BY <2>1, <2>2, <2>4
<1> QED BY <1>1, Invariance, PTL

\* vb_acquire and vb_release neither leak nor double-book a slot.
THEOREM SlotsConserved == Spec => []SlotsPartitioned
<1>1. IInv => SlotsPartitioned
  BY DEF IInv, SlotInv, SlotsPartitioned
<1> QED BY <1>1, Invariance, PTL

\* A token handed to vb_step is still wanted or already done while its worker waits.
THEOREM NoStepDropped == Spec => []StepNotDropped
<1>1. IInv => StepNotDropped
  <2> SUFFICES ASSUME IInv, NEW w \in Workers, wpc[w] \in Stepping
               PROVE  node[slot[w]].want \/ StepDone(slot[w])
    BY DEF StepNotDropped
  <2>1. Waiting(w)
    BY DEF IInv, StateInv, StateOf
  <2> QED BY <2>1 DEF Waiting
<1> QED BY <1>1, Invariance, PTL

-----------------------------------------------------------------------------
(***************************************************************************)
(* The refinement of LockstepDecode.                                       *)
(***************************************************************************)
\* A slot that nobody has prefilled has forwarded nothing.
UnusedInv ==
  /\ \A n \in free : st[n].rows = 0
  /\ \A w \in Workers : wpc[w] = "init" => st[slot[w]].rows = 0

\* The slots the engine has collected are in vb_step's hands.
LEMMA CollectedAreStepping ==
  ASSUME IInv, epc \in {"lock", "forward", "commit"}, NEW n \in batch
  PROVE  \E w \in Workers : slot[w] = n /\ wpc[w] \in Stepping
BY DEF IInv, BatchInv, WantInv, TypeOK

\* At first every slot is free and has forwarded nothing.
LEMMA UnusedInit == Init => UnusedInv
BY DEF Init, UnusedInv, FreedState

\* A slot leaves the free list as it came, and comes back freed.
LEMMA UnusedStep == IInv /\ UnusedInv /\ [Next]_vars => UnusedInv'
<1> SUFFICES ASSUME IInv, UnusedInv, [Next]_vars PROVE UnusedInv'
  OBVIOUS
<1>a. TypeOK /\ SlotInv /\ NoNode \notin Nodes
  BY NodeFacts DEF IInv
<1>b. \A w \in Workers : wpc[w] = "init" => slot[w] \in Nodes
  BY <1>a DEF SlotInv, Holding
\* a step that neither frees a slot, nor lets a worker in, nor touches a state
<1>c. ASSUME UNCHANGED <<free, slot, st>>,
             \A w \in Workers : wpc'[w] = "init" => wpc[w] = "init"
      PROVE  UnusedInv'
  BY <1>c DEF UnusedInv
<1>1. CASE EngineForward
  <2>1. epc = "forward" /\ UNCHANGED <<free, slot, wpc>>
        /\ \A n \in Nodes : n \notin batch => st'[n] = st[n]
    BY <1>1, <1>a, ForwardOf DEF EngineForward, ForwardedState, TypeOK, schedVars, workerVars
  <2>2. \A n \in batch : \E w \in Workers : slot[w] = n /\ wpc[w] \in Stepping
    BY <2>1, CollectedAreStepping
  <2>3. \A n \in free : n \in Nodes /\ n \notin batch
    BY <1>a, <2>2 DEF SlotInv, TypeOK
  <2>4. \A w \in Workers : wpc[w] = "init" => slot[w] \notin batch
    BY <1>a, <1>b, <2>2 DEF SlotInv, Stepping
  <2> QED BY <1>b, <2>1, <2>3, <2>4 DEF UnusedInv
<1>2. CASE EngineScan \/ EngineSleep \/ EngineLock \/ EngineCommit
  BY <1>2, <1>c DEF EngineScan, EngineSleep, EngineLock, EngineCommit, schedVars, workerVars
<1>3. CASE EngineNotify
  BY <1>3, <1>c DEF EngineNotify, AllAwake, Awake, schedVars
<1>4. CASE Destroy \/ SpuriousWakeup \/ UNCHANGED vars
  <2>1. \A w \in Workers : wpc'[w] = "init" => wpc[w] = "init"
    BY <1>4, <1>a
    DEF Destroy, SpuriousWakeup, Goto, Awake, Sleepers, vars, workerVars, TypeOK
  <2> QED BY <1>4, <1>c, <2>1 DEF Destroy, SpuriousWakeup, vars, schedVars, workerVars
<1>5. ASSUME NEW w \in Workers, Arrive(w) \/ Worker(w)
      PROVE  UnusedInv'
  <2>1. CASE AcquireSlot(w)
    <3>1. PICK n \in free : free' = free \ {n} /\ slot' = [slot EXCEPT ![w] = n]
      BY <2>1 DEF AcquireSlot
    <3>2. \A v \in Workers : wpc'[v] = IF v = w THEN "init" ELSE wpc[v]
      BY <2>1, <1>a DEF AcquireSlot, Goto, TypeOK
    <3>3. \A v \in Workers : slot'[v] = IF v = w THEN n ELSE slot[v]
      BY <3>1, <1>a DEF TypeOK
    <3>4. st' = st
      BY <2>1 DEF AcquireSlot
    <3> QED BY <3>1, <3>2, <3>3, <3>4 DEF UnusedInv
  <2>2. CASE InitState(w)
    <3>1. free' = free /\ slot' = slot /\ wpc[w] = "init"
      BY <2>2 DEF InitState, schedVars
    <3>2. \A n \in Nodes : st'[n].rows = 0 \/ st'[n] = st[n]
      BY <2>2, <1>a DEF InitState, AllocatedState, TypeOK
    <3>3. \A v \in Workers : wpc'[v] = "init" => wpc[v] = "init"
      BY <2>2, <1>a DEF InitState, Goto, TypeOK
    <3> QED BY <1>a, <1>b, <3>1, <3>2, <3>3 DEF UnusedInv, TypeOK
  <2>3. CASE Prefill(w)
    <3>1. free' = free /\ slot' = slot
      BY <2>3 DEF Prefill, schedVars
    <3>2. \A n \in Nodes : st'[n].rows = st[n].rows
      BY <2>3, <1>a DEF Prefill, TypeOK, StateRecord
    <3>3. \A v \in Workers : wpc'[v] = "init" => wpc[v] = "init"
      BY <2>3, <1>a DEF Prefill, Goto, TypeOK
    <3> QED BY <1>a, <1>b, <3>1, <3>2, <3>3 DEF UnusedInv, TypeOK
  <2>4. CASE ReleaseSlot(w)
    <3>1. wpc[w] = "release" /\ slot[w] \in Nodes /\ free' = free \cup {slot[w]}
          /\ st' = [st EXCEPT ![slot[w]] = FreedState]
          /\ slot' = [slot EXCEPT ![w] = NoNode]
      BY <2>4, <1>a DEF ReleaseSlot, SlotInv, Holding
    <3>2. \A v \in Workers : wpc'[v] = IF v = w THEN "wake" ELSE wpc[v]
      BY <2>4, <1>a DEF ReleaseSlot, Goto, TypeOK
    <3>3. \A n \in Nodes : st'[n].rows = 0 \/ st'[n] = st[n]
      BY <1>a, <3>1 DEF FreedState, TypeOK
    <3>4. st'[slot[w]].rows = 0
      BY <1>a, <3>1 DEF FreedState, TypeOK
    <3>5. \A v \in Workers : v # w => slot'[v] = slot[v]
      BY <1>a, <3>1 DEF TypeOK
    <3> QED BY <1>a, <1>b, <3>1, <3>2, <3>3, <3>4, <3>5 DEF UnusedInv, TypeOK
  <2>5. CASE \/ Arrive(w) \/ AcquireFull(w) \/ AcquireTimeout(w) \/ AcquireAgain(w)
             \/ AcquireSleep(w) \/ PrefillLock(w) \/ SubmitToken(w) \/ EndDecode(w)
             \/ StepSignal(w) \/ StepCheck(w) \/ StepSleep(w) \/ ReleaseNotify(w)
    <3>1. \A v \in Workers : wpc'[v] = "init" => wpc[v] = "init"
      BY <2>5, <1>a
      DEF Arrive, AcquireFull, AcquireTimeout, AcquireAgain, AcquireSleep, PrefillLock,
          SubmitToken, EndDecode, StepSignal, StepCheck, StepSleep, ReleaseNotify, Goto,
          AllAwake, Awake, Sleepers, TypeOK
    <3>2. UNCHANGED <<free, slot, st>>
      BY <2>5
      DEF Arrive, AcquireFull, AcquireTimeout, AcquireAgain, AcquireSleep, PrefillLock,
          SubmitToken, EndDecode, StepSignal, StepCheck, StepSleep, ReleaseNotify, schedVars
    <3> QED BY <3>1, <3>2, <1>c
  <2> QED BY <1>5, <2>1, <2>2, <2>3, <2>4, <2>5 DEF Worker
<1> QED BY <1>1, <1>2, <1>3, <1>4, <1>5 DEF Next, Engine

\* What LockstepDecode sees of a worker stays as it is.
SameFor(v) ==
  /\ PhaseOf(v)' = PhaseOf(v)
  /\ SubmittedBy(v)' = SubmittedBy(v)
  /\ ForwardedFor(v)' = ForwardedFor(v)

\* A worker that stays where it is, or is woken, looks the same.
LEMMA Unmoved ==
  ASSUME NEW v \in Workers,
         wpc'[v] = wpc[v] \/ wpc'[v] = Awake(wpc[v]),
         slot'[v] = slot[v], gen'[v] = gen[v],
         slot[v] # NoNode => st'[slot[v]].rows = st[slot[v]].rows
  PROVE  SameFor(v)
<1>1. PhaseOf(v)' = PhaseOf(v)
  BY DEF PhaseOf, Awake
<1>2. SubmittedBy(v)' = SubmittedBy(v)
  BY DEF SubmittedBy, Awake, Stepping
<1>3. ForwardedFor(v)' = ForwardedFor(v)
  BY DEF ForwardedFor
<1> QED BY <1>1, <1>2, <1>3 DEF SameFor

\* A step that every worker looks the same after is none of LockstepDecode.
LEMMA AllUnmoved ==
  ASSUME \A v \in Workers : SameFor(v)
  PROVE  UNCHANGED Promise!vars
BY DEF SameFor, Promise!vars

\* A step after which all workers but one look the same.
LEMMA OneMoves ==
  ASSUME NEW w \in Workers, \A v \in Workers : v # w => SameFor(v)
  PROVE  /\ [v \in Workers |-> PhaseOf(v)]' =
              [[v \in Workers |-> PhaseOf(v)] EXCEPT ![w] = PhaseOf(w)']
         /\ [v \in Workers |-> SubmittedBy(v)]' =
              [[v \in Workers |-> SubmittedBy(v)] EXCEPT ![w] = SubmittedBy(w)']
         /\ [v \in Workers |-> ForwardedFor(v)]' =
              [[v \in Workers |-> ForwardedFor(v)] EXCEPT ![w] = ForwardedFor(w)']
BY DEF SameFor

\* The same, for the worker that moves: what it takes to be a step of one request.
LEMMA OneMovesAs ==
  ASSUME NEW w \in Workers, \A v \in Workers : v # w => SameFor(v)
  PROVE  /\ SubmittedBy(w)' = SubmittedBy(w) =>
              [v \in Workers |-> SubmittedBy(v)]' = [v \in Workers |-> SubmittedBy(v)]
         /\ ForwardedFor(w)' = ForwardedFor(w) =>
              [v \in Workers |-> ForwardedFor(v)]' = [v \in Workers |-> ForwardedFor(v)]
BY DEF SameFor

\* A free slot means that fewer than BatchMax requests are admitted.
LEMMA RoomForOne ==
  ASSUME TypeOK, SlotInv, NEW n \in free
  PROVE  Cardinality(Promise!Admitted) < BatchMax
<1> DEFINE A == {w \in Workers : wpc[w] \in Holding}
           R == Nodes \ {n}
           f == [w \in A |-> slot[w]]
<1>1. Promise!Admitted = A
  <2>1. \A w \in Workers : PhaseOf(w) \in {"loading", "decoding", "awaiting"}
                             <=> wpc[w] \in Holding
    BY DEF PhaseOf, Holding, TypeOK, WorkerAt
  <2> QED BY <2>1 DEF Promise!Admitted
<1>2. IsFiniteSet(Nodes) /\ Cardinality(Nodes) = BatchMax /\ n \in Nodes
  <2>1. Cardinality(1 .. BatchMax) = BatchMax /\ IsFiniteSet(1 .. BatchMax)
    BY FS_Interval, BatchMaxAssumption
  <2> QED BY <2>1 DEF Nodes, TypeOK
<1>3. IsFiniteSet(R) /\ Cardinality(R) = BatchMax - 1
  BY <1>2, FS_RemoveElement
<1>4. f \in [A -> R]
  BY DEF SlotInv, TypeOK
<1>5. \A v, w \in A : f[v] = f[w] => v = w
  BY DEF SlotInv
<1>6. f \in Injection(A, R)
  BY <1>4, <1>5 DEF Injection, IsInjective
<1>7. Cardinality(A) <= Cardinality(R) /\ Cardinality(A) \in Nat
  <2> HIDE DEF A, R, f
  <2>1. IsFiniteSet(A) /\ Cardinality(A) <= Cardinality(R)
    BY <1>3, <1>6, FS_Injection
  <2> QED BY <2>1, FS_CardinalityType
<1> QED BY <1>1, <1>3, <1>7, BatchMaxAssumption

\* A step of the engine is a forward of the requests it collected, or no step.
LEMMA EngineLockstep ==
  ASSUME ~ScratchFails, IInv, Engine
  PROVE  [Promise!Next]_(Promise!vars)
<1>a. TypeOK /\ SlotInv /\ StateInv /\ BatchInv /\ NoNode \notin Nodes
  BY NodeFacts DEF IInv
<1>1. CASE EngineForward
  <2> DEFINE group == {w \in Workers : slot[w] \in batch /\ ~stop}
  <2>1. epc = "forward" /\ UNCHANGED <<slot, gen, wpc>>
        /\ st' = ForwardedState
    BY <1>1, ForwardOf DEF EngineForward, workerVars
  <2>2. \A n \in batch : \E w \in Workers : slot[w] = n /\ wpc[w] \in Stepping
    BY <2>1, CollectedAreStepping
  <2>3. ASSUME NEW w \in group
        PROVE  wpc[w] \in Stepping /\ st[slot[w]].rows + 1 = gen[w] /\ slot[w] \in Nodes
    <3>1. slot[w] \in batch /\ slot[w] \in Nodes /\ w \in Workers
      BY <1>a, <2>3 DEF TypeOK
    <3>2. wpc[w] \in Stepping
      BY <1>a, <2>2, <3>1 DEF SlotInv
    <3>3. Waiting(w)
      BY <1>a, <3>1, <3>2 DEF StateInv, StateOf
    <3>4. node[slot[w]].want /\ ~Forwarded(slot[w])
      BY <1>a, <2>1, <3>1 DEF BatchInv, Forwarded
    <3> QED BY <3>1, <3>2, <3>3, <3>4 DEF Waiting, Behind
  <2>4. \A n \in Nodes : st'[n].rows = IF n \in batch /\ ~stop THEN st[n].rows + 1
                                                              ELSE st[n].rows
    BY <1>a, <2>1 DEF TypeOK, StateRecord, ForwardedState
  <2>5. /\ \A w \in Workers : PhaseOf(w)' = PhaseOf(w) /\ SubmittedBy(w)' = SubmittedBy(w)
        /\ \A w \in Workers : ForwardedFor(w)' = IF w \in group THEN ForwardedFor(w) + 1
                                                               ELSE ForwardedFor(w)
    <3>1. \A w \in Workers : PhaseOf(w)' = PhaseOf(w) /\ SubmittedBy(w)' = SubmittedBy(w)
      BY <2>1 DEF PhaseOf, SubmittedBy
    <3>2. \A w \in Workers : slot[w] # NoNode => slot[w] \in Nodes
      BY <1>a DEF TypeOK
    <3>3. \A w \in group : slot[w] # NoNode
      BY <1>a, <2>3
    <3> QED BY <2>1, <2>4, <3>1, <3>2, <3>3 DEF ForwardedFor
  <2>6. CASE group = {}
    <3>1. \A w \in Workers : SameFor(w)
      BY <2>5, <2>6 DEF SameFor
    <3> QED BY <3>1, AllUnmoved
  <2>7. CASE group # {}
    <3>1. \A w \in group : w \in Workers /\ PhaseOf(w) = "awaiting"
      BY <2>3 DEF PhaseOf, Stepping
    <3>2. \A w \in group : SubmittedBy(w) = gen[w] /\ ForwardedFor(w) + 1 = gen[w]
      BY <1>a, <2>3 DEF SubmittedBy, ForwardedFor
    <3> HIDE DEF group
    <3>3. [w \in Workers |-> ForwardedFor(w)]' =
            [w \in Workers |-> IF w \in group THEN ForwardedFor(w) + 1 ELSE ForwardedFor(w)]
      BY <2>5
    <3>4. /\ [w \in Workers |-> PhaseOf(w)]' = [w \in Workers |-> PhaseOf(w)]
          /\ [w \in Workers |-> SubmittedBy(w)]' = [w \in Workers |-> SubmittedBy(w)]
      BY <2>5
    <3>5. Promise!Forward(group)
      BY <2>7, <3>1, <3>2, <3>3, <3>4 DEF Promise!Forward
    <3>6. group \in SUBSET Workers
      BY DEF group
    <3> QED BY <3>5, <3>6 DEF Promise!Next
  <2> QED BY <2>6, <2>7
<1>2. CASE EngineScan \/ EngineSleep \/ EngineLock \/ EngineCommit \/ EngineNotify
  <2>1. /\ \A v \in Workers : wpc'[v] = wpc[v] \/ wpc'[v] = Awake(wpc[v])
        /\ UNCHANGED <<slot, gen, st>>
    BY <1>2 DEF EngineScan, EngineSleep, EngineLock, EngineCommit, EngineNotify, AllAwake,
                workerVars
  <2>2. \A v \in Workers : SameFor(v)
    BY <2>1, Unmoved
  <2> QED BY <2>2, AllUnmoved
<1> QED BY <1>1, <1>2 DEF Engine

\* A step of a worker is a step of its own request, or no step.
LEMMA WorkerLockstep ==
  ASSUME ~ScratchFails, IInv, UnusedInv, NEW w \in Workers, Arrive(w) \/ Worker(w)
  PROVE  [Promise!Next]_(Promise!vars)
<1>a. TypeOK /\ SlotInv /\ StateInv /\ NoNode \notin Nodes
  BY NodeFacts DEF IInv
<1>b. \A v \in Workers : /\ slot[v] \in Nodes <=> wpc[v] \in Holding
                         /\ slot[v] \in Nodes \/ slot[v] = NoNode
  BY <1>a DEF SlotInv, TypeOK
\* the other workers, when this one alone moves and touches no slot but its own
<1>c. ASSUME NEW at, Goto(w, at),
             \A v \in Workers : v # w => slot'[v] = slot[v] /\ gen'[v] = gen[v],
             \A n \in Nodes : n # slot[w] => st'[n].rows = st[n].rows
      PROVE  \A v \in Workers : v # w => SameFor(v)
  <2> SUFFICES ASSUME NEW v \in Workers, v # w PROVE SameFor(v)
    OBVIOUS
  <2>1. wpc'[v] = wpc[v]
    BY <1>a, <1>c DEF Goto, TypeOK
  <2>2. slot[v] # NoNode => slot[v] \in Nodes /\ slot[v] # slot[w]
    BY <1>a, <1>b DEF SlotInv
  <2> QED BY <1>c, <2>1, <2>2, Unmoved
<1>d. ASSUME \A v \in Workers : SameFor(v) PROVE [Promise!Next]_(Promise!vars)
  BY <1>d, AllUnmoved
<1>e. ASSUME NEW at, Goto(w, at) PROVE wpc'[w] = at
  BY <1>a, <1>e DEF Goto, TypeOK
<1>1. CASE Arrive(w)
  <2>1. wpc[w] = "none" /\ Goto(w, "acquire") /\ UNCHANGED <<slot, gen, st>>
    BY <1>1 DEF Arrive
  <2>2. \A v \in Workers : v # w => SameFor(v)
    BY <1>c, <2>1
  <2>3. /\ PhaseOf(w) = "none" /\ PhaseOf(w)' = "queued"
        /\ SubmittedBy(w)' = SubmittedBy(w) /\ ForwardedFor(w)' = ForwardedFor(w)
    BY <1>e, <2>1 DEF PhaseOf, SubmittedBy, ForwardedFor, Stepping
  <2>4. Promise!Arrive(w)
    BY <2>2, <2>3, OneMoves, OneMovesAs DEF Promise!Arrive, Promise!Move
  <2> QED BY <2>4 DEF Promise!Next
<1>2. CASE AcquireTimeout(w)
  <2>1. wpc[w] = "full" /\ Goto(w, "none") /\ UNCHANGED <<slot, gen, st>>
    BY <1>2 DEF AcquireTimeout
  <2>2. \A v \in Workers : v # w => SameFor(v)
    BY <1>c, <2>1
  <2>3. /\ PhaseOf(w) = "queued" /\ PhaseOf(w)' = "none"
        /\ SubmittedBy(w)' = SubmittedBy(w) /\ ForwardedFor(w)' = ForwardedFor(w)
    BY <1>e, <2>1 DEF PhaseOf, SubmittedBy, ForwardedFor, Stepping
  <2>4. Promise!GiveUp(w)
    BY <2>2, <2>3, OneMoves, OneMovesAs DEF Promise!GiveUp, Promise!Move
  <2> QED BY <2>4 DEF Promise!Next
<1>3. CASE AcquireSlot(w)
  <2>1. PICK n \in free : slot' = [slot EXCEPT ![w] = n]
    BY <1>3 DEF AcquireSlot
  <2>2. wpc[w] = "acquire" /\ Goto(w, "init") /\ UNCHANGED <<gen, st>>
    BY <1>3 DEF AcquireSlot
  <2>3. n \in Nodes /\ slot[w] = NoNode /\ st[n].rows = 0
    BY <1>a, <1>b, <2>2 DEF TypeOK, Holding, UnusedInv
  <2>4. slot'[w] = n /\ \A v \in Workers : v # w => slot'[v] = slot[v]
    BY <1>a, <2>1 DEF TypeOK
  <2>5. \A v \in Workers : v # w => SameFor(v)
    BY <1>c, <2>2, <2>4
  <2>6. /\ PhaseOf(w) = "queued" /\ PhaseOf(w)' = "loading"
        /\ SubmittedBy(w)' = SubmittedBy(w) /\ ForwardedFor(w)' = ForwardedFor(w)
    BY <1>a, <1>e, <2>2, <2>3, <2>4 DEF PhaseOf, SubmittedBy, ForwardedFor, Stepping
  <2>7. Cardinality(Promise!Admitted) < BatchMax
    BY <1>a, RoomForOne
  <2>8. Promise!Admit(w)
    <3>1. Promise!Move(w, "queued", "loading")
      BY <2>5, <2>6, OneMoves DEF Promise!Move
    <3>2. /\ [v \in Workers |-> SubmittedBy(v)]' = [v \in Workers |-> SubmittedBy(v)]
          /\ [v \in Workers |-> ForwardedFor(v)]' = [v \in Workers |-> ForwardedFor(v)]
      BY <2>5, <2>6, OneMovesAs
    <3>3. Promise!Cardinality(Promise!Admitted) < BatchMax
      BY <2>7 DEF Cardinality, Promise!Cardinality
    <3> QED BY <3>1, <3>2, <3>3 DEF Promise!Admit
  <2> QED BY <2>8 DEF Promise!Next
<1>4. CASE InitState(w)
  <2>1. wpc[w] = "init" /\ slot' = slot /\ gen' = [gen EXCEPT ![w] = 0]
    BY <1>4 DEF InitState
  <2>2. slot[w] \in Nodes /\ st[slot[w]].rows = 0
    BY <1>b, <2>1 DEF Holding, UnusedInv
  <2>3. gen'[w] = 0 /\ \A v \in Workers : v # w => gen'[v] = gen[v]
    BY <1>a, <2>1 DEF TypeOK
  <2>4. CASE st' = [st EXCEPT ![slot[w]] = AllocatedState] /\ Goto(w, "prefill")
    <3>1. st'[slot[w]].rows = 0 /\ \A n \in Nodes : n # slot[w] => st'[n] = st[n]
      BY <1>a, <2>2, <2>4 DEF TypeOK, AllocatedState
    <3>2. \A v \in Workers : v # w => SameFor(v)
      BY <1>c, <2>1, <2>3, <2>4, <3>1
    <3>3. SameFor(w)
      BY <1>e, <2>1, <2>2, <2>4, <3>1
      DEF SameFor, PhaseOf, SubmittedBy, ForwardedFor, Stepping
    <3> QED BY <1>d, <3>2, <3>3
  <2>5. CASE st' = st /\ Goto(w, "release")
    <3>1. \A v \in Workers : v # w => SameFor(v)
      BY <1>c, <2>1, <2>3, <2>5
    <3>2. /\ PhaseOf(w) = "loading" /\ PhaseOf(w)' = "decoding"
          /\ SubmittedBy(w)' = SubmittedBy(w) /\ ForwardedFor(w)' = ForwardedFor(w)
      BY <1>e, <2>1, <2>3, <2>5 DEF PhaseOf, SubmittedBy, ForwardedFor, Stepping
    <3>3. Promise!Prefilled(w)
      BY <3>1, <3>2, OneMoves, OneMovesAs DEF Promise!Prefilled, Promise!Move
    <3> QED BY <3>3 DEF Promise!Next
  <2> QED BY <1>4, <2>4, <2>5 DEF InitState
<1>5. CASE Prefill(w)
  <2>1. wpc[w] = "prefilling" /\ UNCHANGED <<slot, gen>>
    BY <1>5 DEF Prefill
  <2>2. gen[w] = 0
    BY <1>a, <2>1 DEF StateInv, StateOf, Fresh
  <2>3. \A n \in Nodes : st'[n].rows = st[n].rows
    BY <1>5, <1>a DEF Prefill, TypeOK, StateRecord
  <2>4. PICK at \in {"decode", "release"} : Goto(w, at)
    BY <1>5 DEF Prefill
  <2>5. \A v \in Workers : v # w => SameFor(v)
    BY <1>c, <2>1, <2>3, <2>4
  <2>6. /\ PhaseOf(w) = "loading" /\ PhaseOf(w)' = "decoding"
        /\ SubmittedBy(w)' = SubmittedBy(w) /\ ForwardedFor(w)' = ForwardedFor(w)
    <3>1. wpc'[w] \in {"decode", "release"}
      BY <1>e, <2>4
    <3> QED BY <1>b, <2>1, <2>2, <2>3, <3>1
            DEF PhaseOf, SubmittedBy, ForwardedFor, Stepping
  <2>7. Promise!Prefilled(w)
    BY <2>5, <2>6, OneMoves, OneMovesAs DEF Promise!Prefilled, Promise!Move
  <2> QED BY <2>7 DEF Promise!Next
<1>6. CASE SubmitToken(w)
  <2>1. wpc[w] = "decode" /\ TokensLeft(w) /\ Goto(w, "signal")
        /\ gen' = [gen EXCEPT ![w] = @ + 1] /\ UNCHANGED <<slot, st>>
    BY <1>6 DEF SubmitToken
  <2>2. gen'[w] = gen[w] + 1 /\ \A v \in Workers : v # w => gen'[v] = gen[v]
    BY <1>a, <2>1 DEF TypeOK
  <2>3. \A v \in Workers : v # w => SameFor(v)
    BY <1>c, <2>1, <2>2
  <2>4. /\ PhaseOf(w) = "decoding" /\ PhaseOf(w)' = "awaiting"
        /\ SubmittedBy(w) + 1 < MaxTokens /\ SubmittedBy(w)' = SubmittedBy(w) + 1
        /\ ForwardedFor(w)' = ForwardedFor(w)
    BY <1>e, <2>1, <2>2
    DEF PhaseOf, SubmittedBy, ForwardedFor, Stepping, TokensLeft
  <2>5. Promise!Submit(w)
    BY <2>3, <2>4, OneMoves, OneMovesAs DEF Promise!Submit, Promise!Move
  <2> QED BY <2>5 DEF Promise!Next
<1>7. CASE StepCheck(w) /\ StepDone(slot[w])
  <2>1. wpc[w] = "check" /\ Goto(w, "decode") /\ UNCHANGED <<slot, gen, st>>
    BY <1>7 DEF StepCheck, workerVars
  <2>2. st[slot[w]].rows = gen[w] /\ slot[w] # NoNode
    <3>1. Waiting(w)
      BY <1>a, <2>1 DEF StateInv, StateOf, Stepping
    <3>2. ~node[slot[w]].want
      BY <1>7, <3>1 DEF Waiting
    <3> QED BY <1>a, <1>b, <2>1, <3>1, <3>2 DEF Waiting, Current, Holding
  <2>3. \A v \in Workers : v # w => SameFor(v)
    BY <1>c, <2>1
  <2>4. /\ PhaseOf(w) = "awaiting" /\ PhaseOf(w)' = "decoding"
        /\ ForwardedFor(w) = SubmittedBy(w)
        /\ SubmittedBy(w)' = SubmittedBy(w) /\ ForwardedFor(w)' = ForwardedFor(w)
    BY <1>e, <2>1, <2>2 DEF PhaseOf, SubmittedBy, ForwardedFor, Stepping
  <2>5. Promise!Resume(w)
    BY <2>3, <2>4, OneMoves, OneMovesAs DEF Promise!Resume, Promise!Move
  <2> QED BY <2>5 DEF Promise!Next
<1>8. CASE ReleaseSlot(w)
  <2>1. wpc[w] = "release" /\ Goto(w, "wake") /\ gen' = gen
        /\ slot' = [slot EXCEPT ![w] = NoNode] /\ st' = [st EXCEPT ![slot[w]] = FreedState]
    BY <1>8 DEF ReleaseSlot
  <2>2. slot'[w] = NoNode /\ \A v \in Workers : v # w => slot'[v] = slot[v]
    BY <1>a, <2>1 DEF TypeOK
  <2>3. \A n \in Nodes : n # slot[w] => st'[n] = st[n]
    BY <1>a, <2>1 DEF TypeOK
  <2>4. \A v \in Workers : v # w => SameFor(v)
    BY <1>c, <2>1, <2>2, <2>3
  <2>5. /\ PhaseOf(w) = "decoding" /\ PhaseOf(w)' = "none"
        /\ SubmittedBy(w)' = 0 /\ ForwardedFor(w)' = 0
    BY <1>e, <2>1, <2>2 DEF PhaseOf, SubmittedBy, ForwardedFor, Stepping
  <2>6. Promise!Finish(w)
    BY <2>4, <2>5, OneMoves DEF Promise!Finish, Promise!Move
  <2> QED BY <2>6 DEF Promise!Next
<1>9. CASE \/ AcquireFull(w) \/ AcquireAgain(w) \/ AcquireSleep(w) \/ PrefillLock(w)
           \/ EndDecode(w) \/ StepSleep(w) \/ (StepCheck(w) /\ ~StepDone(slot[w]))
  <2>1. PICK at : Goto(w, at)
    BY <1>9 DEF AcquireFull, AcquireAgain, AcquireSleep, PrefillLock, EndDecode, StepSleep,
                StepCheck
  <2>2. UNCHANGED <<slot, gen, st>>
    BY <1>9 DEF AcquireFull, AcquireAgain, AcquireSleep, PrefillLock, EndDecode, StepSleep,
                StepCheck, workerVars
  <2>3. \A v \in Workers : v # w => SameFor(v)
    BY <1>c, <2>1, <2>2
  <2>4. \/ wpc[w] = "acquire" /\ wpc'[w] = "full"
        \/ wpc[w] = "full" /\ wpc'[w] = "slotWait"
        \/ wpc[w] = "slotWait" /\ wpc'[w] \in {"acquire", "slotAsleep"}
        \/ wpc[w] = "prefill" /\ wpc'[w] = "prefilling"
        \/ wpc[w] = "decode" /\ wpc'[w] = "release"
        \/ wpc[w] = "stepWait" /\ wpc'[w] = "stepAsleep"
        \/ wpc[w] = "check" /\ wpc'[w] = "stepWait"
    BY <1>9, <1>e DEF AcquireFull, AcquireAgain, AcquireSleep, PrefillLock, EndDecode,
                      StepSleep, StepCheck
  <2>5. SameFor(w)
    BY <2>2, <2>4 DEF SameFor, PhaseOf, SubmittedBy, ForwardedFor, Stepping
  <2> QED BY <1>d, <2>3, <2>5
<1>10. CASE StepSignal(w)
  <2>1. wpc[w] = "signal" /\ wpc'[w] = "check" /\ UNCHANGED <<slot, gen, st>>
        /\ \A v \in Workers : v # w => wpc'[v] = wpc[v] \/ wpc'[v] = Awake(wpc[v])
    BY <1>10, <1>a DEF StepSignal, Sleepers, Goto, TypeOK
  <2>2. \A v \in Workers : v # w => SameFor(v)
    BY <2>1, Unmoved
  <2>3. SameFor(w)
    BY <2>1 DEF SameFor, PhaseOf, SubmittedBy, ForwardedFor, Stepping
  <2> QED BY <1>d, <2>2, <2>3
<1>11. CASE ReleaseNotify(w)
  <2>1. wpc[w] = "wake" /\ wpc'[w] = "none" /\ UNCHANGED <<slot, gen, st>>
        /\ \A v \in Workers : v # w => wpc'[v] = Awake(wpc[v])
    BY <1>11 DEF ReleaseNotify, AllAwake
  <2>2. \A v \in Workers : v # w => SameFor(v)
    BY <2>1, Unmoved
  <2>3. SameFor(w)
    BY <2>1 DEF SameFor, PhaseOf, SubmittedBy, ForwardedFor, Stepping
  <2> QED BY <1>d, <2>2, <2>3
<1> QED BY <1>1, <1>2, <1>3, <1>4, <1>5, <1>6, <1>7, <1>8, <1>9, <1>10, <1>11 DEF Worker

\* The scheduler, with its threads, locks and wakeups, implements LockstepDecode:
\* at most BatchMax requests at a time, every token forwarded once, and nobody
\* goes on before its own token went through, as long as no forward fails.
THEOREM DecodesInLockstep ==
  ASSUME ~ScratchFails
  PROVE  Spec => ImplementsPromise
<1>1. Init => Promise!Init
  BY DEF Init, Promise!Init, PhaseOf, SubmittedBy, ForwardedFor, Stepping
<1>2. Spec => []UnusedInv
  BY UnusedInit, UnusedStep, Invariance, PTL DEF Spec
<1>3. IInv /\ UnusedInv /\ [Next]_vars => [Promise!Next]_(Promise!vars)
  <2> SUFFICES ASSUME IInv, UnusedInv, [Next]_vars
               PROVE  [Promise!Next]_(Promise!vars)
    OBVIOUS
  <2>1. CASE Engine
    BY <2>1, EngineLockstep
  <2>2. ASSUME NEW w \in Workers, Arrive(w) \/ Worker(w)
        PROVE  [Promise!Next]_(Promise!vars)
    BY <2>2, WorkerLockstep
  <2>3. CASE Destroy \/ SpuriousWakeup \/ UNCHANGED vars
    <3>1. /\ \A v \in Workers : wpc'[v] = wpc[v] \/ wpc'[v] = Awake(wpc[v])
          /\ UNCHANGED <<slot, gen, st>>
      BY <2>3 DEF Destroy, SpuriousWakeup, Goto, vars, workerVars, IInv, TypeOK
    <3>2. \A v \in Workers : SameFor(v)
      BY <3>1, Unmoved
    <3> QED BY <3>2, AllUnmoved
  <2> QED BY <2>1, <2>2, <2>3 DEF Next
<1> QED BY <1>1, <1>2, <1>3, Invariance, PTL DEF Spec, ImplementsPromise, Promise!Spec

=============================================================================
