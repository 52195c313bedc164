--------------------------- MODULE LockstepDecode ---------------------------
(***************************************************************************)
(* What vllm_batch_run promises the request that calls it                  *)
(* (src/include/serve/vllm_batch.h), without threads, locks or wakeups: at *)
(* most BatchMax requests own an inference state, a decode token is        *)
(* forwarded exactly once, possibly together with those of other requests, *)
(* and the request goes on only after its own token went through.          *)
(***************************************************************************)
EXTENDS Naturals, FiniteSets

CONSTANTS Requesters, BatchMax, MaxTokens

VARIABLES
  phase,      \* of the request a requester is running
  submitted,  \* tokens it has handed to the scheduler
  forwarded   \* tokens that went through its inference state

vars == <<phase, submitted, forwarded>>

Phases == {"none", "queued", "loading", "decoding", "awaiting"}
Admitted == {r \in Requesters : phase[r] \in {"loading", "decoding", "awaiting"}}

Init ==
  /\ phase = [r \in Requesters |-> "none"]
  /\ submitted = [r \in Requesters |-> 0]
  /\ forwarded = [r \in Requesters |-> 0]

Move(r, from, to) == phase[r] = from /\ phase' = [phase EXCEPT ![r] = to]

Arrive(r) == Move(r, "none", "queued") /\ UNCHANGED <<submitted, forwarded>>

GiveUp(r) == Move(r, "queued", "none") /\ UNCHANGED <<submitted, forwarded>>

Admit(r) ==
  /\ Move(r, "queued", "loading")
  /\ Cardinality(Admitted) < BatchMax
  /\ UNCHANGED <<submitted, forwarded>>

Prefilled(r) ==
  /\ Move(r, "loading", "decoding")
  /\ UNCHANGED <<submitted, forwarded>>

Submit(r) ==
  /\ Move(r, "decoding", "awaiting")
  /\ submitted[r] + 1 < MaxTokens
  /\ submitted' = [submitted EXCEPT ![r] = @ + 1]
  /\ UNCHANGED forwarded

\* One forward serves every request of `group`, once.
Forward(group) ==
  /\ group # {}
  /\ \A r \in group : phase[r] = "awaiting" /\ forwarded[r] + 1 = submitted[r]
  /\ forwarded' = [r \in Requesters |->
                     IF r \in group THEN forwarded[r] + 1 ELSE forwarded[r]]
  /\ UNCHANGED <<phase, submitted>>

Resume(r) ==
  /\ Move(r, "awaiting", "decoding")
  /\ forwarded[r] = submitted[r]
  /\ UNCHANGED <<submitted, forwarded>>

Finish(r) ==
  /\ \/ Move(r, "loading", "none")
     \/ Move(r, "decoding", "none")
  /\ submitted' = [submitted EXCEPT ![r] = 0]
  /\ forwarded' = [forwarded EXCEPT ![r] = 0]

Next ==
  \/ \E r \in Requesters :
       \/ Arrive(r) \/ GiveUp(r) \/ Admit(r) \/ Prefilled(r) \/ Submit(r)
       \/ Resume(r) \/ Finish(r)
  \/ \E group \in SUBSET Requesters : Forward(group)

Spec == Init /\ [][Next]_vars
=============================================================================
