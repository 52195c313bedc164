----------------------------- MODULE Residency ------------------------------
(***************************************************************************)
(* The residency ladder (src/src/serve/vllm_server.c: vllm_res_level,      *)
(* vllm_res_set_level, res_apply, res_kv_l3_set, vllm_res_tick) over the   *)
(* requests and the KV eviction of L3Evict.                                *)
(*                                                                         *)
(* L4 keeps everything, L3 evicts cold KV blocks, L2 and L1 also release   *)
(* weight pages, L0 is no model.  The monitor goes down a level when the   *)
(* server is idle or memory is short; POST /admin/api/policy/set goes      *)
(* anywhere.  Several threads may be inside vllm_res_set_level.            *)
(*                                                                         *)
(* Abstracted: the pages of the weights (their release changes no value),  *)
(* the clock (how many of the increasing idle times have passed since the  *)
(* last inference), the 15 s between two reactions to low memory, the      *)
(* drain of an unload (Lifecycle has it), persisting the session.          *)
(***************************************************************************)
EXTENDS L3Evict

CONSTANTS
  Monitor,        \* idle_unload_thread
  Admins,         \* threads that serve policy/set
  CliL3,          \* --l3-evict
  CliSparse,      \* --sparse-attn
  WeightLevels,   \* res_wcap: weights can be released in part
  MemSoft,        \* mem_soft_mb is set
  MemLowLevel,    \* mem_low_lvl
  Overlap,        \* calls of different threads, and loads and unloads, overlap
  MaxSets         \* bound: calls of policy/set

ASSUME SettersAssumption == Monitor \notin Admins
ASSUME LadderAssumption ==
  /\ {CliL3, CliSparse, WeightLevels, MemSoft, Overlap} \subseteq BOOLEAN
  /\ MemLowLevel \in 0..4 /\ MaxSets \in Nat

VARIABLES
  level,    \* res.level
  loaded,   \* load_state == 2
  sparse,   \* g_sparse_attn
  forced,   \* res.l3_forced_sparse
  quiet,    \* idle times passed since last_infer_s
  set,      \* threads in vllm_res_tick and vllm_res_set_level
  sets      \* calls of policy/set so far

ladderVars == <<level, loaded, sparse, forced, quiet, set, sets>>
allVars    == <<vars, ladderVars>>

Setters == Admins \cup {Monitor}
Out == [at |-> "out", cur |-> 0, target |-> 0, next |-> "out"]

LadderTypeOK ==
  /\ level \in 0..4 /\ quiet \in 0..4 /\ sets \in 0..MaxSets
  /\ {loaded, sparse, forced} \subseteq BOOLEAN
  /\ set \in [Setters -> [at : {"out", "idle", "mem", "set", "unlocked", "apply", "publish"},
                          cur : 0..4, target : 0..4, next : {"out", "mem"}]]
  /\ \A s \in Setters : set[s].at \in {"unlocked", "apply", "publish"} => set[s].target # 0

LadderInit ==
  /\ InitState /\ l3on = CliL3 /\ round = 0 /\ sessions = {}
  /\ level = (IF CliL3 THEN 3 ELSE 4)
  /\ loaded = TRUE /\ sparse = CliSparse /\ forced = FALSE /\ quiet = 0
  /\ set = [s \in Setters |-> Out] /\ sets = 0

Alone == Overlap \/ \A s \in Setters : set[s].at = "out"

\* vllm_res_level.
ResLevel ==
  IF ~loaded THEN 0 ELSE IF ~WeightLevels /\ level \in 1..2 THEN 3 ELSE level

\* One down; without weight levels, from L3 to L0.
Below(l) == LET t == IF l = 0 THEN 0 ELSE l - 1 IN IF ~WeightLevels /\ t <= 2 THEN 0 ELSE t

\* The call returns, to the rest of the tick or to its caller.
Return(s) ==
  set' = [set EXCEPT ![s] =
    IF @.next = "mem" THEN [@ EXCEPT !.at = "mem", !.target = 0, !.next = "out"] ELSE Out]
Call(s, target, cur, next) ==
  set' = [set EXCEPT ![s] = [at |-> "set", cur |-> cur, target |-> target, next |-> next]]

-----------------------------------------------------------------------------
\* vllm_res_tick, called every second.
TickUnloaded ==
  /\ set[Monitor].at = "out" /\ ~loaded /\ level # 0
  /\ level' = 0
  /\ UNCHANGED <<vars, loaded, sparse, forced, quiet, set>>

StartLevel == IF l3on THEN 3 ELSE 4

TickResume ==
  /\ set[Monitor].at = "out" /\ Alone /\ loaded /\ level = 0
  /\ Call(Monitor, StartLevel, 0, "out")
  /\ UNCHANGED <<vars, level, loaded, sparse, forced, quiet>>

TickStart ==
  /\ set[Monitor].at = "out" /\ Alone /\ loaded /\ level # 0
  /\ set' = [set EXCEPT ![Monitor] = [Out EXCEPT !.at = "idle", !.cur = ResLevel]]
  /\ UNCHANGED <<vars, level, loaded, sparse, forced, quiet>>

\* (mutation: one idle time too many)
TickIdleLate ==
  /\ set[Monitor].at = "idle"
  /\ LET cur == set[Monitor].cur
     IN IF cur >= 1 /\ quiet >= 6 - cur
        THEN Call(Monitor, Below(cur), cur, "mem")
        ELSE set' = [set EXCEPT ![Monitor].at = "mem"]
  /\ UNCHANGED <<vars, level, loaded, sparse, forced, quiet>>

\* Idle for as long as the level it read allows: one level down (auto_idle is on).
TickIdle ==
  /\ set[Monitor].at = "idle"
  /\ LET cur == set[Monitor].cur
     IN IF cur >= 1 /\ quiet >= 5 - cur
        THEN Call(Monitor, Below(cur), cur, "mem")
        ELSE set' = [set EXCEPT ![Monitor].at = "mem"]
  /\ UNCHANGED <<vars, level, loaded, sparse, forced, quiet>>

\* Memory is short: one level below the one it read, mem_low_lvl at least.
MemTarget(cur) ==
  LET t == IF cur - 1 < MemLowLevel THEN MemLowLevel ELSE cur - 1
  IN IF ~WeightLevels /\ t \in 1..2 THEN 0 ELSE t

TickMem ==
  LET cur == set[Monitor].cur IN
  /\ set[Monitor].at = "mem"
  /\ \/ Return(Monitor)
     \/ MemSoft /\ cur >= 1 /\ MemTarget(cur) # cur /\ Call(Monitor, MemTarget(cur), cur, "out")
  /\ UNCHANGED <<vars, level, loaded, sparse, forced, quiet>>

\* policy/set.
AdminSets(s, l) ==
  /\ set[s].at = "out" /\ Alone /\ sets < MaxSets
  /\ Call(s, l, 0, "out") /\ sets' = sets + 1
  /\ UNCHANGED <<vars, level, loaded, sparse, forced, quiet>>

-----------------------------------------------------------------------------
\* vllm_res_set_level.
Clamped(l) == IF ~WeightLevels /\ l \in 1..2 THEN 3 ELSE l

\* A level the engine has: nothing is done.  Above L0, with a model: the
\* switches follow, under inf_lock.
SetStart(s) ==
  LET target == Clamped(set[s].target) IN
  /\ set[s].at = "set"
  /\ \/ target = ResLevel /\ Return(s)
     \/ /\ target # ResLevel /\ target # 0 /\ loaded
        /\ set' = [set EXCEPT ![s].at = "apply", ![s].target = target]
  /\ UNCHANGED <<vars, level, loaded, sparse, forced, quiet>>

\* A new inference state: the L3 switch and the users' table stay.
Fresh ==
  /\ ram' = [b \in Blocks |-> Blank] /\ cacheLen' = 0 /\ want' = <<>>
  /\ reusable' = FALSE /\ Closed
  /\ UNCHANGED <<l3on, pc, req, round, sessions>>

\* To L0: the unload refuses when a request is in flight.
SetUnload(s) ==
  /\ set[s].at = "set" /\ set[s].target = 0 /\ ResLevel # 0
  /\ Return(s)
  /\ \/ pc # "idle" /\ UNCHANGED <<vars, level, loaded>>
     \/ pc = "idle" /\ Fresh /\ loaded' = FALSE /\ level' = 0
  /\ UNCHANGED <<sparse, forced, quiet>>

\* Up from no model: load on use, which may fail; then L3 is switched off.
SetLoad(s) ==
  /\ set[s].at = "set" /\ set[s].target # 0 /\ ~loaded
  /\ \/ Return(s) /\ UNCHANGED <<vars, loaded, quiet>>
     \/ /\ Fresh /\ loaded' = TRUE /\ quiet' = 0
        /\ set' = [set EXCEPT ![s].at = "unlocked", ![s].target = Clamped(@)]
  /\ UNCHANGED <<level, sparse, forced>>

\* (mutation: the sparse attention stays on)
ResKvL3SetSparse(on) ==
  /\ SetL3(on)
  /\ IF on = l3on THEN UNCHANGED <<sparse, forced>>
     ELSE sparse' = (on \/ sparse) /\ forced' = (on /\ ~sparse)

\* res_kv_l3_set: eviction needs the sparse attention, which is switched on
\* with it, and off again only if it was switched on for it.
ResKvL3Set(on) ==
  /\ SetL3(on)
  /\ IF on = l3on THEN UNCHANGED <<sparse, forced>>
     ELSE sparse' = (on \/ (sparse /\ ~forced)) /\ forced' = (on /\ ~sparse)

\* ... without inf_lock.
SetUnlocked(s) ==
  /\ set[s].at = "unlocked"
  /\ IF loaded THEN ResKvL3Set(FALSE) ELSE UNCHANGED <<vars, sparse, forced>>
  /\ set' = [set EXCEPT ![s].at = "apply"]
  /\ UNCHANGED <<level, loaded, quiet>>

\* res_apply, with inf_lock; nothing if the model has gone.
SetApply(s) ==
  /\ set[s].at = "apply" /\ pc = "idle"
  /\ IF loaded THEN ResKvL3Set(set[s].target # 4) ELSE UNCHANGED <<vars, sparse, forced>>
  /\ set' = [set EXCEPT ![s].at = "publish"]
  /\ UNCHANGED <<level, loaded, quiet>>

SetPublish(s) ==
  /\ set[s].at = "publish"
  /\ level' = set[s].target
  /\ Return(s)
  /\ UNCHANGED <<vars, loaded, sparse, forced, quiet>>

-----------------------------------------------------------------------------
\* Requests; the idle time counts from where one begins or ends.
Serve ==
  /\ \/ Request
     \/ /\ loaded /\ (Overlap \/ \A s \in Setters : set[s].at # "unlocked")
        /\ \E u \in Users : Arrive(u)
  /\ quiet' = IF pc = "idle" \/ pc' = "idle" THEN 0 ELSE quiet
  /\ UNCHANGED <<level, loaded, sparse, forced, set, sets>>

\* A request finds no model and loads it (load on use).
LoadOnUse ==
  /\ ~loaded /\ round < MaxRounds /\ Alone
  /\ Fresh /\ loaded' = TRUE /\ quiet' = 0
  /\ UNCHANGED <<level, sparse, forced, set, sets>>

\* The admin API unloads.
OtherUnload ==
  /\ loaded /\ pc = "idle" /\ Alone
  /\ Fresh /\ loaded' = FALSE
  /\ UNCHANGED <<level, sparse, forced, quiet, set, sets>>

TimePasses ==
  /\ quiet < 4 /\ quiet' = quiet + 1
  /\ UNCHANGED <<vars, level, loaded, sparse, forced, set, sets>>

SetLevel(s) ==
  /\ SetStart(s) \/ SetUnload(s) \/ SetLoad(s) \/ SetUnlocked(s) \/ SetApply(s) \/ SetPublish(s)
  /\ UNCHANGED sets

Tick ==
  /\ TickUnloaded \/ TickResume \/ TickStart \/ TickIdle \/ TickMem
  /\ UNCHANGED sets

LadderNext ==
  \/ Tick \/ \E s \in Setters : SetLevel(s)
  \/ \E s \in Admins, l \in 0..4 : AdminSets(s, l)
  \/ Serve \/ LoadOnUse \/ OtherUnload \/ TimePasses

LadderSpec == LadderInit /\ [][LadderNext]_allVars

\* The clock and the monitor go on, a call returns, a request let in ends.
FairLadderSpec ==
  /\ LadderSpec
  /\ WF_allVars(Tick) /\ WF_allVars(TimePasses) /\ WF_allVars(Request /\ Serve)
  /\ \A s \in Setters : WF_allVars(SetLevel(s))
=============================================================================
