------------------------------ MODULE L3Evict -------------------------------
(***************************************************************************)
(* Cold KV blocks moved to disk: l3_evict_after_prefill (src/src/main.c),  *)
(* vllm_l3.c, l3_restore_prefix and st_qwen_kv_rebuild_freed               *)
(* (src/src/model/vllm_safetensors.c), ist_reset and the per-user files    *)
(* (src/src/serve/vllm_server.c).                                          *)
(*                                                                         *)
(* After a prefill the blocks with little attention mass are packed into   *)
(* the user's file, mirrored in memory and freed; decoding reads them from *)
(* there, and a later request that keeps a prefix unpacks its blocks.      *)
(*                                                                         *)
(* A row is the round that computed it, 0 for what a freshly backed block  *)
(* holds or a row computed in the wrong place.  Every layer takes the same *)
(* steps on blocks of its own: one stands for all.  Abstracted: the Q4     *)
(* packing, attention masses (any ranking), the layout of the file (a slot *)
(* per block); --l3-max-size is not set; re-backing a block, flushing and  *)
(* seeking do not fail.                                                    *)
(***************************************************************************)
EXTENDS Integers, SequencesExt

CONSTANTS
  Users,
  None,          \* no user, no file, no block
  NBlocks,       \* st->kv_n_blocks
  BlockRows,     \* st->kv_bs
  MinKeep,       \* PREFIX_KV_MIN_LCP
  MinSeq,        \* --l3-min-seq, 0 for none
  KeepPercent,   \* 100 * (1 - g_l3_ratio)
  Incremental,   \* VLLM_L3_PREFIX_REUSE
  Faults,        \* which of "restore", "write", "expiry" happen
  MaxRounds      \* bound: requests

ASSUME NoneAssumption == None \notin Users /\ None \notin [0..BlockRows-1 -> 0..MaxRounds]
ASSUME SizesAssumption ==
  /\ NBlocks \in Nat \ {0} /\ BlockRows \in Nat \ {0}
  /\ MinKeep \in Nat \ {0} /\ MinSeq \in Nat /\ MaxRounds \in Nat
  /\ KeepPercent \in 0..100
ASSUME SwitchesAssumption ==
  Incremental \in BOOLEAN /\ Faults \subseteq {"restore", "write", "expiry"}

VARIABLES
  l3on,      \* g_l3_evict
  pc,        \* the request that holds inf_lock
  req,       \* its user, its kept prefix and its length
  ram,       \* k_cache, v_cache: a block or None
  cacheLen,  \* st->cache_len
  want,      \* what the rows of the request's context are (no variable of the code)
  reusable,  \* ctx->last_n > 0
  round,
  bound,     \* whose file st->l3 has open
  onDisk, stale,  \* st->l3.blocks
  file,      \* the payloads in the file
  mirror,    \* st->l3.mem: no buffer, or the payloads read into it
  sessions   \* ctx->l3_users

l3Vars  == <<bound, onDisk, stale, file, mirror>>
ctxVars == <<cacheLen, want, reusable, round>>
vars    == <<l3on, pc, req, ram, ctxVars, l3Vars, sessions>>

Blocks  == 0..NBlocks-1
Rounds  == 0..MaxRounds
Content == [0..BlockRows-1 -> Rounds]
Blank   == [i \in 0..BlockRows-1 |-> 0]
NoReq   == [user |-> None, keep |-> 0, n |-> 0]
NoMem   == <<>>
Nothing == [b \in Blocks |-> None]   \* a buffer with nothing read into it

BlocksOf(n) == (n + BlockRows - 1) \div BlockRows

TypeOK ==
  /\ l3on \in BOOLEAN /\ reusable \in BOOLEAN /\ round \in Rounds
  /\ pc \in {"idle", "reset", "prefill", "evict", "decode"}
  /\ req \in [user : Users \cup {None}, keep : 0..NBlocks * BlockRows, n : 0..NBlocks * BlockRows]
  /\ ram \in [Blocks -> Content \cup {None}]
  /\ cacheLen \in 0..NBlocks * BlockRows
  /\ want \in Seq(Rounds) /\ Len(want) <= NBlocks * BlockRows
  /\ bound \in Users \cup {None}
  /\ onDisk \subseteq Blocks /\ stale \subseteq onDisk
  /\ file \in [Blocks -> Content]
  /\ mirror = NoMem \/ mirror \in [Blocks -> Content \cup {None}]
  /\ sessions \subseteq Users

InitState ==
  /\ pc = "idle" /\ req = NoReq
  /\ ram = [b \in Blocks |-> Blank]
  /\ cacheLen = 0 /\ want = <<>> /\ reusable = FALSE
  /\ bound = None /\ onDisk = {} /\ stale = {}
  /\ file = [b \in Blocks |-> Blank] /\ mirror = NoMem

Init == InitState /\ l3on \in BOOLEAN /\ round = 0 /\ sessions = {}

-----------------------------------------------------------------------------
\* What st->l3 gives for a block: from the buffer if there is one, else the file.
Payload(b) == IF mirror = NoMem THEN file[b] ELSE mirror[b]

\* l3_state_free.
Closed ==
  /\ bound' = None /\ onDisk' = {} /\ stale' = {} /\ mirror' = NoMem
  /\ file' = [b \in Blocks |-> Blank]

\* st_qwen_kv_rebuild_freed: the freed blocks are backed again, empty.
Backed(blocks) == [b \in Blocks |-> IF blocks[b] = None THEN Blank ELSE blocks[b]]

\* A request takes inf_lock; l3_user_apply drops the files of the idle users
\* (with "expiry" some may be) and enters its own.
Arrive(u) ==
  /\ pc = "idle" /\ round < MaxRounds
  /\ pc' = "reset" /\ req' = [NoReq EXCEPT !.user = u]
  /\ round' = round + 1
  /\ \E gone \in SUBSET sessions :
       /\ gone # {} => l3on /\ "expiry" \in Faults
       /\ sessions' = IF l3on THEN (sessions \ gone) \cup {u} ELSE sessions
       /\ IF bound \in gone THEN Closed ELSE UNCHANGED l3Vars
  /\ UNCHANGED <<l3on, ram, cacheLen, want, reusable>>

\* Prefixes the code may keep (prefix_kv_allowed): run_completion's longest
\* common prefix with the last request.
Keepable ==
  IF reusable /\ (l3on => Incremental)
  THEN MinKeep..(IF cacheLen < Len(want) THEN cacheLen ELSE Len(want)) ELSE {}

\* l3_restore_prefix: a prefix block that was freed and has a payload is
\* allocated and unpacked.  Without an open file, or with nothing ever packed,
\* nothing is done and nothing is missing.
Restorable(keep) ==
  IF bound = None THEN {}
  ELSE {b \in onDisk : b < BlocksOf(keep) /\ ram[b] = None}

Restored(done) == [b \in Blocks |-> IF b \in done THEN Payload(b) ELSE ram[b]]

UserSwitch == bound # None /\ l3on /\ bound # req.user

\* ist_reset with a prefix to keep: its blocks come back, the other freed ones
\* are backed.
ResetKeeping(keep) ==
  /\ cacheLen' = keep /\ want' = SubSeq(want, 1, keep)
  /\ ram' = Backed(IF l3on THEN Restored(Restorable(keep)) ELSE ram)
  /\ UNCHANGED l3Vars

\* ist_reset without: everything is forgotten, another user's file closed.
ResetForgetting(restored, keep) ==
  /\ cacheLen' = 0 /\ want' = SubSeq(want, 1, keep)
  /\ ram' = Backed(restored)
  /\ IF UserSwitch THEN Closed ELSE UNCHANGED l3Vars

Reset ==
  /\ pc = "reset" /\ pc' = "prefill"
  /\ \E keep \in {0} \cup Keepable, n \in 1..NBlocks * BlockRows :
       /\ keep < n
       /\ req' = [req EXCEPT !.keep = keep, !.n = n]
       /\ \/ keep = 0 /\ ResetForgetting(ram, 0)
          \/ keep > 0 /\ ResetKeeping(keep)
          \/ \* a block of the prefix cannot be allocated: no reuse, but
             \* run_completion still prefills what follows the prefix
             /\ keep > 0 /\ l3on /\ "restore" \in Faults
             /\ \E done \in SUBSET Restorable(keep) :
                  done # Restorable(keep) /\ ResetForgetting(Restored(done), keep)
  /\ UNCHANGED <<l3on, reusable, round, sessions>>

\* The rows from..to-1 are written.
Written(blocks, from, to, row) ==
  [b \in Blocks |-> IF blocks[b] = None THEN None ELSE
    [i \in 0..BlockRows-1 |->
      IF b * BlockRows + i \in from..to-1 THEN row ELSE blocks[b][i]]]

\* st_qwen_model_prefill_batch of the tokens after the prefix.
Prefill ==
  LET rest == req.n - req.keep
      good == cacheLen = req.keep
  IN /\ pc = "prefill" /\ pc' = "evict"
     /\ ram' = Written(ram, cacheLen, cacheLen + rest, IF good THEN round ELSE 0)
     /\ cacheLen' = cacheLen + rest
     /\ want' = want \o [i \in 1..rest |-> round]
     /\ UNCHANGED <<l3on, req, reusable, round, l3Vars, sessions>>

-----------------------------------------------------------------------------
\* (mutation: the last block may be cold)
AnyColdSets(n) ==
  LET keepN == LET k == (KeepPercent * n) \div 100 IN IF k < 1 THEN 1 ELSE k
  IN IF n <= 1 THEN {{}}
     ELSE {(0..n-1) \ hot : hot \in {h \in SUBSET (0..n-1) : Cardinality(h) = keepN}}

\* l3_pick_evict_blocks: all but the blocks with the most mass and the last.
ColdSets(n) ==
  LET keepN == LET k == (KeepPercent * n) \div 100 IN IF k < 1 THEN 1 ELSE k
  IN IF n <= 1 THEN {{}}
     ELSE {(0..n-2) \ hot : hot \in {h \in SUBSET (0..n-1) : Cardinality(h) = keepN}}

\* l3_state_matches: the state of the last round goes on.
Retained == Incremental /\ bound = req.user /\ mirror # NoMem

\* An emptied buffer is handed to the next state (l3_state_rewind).
Rewound == IF mirror = NoMem THEN NoMem ELSE Nothing

\* (mutation: a block that is kept in part stays valid)
MarkLater(on) == {b \in on : b > req.keep \div BlockRows}

\* Payloads of blocks not wholly within the kept prefix are void.
MarkStale(on) == {b \in on : b >= req.keep \div BlockRows}

\* l3_evict_layer packs the cold blocks that have no valid payload
\* (l3_evict_block), writing over the old one; l3_load_to_mem then reads the
\* file into the buffer, which may not be allocated; the cold blocks are freed,
\* packed or not.
EvictCold(cold, on, void, buffer) ==
  LET todo == cold \ (on \ void) IN
  \E failed \in SUBSET todo :
    /\ failed # {} => "write" \in Faults
    /\ LET packed == todo \ failed
           slots  == [b \in Blocks |-> IF b \in packed THEN ram[b]
                                       ELSE IF b \in on \ failed THEN file[b] ELSE Blank]
           now    == on \cup packed
       IN /\ onDisk' = now
          /\ stale' = void \ packed
          /\ file' = slots
          /\ IF packed # {} \/ buffer \in {NoMem, Nothing}
             THEN IF now = {} THEN mirror' = buffer
                  ELSE mirror' \in {NoMem, [b \in Blocks |-> IF b \in now THEN slots[b] ELSE None]}
             ELSE mirror' = buffer
    /\ ram' = [b \in Blocks |-> IF b \in cold THEN None ELSE ram[b]]

\* l3_evict_after_prefill.
Evict ==
  /\ pc = "evict" /\ pc' = "decode"
  /\ \/ ~l3on /\ UNCHANGED <<ram, l3Vars>>
     \/ /\ l3on /\ cacheLen < MinSeq
        /\ IF Retained THEN UNCHANGED l3Vars ELSE Closed
        /\ UNCHANGED ram
     \/ /\ l3on /\ cacheLen >= MinSeq
        /\ Retained
        /\ bound' = bound
        /\ \E cold \in ColdSets(BlocksOf(cacheLen)) :
             EvictCold(cold, onDisk, stale \cup MarkStale(onDisk), mirror)
     \/ /\ l3on /\ cacheLen >= MinSeq
        /\ ~Retained
        /\ bound' = req.user
        /\ \E cold \in ColdSets(BlocksOf(cacheLen)) : EvictCold(cold, {}, {}, Rewound)
     \/ \* the file cannot be opened: nothing is evicted
        /\ l3on /\ cacheLen >= MinSeq
        /\ ~Retained /\ Closed /\ UNCHANGED ram
  /\ UNCHANGED <<l3on, req, ctxVars, sessions>>

-----------------------------------------------------------------------------
\* A generated token's row.
DecodeStep ==
  /\ pc = "decode" /\ cacheLen < NBlocks * BlockRows
  /\ ram' = Written(ram, cacheLen, cacheLen + 1, round)
  /\ cacheLen' = cacheLen + 1 /\ want' = Append(want, round)
  /\ UNCHANGED <<l3on, pc, req, reusable, round, l3Vars, sessions>>

\* The request ends, well (its tokens are kept in last_ids) or not.
Finish ==
  /\ pc = "decode" /\ pc' = "idle" /\ req' = NoReq
  /\ reusable' \in BOOLEAN
  /\ UNCHANGED <<l3on, ram, cacheLen, want, round, l3Vars, sessions>>

\* res_kv_l3_set: off, the file is closed and the context forgotten; its freed
\* blocks are backed by the next request.
SetL3(on) ==
  /\ l3on' = on
  /\ IF on \/ ~l3on THEN UNCHANGED <<l3Vars, reusable>>
     ELSE /\ IF bound = None THEN UNCHANGED l3Vars ELSE Closed
          /\ reusable' = FALSE
  /\ UNCHANGED <<pc, req, ram, cacheLen, want, round, sessions>>

\* The policy switches it between requests, under inf_lock.
Switch == pc = "idle" /\ SetL3(~l3on)

Request == Reset \/ Prefill \/ Evict \/ DecodeStep \/ Finish

Next == (\E u \in Users : Arrive(u)) \/ Request \/ Switch

Spec == Init /\ [][Next]_vars
=============================================================================
