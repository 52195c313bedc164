--------------------------- MODULE ResidencyProps ---------------------------
(***************************************************************************)
(* What the residency ladder must get right.                               *)
(***************************************************************************)
EXTENDS Residency, L3EvictProps

\* Whatever order loads, requests and the monitor come in, the level of a loaded
\* model, once vllm_res_set_level has returned, is the one its engine is at: KV
\* eviction is on below L4, with the sparse attention it needs, and off at L4,
\* with the attention of the command line.
LevelIsApplied ==
  loaded /\ level # 0 /\ (\A s \in Setters : set[s].at \notin {"unlocked", "apply", "publish"}) =>
    /\ l3on <=> level # 4
    /\ sparse <=> CliSparse \/ l3on

\* A loaded model that nobody uses is unloaded in the end.
IdleUnloads == quiet = 4 /\ loaded ~> ~loaded \/ quiet < 4

\* vllm_res_tick: "with no --l3-evict back to L4, all resident": the level a
\* reloaded model resumes at is the one of the command line.
ResumesAsStarted ==
  [][level = 0 /\ level' # 0 => level' = IF CliL3 THEN 3 ELSE 4]_level
=============================================================================
