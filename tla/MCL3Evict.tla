----------------------------- MODULE MCL3Evict ------------------------------
(***************************************************************************)
(* Instances of L3Evict for TLC.                                           *)
(***************************************************************************)
EXTENDS L3EvictProps, TLC

Symmetry == Permutations(Users)
=============================================================================
