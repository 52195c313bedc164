---------------------------- MODULE MCBatchSched ----------------------------
(***************************************************************************)
(* Instances of BatchSched for TLC.                                        *)
(***************************************************************************)
EXTENDS BatchSchedProps, TLC

Symmetry == Permutations(Workers)
=============================================================================
