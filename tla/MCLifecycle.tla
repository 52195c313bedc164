---------------------------- MODULE MCLifecycle -----------------------------
(***************************************************************************)
(* Instances of Lifecycle for TLC.                                         *)
(***************************************************************************)
EXTENDS LifecycleProps, TLC

Symmetry == Permutations(Handlers)
=============================================================================
