--------------------------- MODULE ServerThreads ---------------------------
(***************************************************************************)
(* The HTTP worker threads, on which every handler runs.                   *)
(***************************************************************************)
EXTENDS Naturals, Sequences, FiniteSets

CONSTANT Threads

ASSUME ThreadsAssumption == IsFiniteSet(Threads) /\ Threads # {}
=============================================================================
