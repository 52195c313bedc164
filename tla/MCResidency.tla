---------------------------- MODULE MCResidency -----------------------------
(***************************************************************************)
(* Instances of Residency for TLC.                                         *)
(***************************************************************************)
EXTENDS ResidencyProps
=============================================================================
