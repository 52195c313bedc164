---------------------------- MODULE MCSpecDecode ----------------------------
(***************************************************************************)
(* Instances of SpecDecode for TLC.                                        *)
(***************************************************************************)
EXTENDS SpecDecodeProps

\* Every prompt of 3 or 4 tokens, the shortest ones with a draft.
AllPrompts == [1 .. 3 -> Tokens] \cup [1 .. 4 -> Tokens]
=============================================================================
