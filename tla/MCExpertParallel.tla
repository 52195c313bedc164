-------------------------- MODULE MCExpertParallel --------------------------
(***************************************************************************)
(* Instances of ExpertParallel for TLC: six experts, two of them per call, *)
(* two or three processes.                                                 *)
(***************************************************************************)
EXTENDS ExpertParallelProps

\* Logits of six experts: the best two on the last rank; one each on two ranks
\* with equals behind them; all but one not a number.
Layers ==
  { [e \in Experts |-> e],
    [e \in Experts |-> IF e \in {1, 3} THEN 2 ELSE 1],
    [e \in Experts |-> IF e = 4 THEN 1 ELSE NaN] }

\* Two experts are busy, and rank 0 is the slowest by far.
Uneven == [load |-> [e \in Experts |-> IF e < 2 THEN 2 ELSE 1],
           cap  |-> [r \in 0 .. MaxRanks - 1 |-> 4 * r + 1]]

Settings == {Static, Uneven}
=============================================================================
